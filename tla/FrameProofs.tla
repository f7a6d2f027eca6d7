---------------------------- MODULE FrameProofs -----------------------------
(***************************************************************************)
(* Proofs about WireRead, for every sequence of frames, every way the      *)
(* reads cut them and every limit: where the processor stands, and that    *)
(* no frame that has come whole is held back.                              *)
(***************************************************************************)
EXTENDS WireProofs

-----------------------------------------------------------------------------
(* The frames in the input.                                                *)

\* One sequence more is joined at the end.
LEMMA FlattenAppend ==
    ASSUME NEW S, NEW seqs \in Seq(Seq(S)), NEW x \in Seq(S)
    PROVE  FlattenSeq(Append(seqs, x)) = FlattenSeq(seqs) \o x
<1> DEFINE n == Len(seqs)
           more == Append(seqs, x)
<1>1. /\ n \in Nat /\ more \in Seq(Seq(S)) /\ Len(more) = n + 1
      /\ \A i \in 1..n : more[i] = seqs[i]
      /\ more[n + 1] = x
  BY AppendProperties
<1> HIDE DEF more
<1>2. PICK g : /\ \A i \in 1..Len(more) :
                    /\ g[i] \in Seq(S)
                    /\ g[i] = IF i = 1 THEN more[i] ELSE g[i - 1] \o more[i]
               /\ FlattenSeq(more) = g[Len(more)]
  <2>1. Len(more) # 0
    BY <1>1
  <2> QED
    BY <1>1, <2>1, FlattenRuns
<1>3. CASE n = 0
  <2>1. FlattenSeq(seqs) = <<>>
    <3>1. seqs = <<>>
      BY <1>3, EmptySeq
    <3> QED
      BY <1>3, <3>1 DEF FlattenSeq
  <2>2. FlattenSeq(more) = x
    BY <1>1, <1>2, <1>3
  <2>3. <<>> \o x = x
    BY ConcatEmptySeq
  <2> QED
    BY <2>1, <2>2, <2>3, Zenon DEF more
<1>4. CASE n # 0
  <2>1. PICK f : /\ \A i \in 1..n :
                      /\ f[i] \in Seq(S)
                      /\ f[i] = IF i = 1 THEN seqs[i] ELSE f[i - 1] \o seqs[i]
                 /\ FlattenSeq(seqs) = f[n]
    BY <1>4, FlattenRuns
  <2> DEFINE Same == {k \in Nat : k + 1 \in 1..n => g[k + 1] = f[k + 1]}
  <2>2. 0 \in Same
    <3>1. 1 \in 1..n /\ 1 \in 1..Len(more)
      BY <1>1, <1>4
    <3>2. g[1] = f[1]
      BY <1>1, <1>2, <2>1, <3>1
    <3> QED
      BY <3>2
  <2>3. ASSUME NEW k \in Nat, k \in Same PROVE k + 1 \in Same
    <3> SUFFICES ASSUME (k + 1) + 1 \in 1..n
                 PROVE  g[(k + 1) + 1] = f[(k + 1) + 1]
      OBVIOUS
    <3>1. /\ k + 1 \in 1..n /\ ((k + 1) + 1) - 1 = k + 1 /\ (k + 1) + 1 # 1
          /\ (k + 1) + 1 \in 1..Len(more)
      BY <1>1
    <3>2. g[(k + 1) + 1] = g[k + 1] \o seqs[(k + 1) + 1]
      BY <1>1, <1>2, <3>1
    <3>3. f[(k + 1) + 1] = f[k + 1] \o seqs[(k + 1) + 1]
      BY <2>1, <3>1
    <3> QED
      BY <2>3, <3>1, <3>2, <3>3
  <2>4. g[n] = f[n]
    <3>1. n - 1 \in Nat /\ (n - 1) + 1 = n /\ n \in 1..n
      BY <1>1, <1>4
    <3>2. n - 1 \in Same
      <4> HIDE DEF Same
      <4> QED
        BY <2>2, <2>3, <3>1, SetInduction
    <3> QED
      BY <3>1, <3>2
  <2>5. g[n + 1] = g[n] \o x
    <3>1. n + 1 \in 1..Len(more) /\ (n + 1) - 1 = n /\ n + 1 # 1
      BY <1>1, <1>4
    <3> QED
      BY <1>1, <1>2, <3>1
  <2> QED
    BY <1>1, <1>2, <2>1, <2>4, <2>5 DEF more
<1> QED
  BY <1>3, <1>4

\* The first n and one more.
LEMMA FlattenNext ==
    ASSUME NEW S, NEW n \in Nat, NEW g, \A i \in 1..n + 1 : g[i] \in Seq(S)
    PROVE  /\ FlattenSeq([i \in 1..n |-> g[i]]) \in Seq(S)
           /\ FlattenSeq([i \in 1..n + 1 |-> g[i]])
                = FlattenSeq([i \in 1..n |-> g[i]]) \o g[n + 1]
<1> DEFINE few == [i \in 1..n |-> g[i]]
           more == [i \in 1..n + 1 |-> g[i]]
<1>1. /\ few \in Seq(Seq(S)) /\ Len(few) = n
      /\ more \in Seq(Seq(S)) /\ Len(more) = n + 1
      /\ \A i \in 1..n : few[i] = g[i]
      /\ \A i \in 1..n + 1 : more[i] = g[i]
      /\ g[n + 1] \in Seq(S)
  OBVIOUS
<1> HIDE DEF few, more
<1>2. /\ Append(few, g[n + 1]) \in Seq(Seq(S))
      /\ Len(Append(few, g[n + 1])) = n + 1
      /\ \A i \in 1..n : Append(few, g[n + 1])[i] = few[i]
      /\ Append(few, g[n + 1])[n + 1] = g[n + 1]
  BY <1>1, AppendProperties
<1>3. ASSUME NEW i \in 1..n + 1 PROVE more[i] = Append(few, g[n + 1])[i]
  <2>3. i \in 1..n \/ i = n + 1
    OBVIOUS
  <2>1. CASE i \in 1..n
    BY <1>1, <1>2, <2>1
  <2>2. CASE i = n + 1
    BY <1>1, <1>2, <2>2
  <2> QED
    BY <2>1, <2>2, <2>3
<1>4. more = Append(few, g[n + 1])
  BY <1>1, <1>2, <1>3, SeqEqual
<1> QED
  BY <1>1, <1>4, FlattenAppend, FlattenType DEF few, more

\* Nothing joined is nothing.
LEMMA FlattenNone ==
    ASSUME NEW g
    PROVE  FlattenSeq([i \in 1..0 |-> g[i]]) = <<>>
<1>1. [i \in 1..0 |-> g[i]] = <<>>
  OBVIOUS
<1>2. FlattenSeq(<<>>) = <<>>
  BY DEF FlattenSeq
<1> QED
  BY <1>1, <1>2, Zenon

-----------------------------------------------------------------------------
(* Where the frames are in the input.                                      *)

\* The bytes of each frame, and those of the first n together.
FramesBytes == [i \in DOMAIN frames |-> FrameBytes(frames[i])]
Joined(n) == FlattenSeq([i \in 1..n |-> FramesBytes[i]])

\* They are sequences of numbers, and the frames' ends are counted by them.
LEMMA JoinedFrames ==
    ASSUME frames \in Seq(WireFrame)
    PROVE  /\ Len(frames) \in Nat /\ DOMAIN frames = 1..Len(frames)
           /\ \A i \in 1..Len(frames) :
                /\ FramesBytes[i] = FrameBytes(frames[i])
                /\ FramesBytes[i] \in Seq(Nat)
           /\ Joined(0) = <<>>
           /\ \A n \in 0..Len(frames) : Joined(n) \in Seq(Nat)
           /\ \A n \in 0..Len(frames) - 1 :
                Joined(n + 1) = Joined(n) \o FrameBytes(frames[n + 1])
           /\ \A n \in 0..Len(frames) : EndOf(n) = Len(AnswerBytes(answer)) + Len(Joined(n))
<1> DEFINE N == Len(frames)
<1>1. N \in Nat /\ DOMAIN frames = 1..N
  OBVIOUS
<1>2. \A i \in 1..N : frames[i] \in WireFrame
  OBVIOUS
<1>3. \A i \in 1..N : FramesBytes[i] = FrameBytes(frames[i])
  BY <1>1 DEF FramesBytes
<1>4. \A i \in 1..N : FramesBytes[i] \in Seq(Nat)
  BY <1>2, <1>3, FrameBytesType
<1>5. Joined(0) = <<>>
  BY FlattenNone DEF Joined
<1> HIDE DEF N
<1>6. ASSUME NEW n \in 0..N - 1
      PROVE  /\ Joined(n) \in Seq(Nat)
             /\ Joined(n + 1) = Joined(n) \o FrameBytes(frames[n + 1])
             /\ Joined(n + 1) \in Seq(Nat)
  <2>1. n \in Nat /\ n + 1 \in 1..N /\ \A i \in 1..n + 1 : i \in 1..N
    BY <1>1
  <2>2. \A i \in 1..n + 1 : FramesBytes[i] \in Seq(Nat)
    BY <1>4, <2>1
  <2>3. /\ Joined(n) \in Seq(Nat)
        /\ Joined(n + 1) = Joined(n) \o FramesBytes[n + 1]
    BY <2>1, <2>2, FlattenNext DEF Joined
  <2>4. /\ FramesBytes[n + 1] = FrameBytes(frames[n + 1])
        /\ FramesBytes[n + 1] \in Seq(Nat)
    BY <1>3, <1>4, <2>1
  <2>5. Joined(n) \o FramesBytes[n + 1] \in Seq(Nat)
    BY <2>3, <2>4, ConcatProperties
  <2> QED
    BY <2>3, <2>4, <2>5, Zenon
<1>7. ASSUME NEW n \in 0..N PROVE Joined(n) \in Seq(Nat)
  <2>1. CASE n = 0
    BY <1>5, <2>1, EmptySeq
  <2>2. CASE n # 0
    <3>1. n - 1 \in 0..N - 1 /\ (n - 1) + 1 = n
      BY <1>1, <2>2
    <3> QED
      BY <1>6, <3>1
  <2> QED
    BY <2>1, <2>2
<1>8. ASSUME NEW n \in 0..N
      PROVE  EndOf(n) = Len(AnswerBytes(answer)) + Len(Joined(n))
  <2>1. \A i \in 1..n : i \in 1..N
    BY <1>1
  <2>2. [i \in 1..n |-> FrameBytes(frames[i])] = [i \in 1..n |-> FramesBytes[i]]
    BY <1>3, <2>1
  <2> QED
    BY <2>2 DEF EndOf, Joined
<1> QED
  BY <1>1, <1>3, <1>4, <1>5, <1>6, <1>7, <1>8 DEF N

\* One frame ends where the next begins.
LEMMA EndsGrow ==
    ASSUME frames \in Seq(WireFrame), answer \in Seq(Symbols)
    PROVE  /\ Len(frames) \in Nat
           /\ EndOf(0) = Len(AnswerBytes(answer)) /\ EndOf(0) >= 2
           /\ \A n \in 0..Len(frames) : EndOf(n) \in Nat
           /\ \A n \in 0..Len(frames) - 1 :
                EndOf(n + 1) = EndOf(n) + Len(FrameBytes(frames[n + 1]))
<1> DEFINE A == Len(AnswerBytes(answer))
           N == Len(frames)
<1>1. A \in Nat /\ A >= 2
  BY AnswerBytesAre
<1>2. N \in Nat /\ \A n \in 0..N : Joined(n) \in Seq(Nat) /\ EndOf(n) = A + Len(Joined(n))
  BY JoinedFrames
<1> HIDE DEF A, N
<1>3. EndOf(0) = A
  <2>1. Joined(0) = <<>> /\ 0 \in 0..N
    BY <1>2, JoinedFrames
  <2> QED
    BY <1>1, <1>2, <2>1
<1>4. \A n \in 0..N : EndOf(n) \in Nat
  BY <1>1, <1>2
<1>5. ASSUME NEW n \in 0..N - 1
      PROVE  EndOf(n + 1) = EndOf(n) + Len(FrameBytes(frames[n + 1]))
  <2> DEFINE b == FrameBytes(frames[n + 1])
  <2>1. n \in 0..N /\ n + 1 \in 0..N /\ n + 1 \in 1..N
    BY <1>2
  <2>2. b \in Seq(Nat) /\ Joined(n + 1) = Joined(n) \o b
    BY <2>1, JoinedFrames DEF N
  <2> HIDE DEF b
  <2>3. Len(Joined(n + 1)) = Len(Joined(n)) + Len(b)
    BY <1>2, <2>1, <2>2, ConcatProperties
  <2>4. Len(Joined(n)) \in Nat /\ Len(b) \in Nat
    BY <1>2, <2>1, <2>2
  <2>5. EndOf(n + 1) = A + Len(Joined(n + 1)) /\ EndOf(n) = A + Len(Joined(n))
    BY <1>2, <2>1
  <2>6. A + (Len(Joined(n)) + Len(b)) = (A + Len(Joined(n))) + Len(b)
    BY <1>1, <2>4
  <2>7. EndOf(n + 1) = EndOf(n) + Len(b)
    BY <2>3, <2>5, <2>6, Zenon
  <2> QED
    BY <2>7 DEF b
<1> QED
  BY <1>1, <1>2, <1>3, <1>4, <1>5 DEF A, N

\* The bytes of the header that are not basic.
Extended(f) ==
    (CASE f.width = 7  -> <<>>
       [] f.width = 16 -> <<f.size \div 256, f.size % 256>>
       [] f.width = 64 -> <<0, 0, 0, 0, f.size \div 16777216, (f.size \div 65536) % 256,
                            (f.size \div 256) % 256, f.size % 256>>)
    \o (IF f.masked THEN <<0, 0, 0, 0>> ELSE <<>>)

Basic(f) ==
    <<(IF f.fin THEN 128 ELSE 0) + f.rsv * 16 + f.op,
      (IF f.masked THEN 128 ELSE 0) + (CASE f.width = 7 -> f.size
                                         [] f.width = 16 -> 126
                                         [] f.width = 64 -> 127)>>

\* A frame is its basic header, the rest of the header and the payload.
LEMMA FrameParts ==
    ASSUME NEW f \in WireFrame
    PROVE  /\ Basic(f) \in Seq(Nat) /\ Len(Basic(f)) = 2
           /\ Extended(f) \in Seq(Nat) /\ Len(Extended(f)) \in Nat
           /\ f.payload \in Seq(Nat)
           /\ FrameBytes(f) = Basic(f) \o (Extended(f) \o f.payload)
           /\ Len(FrameBytes(f)) = 2 + Len(Extended(f)) + Len(f.payload)
           /\ HeaderLen(f) = 2 + Len(Extended(f))
<1> DEFINE b0 == (IF f.fin THEN 128 ELSE 0) + f.rsv * 16 + f.op
           b1 == (IF f.masked THEN 128 ELSE 0) + (CASE f.width = 7 -> f.size
                                                    [] f.width = 16 -> 126
                                                    [] f.width = 64 -> 127)
           long == CASE f.width = 7  -> <<>>
                     [] f.width = 16 -> <<f.size \div 256, f.size % 256>>
                     [] f.width = 64 -> <<0, 0, 0, 0, f.size \div 16777216, (f.size \div 65536) % 256,
                                          (f.size \div 256) % 256, f.size % 256>>
           key == IF f.masked THEN <<0, 0, 0, 0>> ELSE <<>>
<1>1. /\ f.op \in 0..15 /\ f.rsv \in 0..7 /\ f.size \in Nat
      /\ f.width \in {7, 16, 64} /\ f.payload \in Seq(0..255)
      /\ f.fin \in BOOLEAN /\ f.masked \in BOOLEAN
  BY DEF WireFrame
<1>2. b0 \in Nat
  <2>1. f.op \in Nat /\ f.rsv \in Nat
    BY <1>1
  <2>2. (IF f.fin THEN 128 ELSE 0) \in Nat
    OBVIOUS
  <2> QED
    BY <2>1, <2>2
<1>3. b1 \in Nat
  BY <1>1
<1>4. long \in Seq(Nat)
  <2>1. /\ f.size \div 256 \in Nat /\ f.size % 256 \in Nat
        /\ f.size \div 16777216 \in Nat /\ (f.size \div 65536) % 256 \in Nat
        /\ (f.size \div 256) % 256 \in Nat
    <3>1. f.size \in Nat
      BY <1>1
    <3> QED
      BY <3>1, BytesOfSize, SMT
  <2>2. CASE f.width = 7
    BY <2>2
  <2>3. CASE f.width = 16
    BY <2>1, <2>3
  <2>4. CASE f.width = 64
    <3>1. PICK a, b, c, d \in Nat :
            /\ a = f.size \div 16777216 /\ b = (f.size \div 65536) % 256
            /\ c = (f.size \div 256) % 256 /\ d = f.size % 256
      BY <2>1, SMT
    <3>2. long = <<0, 0, 0, 0, a, b, c, d>>
      BY <2>4, <3>1, SMT
    <3>3. <<0, 0, 0, 0, a, b, c, d>> \in Seq(Nat)
      BY SMT
    <3> HIDE DEF long
    <3> QED
      BY <3>2, <3>3
  <2> QED
    BY <1>1, <2>2, <2>3, <2>4
<1>5. key \in Seq(Nat)
  OBVIOUS
<1>6. f.payload \in Seq(Nat)
  <2> DEFINE bytes == 0..255
  <2>1. bytes \subseteq Nat /\ f.payload \in Seq(bytes)
    BY <1>1
  <2> HIDE DEF bytes
  <2> QED
    BY <2>1, SeqMonotonic
<1> HIDE DEF b0, b1, long, key
<1>7. FrameBytes(f) = <<b0, b1>> \o long \o key \o f.payload
  BY DEF FrameBytes, b0, b1, long, key
<1>8. Basic(f) = <<b0, b1>> /\ Extended(f) = long \o key
  BY DEF Basic, Extended, b0, b1, long, key
<1> DEFINE h == Basic(f)
           x == Extended(f)
           d == f.payload
<1>9. h \in Seq(Nat)
  BY <1>2, <1>3, <1>8
<1>10. Len(h) = 2
  BY <1>8
<1>11. x \in Seq(Nat)
  BY <1>4, <1>5, <1>8, ConcatProperties
<1>12. d \in Seq(Nat)
  BY <1>6
<1>13. FrameBytes(f) = h \o long \o key \o d
  BY <1>7, <1>8
<1>14. x = long \o key
  BY <1>8
<1> HIDE DEF h, x, d
<1>15. (h \o long) \o key = h \o (long \o key)
  BY <1>4, <1>5, <1>9, ConcatAssociative
<1>16. (h \o x) \o d = h \o (x \o d)
  BY <1>9, <1>11, <1>12, ConcatAssociative
<1>17. FrameBytes(f) = h \o (x \o d)
  BY <1>13, <1>14, <1>15, <1>16, Zenon
<1>18. x \o d \in Seq(Nat)
  BY <1>11, <1>12, ConcatProperties
<1>19. Len(x \o d) = Len(x) + Len(d)
  BY <1>11, <1>12, ConcatProperties
<1>20. Len(h \o (x \o d)) = Len(h) + Len(x \o d)
  BY <1>9, <1>18, ConcatProperties
<1>21. Len(x) \in Nat /\ Len(d) \in Nat
  BY <1>11, <1>12
<1>22. Len(FrameBytes(f)) = 2 + Len(x) + Len(d)
  BY <1>10, <1>17, <1>19, <1>20, <1>21
<1>23. HeaderLen(f) = 2 + Len(x)
  BY <1>21, <1>22 DEF HeaderLen, d
<1> QED
  BY <1>9, <1>10, <1>11, <1>12, <1>17, <1>21, <1>22, <1>23 DEF h, x, d

\* A frame is at least as long as a basic header.
LEMMA FrameLength ==
    ASSUME NEW f \in WireFrame
    PROVE  Len(FrameBytes(f)) \in Nat /\ Len(FrameBytes(f)) >= 2
<1> DEFINE x == Len(Extended(f))
           d == Len(f.payload)
<1>1. x \in Nat /\ f.payload \in Seq(Nat) /\ Len(FrameBytes(f)) = 2 + x + d
  BY FrameParts
<1>2. d \in Nat
  BY <1>1
<1> HIDE DEF x, d
<1> QED
  BY <1>1, <1>2

\* What is joined first stays in front.
LEMMA JoinedPrefix ==
    ASSUME frames \in Seq(WireFrame), NEW m \in 0..Len(frames), NEW n \in m..Len(frames)
    PROVE  /\ Len(Joined(m)) <= Len(Joined(n))
           /\ \A j \in 1..Len(Joined(m)) : Joined(n)[j] = Joined(m)[j]
<1> DEFINE N == Len(frames)
           l == Len(Joined(m))
           Holds(k) == l <= Len(Joined(k)) /\ \A j \in 1..l : Joined(k)[j] = Joined(m)[j]
           Good == {d \in Nat : m + d <= N => Holds(m + d)}
<1>1. /\ N \in Nat
      /\ \A k \in 0..N : Joined(k) \in Seq(Nat)
      /\ \A k \in 0..N - 1 : Joined(k + 1) = Joined(k) \o FrameBytes(frames[k + 1])
      /\ \A k \in 1..N : FrameBytes(frames[k]) \in Seq(Nat)
  BY JoinedFrames
<1> HIDE DEF N
<1>2. m \in 0..N /\ n \in m..N /\ l \in Nat
  BY <1>1 DEF N
<1> HIDE DEF l
<1>3. 0 \in Good
  <2>1. m + 0 = m /\ l <= l
    BY <1>2
  <2>2. Holds(m)
    BY <2>1 DEF l
  <2> QED
    BY <2>1, <2>2
<1>4. ASSUME NEW d \in Nat, d \in Good PROVE d + 1 \in Good
  <2> SUFFICES ASSUME m + (d + 1) <= N PROVE Holds(m + (d + 1))
    OBVIOUS
  <2> DEFINE k == m + d
             b == FrameBytes(frames[k + 1])
  <2>1. k \in 0..N - 1 /\ k \in 0..N /\ k + 1 \in 1..N /\ m + (d + 1) = k + 1
    BY <1>1, <1>2
  <2>2. Holds(k)
    BY <1>4, <2>1
  <2>3. Joined(k) \in Seq(Nat) /\ b \in Seq(Nat) /\ Joined(k + 1) = Joined(k) \o b
    BY <1>1, <2>1
  <2> HIDE DEF k, b
  <2>4. /\ Len(Joined(k + 1)) = Len(Joined(k)) + Len(b)
        /\ \A j \in 1..Len(Joined(k)) + Len(b) :
              Joined(k + 1)[j] = IF j <= Len(Joined(k)) THEN Joined(k)[j]
                                 ELSE b[j - Len(Joined(k))]
    BY <2>3, ConcatProperties
  <2>5. Len(Joined(k)) \in Nat /\ Len(b) \in Nat
    BY <2>3
  <2>6. l <= Len(Joined(k + 1))
    BY <1>2, <2>2, <2>4, <2>5
  <2>7. ASSUME NEW j \in 1..l PROVE Joined(k + 1)[j] = Joined(m)[j]
    <3>1. j \in 1..Len(Joined(k)) + Len(b) /\ j <= Len(Joined(k))
      BY <1>2, <2>2, <2>5
    <3> QED
      BY <2>2, <2>4, <3>1
  <2> QED
    BY <2>1, <2>6, <2>7
<1>5. n - m \in Good
  <2>1. n - m \in Nat
    BY <1>1, <1>2
  <2> HIDE DEF Good
  <2> QED
    BY <1>3, <1>4, <2>1, SetInduction
<1>6. m + (n - m) = n /\ n <= N
  BY <1>1, <1>2
<1> QED
  BY <1>5, <1>6 DEF l

\* Behind an earlier frame the input goes on.
LEMMA EndsOrdered ==
    ASSUME frames \in Seq(WireFrame), answer \in Seq(Symbols),
           NEW m \in 0..Len(frames), NEW n \in m..Len(frames)
    PROVE  /\ EndOf(m) <= EndOf(n)
           /\ m < n => EndOf(m) < EndOf(n)
<1>1. /\ Len(frames) \in Nat
      /\ \A k \in 0..Len(frames) : EndOf(k) \in Nat
      /\ \A k \in 0..Len(frames) - 1 :
           EndOf(k + 1) = EndOf(k) + Len(FrameBytes(frames[k + 1]))
  BY EndsGrow
<1>2. ASSUME NEW a \in 0..Len(frames), NEW b \in a..Len(frames)
      PROVE  EndOf(a) <= EndOf(b)
  <2>1. Len(Joined(a)) <= Len(Joined(b))
    BY <1>2, JoinedPrefix
  <2>2. b \in 0..Len(frames)
    BY <1>1
  <2>3. /\ EndOf(a) = Len(AnswerBytes(answer)) + Len(Joined(a))
        /\ EndOf(b) = Len(AnswerBytes(answer)) + Len(Joined(b))
        /\ Joined(a) \in Seq(Nat) /\ Joined(b) \in Seq(Nat)
    BY <2>2, JoinedFrames
  <2>4. Len(AnswerBytes(answer)) \in Nat
    BY AnswerBytesAre
  <2>5. Len(Joined(a)) \in Nat /\ Len(Joined(b)) \in Nat
    BY <2>3
  <2> QED
    BY <2>1, <2>3, <2>4, <2>5
<1>3. ASSUME m < n PROVE EndOf(m) < EndOf(n)
  <2>1. m \in 0..Len(frames) - 1 /\ m + 1 \in 0..Len(frames) /\ n \in m + 1..Len(frames)
        /\ m + 1 \in 1..Len(frames) /\ n \in 0..Len(frames)
    BY <1>1, <1>3
  <2>2. EndOf(m + 1) <= EndOf(n)
    BY <1>2, <2>1
  <2>3. Len(FrameBytes(frames[m + 1])) \in Nat /\ Len(FrameBytes(frames[m + 1])) >= 2
    <3>1. frames[m + 1] \in WireFrame
      BY <2>1
    <3> QED
      BY <3>1, FrameLength
  <2> QED
    BY <1>1, <2>1, <2>2, <2>3
<1> QED
  BY <1>2, <1>3

\* The input as the server sends it.
InputIs ==
    /\ frames \in Seq(WireFrame) /\ answer \in Seq(Symbols)
    /\ input = AnswerBytes(answer)
               \o FlattenSeq([i \in DOMAIN frames |-> FrameBytes(frames[i])])

\* The input is the answer and the frames' bytes.
LEMMA InputHolds ==
    ASSUME InputIs
    PROVE  /\ input \in Seq(Nat) /\ Len(input) = EndOf(Len(frames))
           /\ \A n \in 0..Len(frames) - 1 :
                \A j \in 1..Len(FrameBytes(frames[n + 1])) :
                  input[EndOf(n) + j] = FrameBytes(frames[n + 1])[j]
<1> DEFINE N == Len(frames)
           a == AnswerBytes(answer)
           A == Len(a)
<1>1. frames \in Seq(WireFrame) /\ answer \in Seq(Symbols)
  BY DEF InputIs
<1>2. a \in Seq(Nat)
  BY <1>1, AnswerBytesAre
<1>3. N \in Nat /\ \A n \in 0..N : Joined(n) \in Seq(Nat) /\ EndOf(n) = A + Len(Joined(n))
  BY <1>1, JoinedFrames
<1>4. \A n \in 0..N - 1 : Joined(n + 1) = Joined(n) \o FrameBytes(frames[n + 1])
  BY <1>1, JoinedFrames
<1>5. input = a \o Joined(N)
  <2>1. [i \in DOMAIN frames |-> FrameBytes(frames[i])] = [i \in 1..N |-> FramesBytes[i]]
    BY <1>1, JoinedFrames
  <2> QED
    BY <2>1 DEF InputIs, Joined
<1>6. \A n \in 0..N - 1 : FrameBytes(frames[n + 1]) \in Seq(Nat)
  <2>1. \A n \in 0..N - 1 : n + 1 \in 1..Len(frames)
    BY <1>3
  <2> QED
    BY <1>1, <2>1, JoinedFrames
<1> HIDE DEF N, a, A
<1>7. N \in 0..N /\ Joined(N) \in Seq(Nat) /\ A \in Nat
  BY <1>2, <1>3 DEF A
<1>8. /\ a \o Joined(N) \in Seq(Nat) /\ Len(a \o Joined(N)) = Len(a) + Len(Joined(N))
      /\ \A j \in 1..Len(a) + Len(Joined(N)) :
            (a \o Joined(N))[j] = IF j <= Len(a) THEN a[j] ELSE Joined(N)[j - Len(a)]
  BY <1>2, <1>7, ConcatProperties
<1>9. Len(input) = EndOf(N)
  BY <1>3, <1>5, <1>7, <1>8 DEF A
<1>10. ASSUME NEW n \in 0..N - 1, NEW j \in 1..Len(FrameBytes(frames[n + 1]))
       PROVE  input[EndOf(n) + j] = FrameBytes(frames[n + 1])[j]
  <2> DEFINE b == FrameBytes(frames[n + 1])
             u == Joined(n)
             w == Joined(n + 1)
  <2>1. n \in 0..N /\ n + 1 \in 0..N
    BY <1>3
  <2>2. u \in Seq(Nat) /\ b \in Seq(Nat) /\ w = u \o b /\ EndOf(n) = A + Len(u)
    BY <1>3, <1>4, <1>6, <2>1
  <2>3. /\ Len(w) <= Len(Joined(N))
        /\ \A k \in 1..Len(w) : Joined(N)[k] = w[k]
    <3>1. N \in n + 1..Len(frames) /\ n + 1 \in 0..Len(frames)
      BY <1>3 DEF N
    <3> QED
      BY <1>1, <3>1, JoinedPrefix DEF N
  <2> HIDE DEF b, u, w
  <2>4. /\ Len(w) = Len(u) + Len(b)
        /\ \A k \in 1..Len(u) + Len(b) : w[k] = IF k <= Len(u) THEN u[k] ELSE b[k - Len(u)]
    BY <2>2, ConcatProperties
  <2>5. Len(u) \in Nat /\ Len(b) \in Nat /\ j \in 1..Len(b) /\ Len(Joined(N)) \in Nat
    BY <1>7, <2>2 DEF b
  <2>6. /\ Len(u) + j \in 1..Len(u) + Len(b) /\ ~(Len(u) + j <= Len(u))
        /\ (Len(u) + j) - Len(u) = j
        /\ Len(u) + j \in 1..Len(w)
    BY <2>4, <2>5
  <2>7. w[Len(u) + j] = b[j]
    BY <2>4, <2>6
  <2>8. Joined(N)[Len(u) + j] = b[j]
    BY <2>3, <2>6, <2>7
  <2>9. /\ (A + Len(u)) + j \in 1..A + Len(Joined(N))
        /\ ~((A + Len(u)) + j <= A)
        /\ ((A + Len(u)) + j) - A = Len(u) + j
    BY <1>7, <2>3, <2>4, <2>5
  <2>10. (a \o Joined(N))[(A + Len(u)) + j] = Joined(N)[Len(u) + j]
    BY <1>8, <2>9 DEF A
  <2> QED
    BY <1>5, <2>2, <2>8, <2>10 DEF b
<1>11. input \in Seq(Nat)
  BY <1>5, <1>8
<1> QED
  BY <1>9, <1>10, <1>11 DEF N

\* Where the parts of a frame are in the input.
LEMMA FrameAhead ==
    ASSUME InputIs, NEW i \in 0..Len(frames) - 1
    PROVE  LET f == frames[i + 1]
               e == EndOf(i)
               H == HeaderLen(f)
           IN /\ f \in WireFrame /\ e \in Nat /\ H \in Nat /\ H >= 2
              /\ Len(f.payload) \in Nat
              /\ EndOf(i + 1) = e + H + Len(f.payload)
              /\ EndOf(i + 1) <= Len(input)
              /\ \A j \in 1..2 : input[e + j] = Basic(f)[j]
              /\ \A j \in 1..H - 2 : input[e + 2 + j] = Extended(f)[j]
              /\ \A j \in 1..Len(f.payload) : input[e + H + j] = f.payload[j]
<1> DEFINE f == frames[i + 1]
           e == EndOf(i)
           h == Basic(f)
           x == Extended(f)
           d == f.payload
           b == FrameBytes(f)
<1>1. frames \in Seq(WireFrame) /\ answer \in Seq(Symbols) /\ Len(frames) \in Nat
  BY DEF InputIs
<1>2. f \in WireFrame
  <2>1. i + 1 \in 1..Len(frames)
    BY <1>1
  <2> QED
    BY <1>1, <2>1
<1>3. e \in Nat /\ EndOf(i + 1) = e + Len(b) /\ EndOf(i + 1) <= EndOf(Len(frames))
  <2>1. /\ i \in 0..Len(frames) /\ i + 1 \in 0..Len(frames)
        /\ Len(frames) \in i + 1..Len(frames)
    BY <1>1
  <2>2. e \in Nat /\ EndOf(i + 1) = e + Len(b)
    BY <1>1, <2>1, EndsGrow
  <2>3. EndOf(i + 1) <= EndOf(Len(frames))
    BY <1>1, <2>1, EndsOrdered
  <2> QED
    BY <2>2, <2>3
<1>4. /\ h \in Seq(Nat) /\ Len(h) = 2 /\ x \in Seq(Nat)
      /\ d \in Seq(Nat) /\ b = h \o (x \o d)
      /\ Len(b) = 2 + Len(x) + Len(d) /\ HeaderLen(f) = 2 + Len(x)
  BY <1>2, FrameParts
<1>5. EndOf(Len(frames)) = Len(input)
  BY InputHolds
<1>6. \A j \in 1..Len(b) : input[e + j] = b[j]
  BY InputHolds
<1> HIDE DEF f, e, h, x, d, b
<1>7. Len(x) \in Nat /\ Len(d) \in Nat
  BY <1>4
<1>8. /\ x \o d \in Seq(Nat) /\ Len(x \o d) = Len(x) + Len(d)
      /\ \A k \in 1..Len(x) + Len(d) :
           (x \o d)[k] = IF k <= Len(x) THEN x[k] ELSE d[k - Len(x)]
  BY <1>4, ConcatProperties
<1>9. \A k \in 1..Len(h) + Len(x \o d) :
        (h \o (x \o d))[k] = IF k <= Len(h) THEN h[k] ELSE (x \o d)[k - Len(h)]
  BY <1>4, <1>8, ConcatProperties
<1>10. ASSUME NEW j \in 1..2 PROVE input[e + j] = h[j]
  <2>1. j \in 1..2 + (Len(x) + Len(d)) /\ j \in 1..Len(b) /\ j <= 2
    BY <1>4, <1>7
  <2> QED
    BY <1>4, <1>6, <1>8, <1>9, <2>1
<1>11. ASSUME NEW j \in 1..Len(x) PROVE input[(e + 2) + j] = x[j]
  <2>1. /\ 2 + j \in 1..2 + (Len(x) + Len(d)) /\ 2 + j \in 1..Len(b) /\ ~(2 + j <= 2)
        /\ (2 + j) - 2 = j /\ j \in 1..Len(x) + Len(d) /\ j <= Len(x)
        /\ (e + 2) + j = e + (2 + j)
    BY <1>3, <1>4, <1>7
  <2>2. b[2 + j] = (x \o d)[j]
    BY <1>4, <1>8, <1>9, <2>1
  <2>3. (x \o d)[j] = x[j]
    BY <1>8, <2>1
  <2>4. input[e + (2 + j)] = b[2 + j]
    BY <1>6, <2>1
  <2> QED
    BY <2>1, <2>2, <2>3, <2>4, Zenon
<1>12. ASSUME NEW j \in 1..Len(d) PROVE input[(e + (2 + Len(x))) + j] = d[j]
  <2> DEFINE k == Len(x) + j
  <2>1. /\ 2 + k \in 1..2 + (Len(x) + Len(d)) /\ 2 + k \in 1..Len(b) /\ ~(2 + k <= 2)
        /\ (2 + k) - 2 = k /\ k \in 1..Len(x) + Len(d) /\ ~(k <= Len(x))
        /\ k - Len(x) = j
        /\ (e + (2 + Len(x))) + j = e + (2 + k)
    BY <1>3, <1>4, <1>7
  <2> HIDE DEF k
  <2>2. b[2 + k] = (x \o d)[k]
    BY <1>4, <1>8, <1>9, <2>1
  <2>3. (x \o d)[k] = d[j]
    BY <1>8, <2>1
  <2>4. input[e + (2 + k)] = b[2 + k]
    BY <1>6, <2>1
  <2> QED
    BY <2>1, <2>2, <2>3, <2>4, Zenon
<1>13. EndOf(i + 1) = e + (2 + Len(x)) + Len(d)
  BY <1>3, <1>4, <1>7
<1> DEFINE H == HeaderLen(f)
<1>14. H = 2 + Len(x) /\ H \in Nat /\ H >= 2 /\ H - 2 = Len(x)
  BY <1>4, <1>7
<1> HIDE DEF H
<1>15. /\ EndOf(i + 1) = e + H + Len(d)
       /\ EndOf(i + 1) <= Len(input)
       /\ \A j \in 1..2 : input[e + j] = h[j]
       /\ \A j \in 1..H - 2 : input[(e + 2) + j] = x[j]
       /\ \A j \in 1..Len(d) : input[(e + H) + j] = d[j]
  BY <1>3, <1>5, <1>10, <1>11, <1>12, <1>13, <1>14
<1> QED
  BY <1>2, <1>3, <1>7, <1>14, <1>15 DEF f, e, H, h, x, d

-----------------------------------------------------------------------------
(* What the processor reads from a header.                                 *)

\* The first byte holds three fields, the second two.
LEMMA FirstByteSplits ==
    ASSUME NEW k \in {0, 1}, NEW r \in 0..7, NEW o \in 0..15,
           NEW b, b = k * 128 + r * 16 + o
    PROVE  b % 16 = o /\ (b \div 16) % 8 = r /\ (b >= 128 <=> k = 1)
<1>1. b = 16 * (k * 8 + r) + o
  OBVIOUS
<1>2. b \div 16 = k * 8 + r /\ b % 16 = o
  BY <1>1
<1>3. (k * 8 + r) % 8 = r
  OBVIOUS
<1> QED
  BY <1>2, <1>3

LEMMA SecondByteSplits ==
    ASSUME NEW k \in {0, 1}, NEW s \in 0..127, NEW b, b = k * 128 + s
    PROVE  b % 128 = s /\ (b >= 128 <=> k = 1)
OBVIOUS

\* Division by 256 and its rest.
LEMMA Div256 ==
    ASSUME NEW q \in Nat
    PROVE  /\ q \div 256 \in Nat /\ q % 256 \in Nat /\ q % 256 < 256
           /\ q = 256 * (q \div 256) + (q % 256)
OBVIOUS

\* A size in four bytes, and in two.
InFour(s) ==
    (((s \div 16777216) * 256 + ((s \div 65536) % 256)) * 256
     + ((s \div 256) % 256)) * 256 + (s % 256)

LEMMA SizeSplits ==
    ASSUME NEW s \in Nat
    PROVE  /\ InFour(s) = s
           /\ (s \div 256) * 256 + (s % 256) = s
BY SMTT(30) DEF InFour

\* What the processor reads from a header is the frame's.
LEMMA HeaderReads ==
    ASSUME NEW f \in WireFrame, SizeFits(f)
    PROVE  LET h == Basic(f)
               x == Extended(f)
           IN /\ Opcode(h) = f.op /\ Rsv(h) = f.rsv
              /\ Fin(h) <=> f.fin
              /\ Masked(h) <=> f.masked
              /\ BasicSize(h) = CASE f.width = 7  -> f.size
                                  [] f.width = 16 -> 126
                                  [] f.width = 64 -> 127
              /\ ExtendedLen(h) = Len(x)
              /\ PayloadSize(h, x) = f.size
<1> DEFINE h == Basic(f)
           x == Extended(f)
           s == CASE f.width = 7 -> f.size [] f.width = 16 -> 126 [] f.width = 64 -> 127
           k0 == IF f.fin THEN 1 ELSE 0
           k1 == IF f.masked THEN 1 ELSE 0
           long == CASE f.width = 7  -> <<>>
                     [] f.width = 16 -> <<f.size \div 256, f.size % 256>>
                     [] f.width = 64 -> <<0, 0, 0, 0, f.size \div 16777216, (f.size \div 65536) % 256,
                                          (f.size \div 256) % 256, f.size % 256>>
           key == IF f.masked THEN <<0, 0, 0, 0>> ELSE <<>>
<1>1. /\ f.op \in 0..15 /\ f.rsv \in 0..7 /\ f.size \in Nat
      /\ f.width \in {7, 16, 64}
      /\ f.fin \in BOOLEAN /\ f.masked \in BOOLEAN
  BY DEF WireFrame
<1>2. /\ f.width = 7 => f.size < 126
      /\ f.width = 16 => f.size < 65536
      /\ f.width = 64 => f.size < 1073741824
  BY <1>1 DEF SizeFits
<1>3. s \in 0..127 /\ (s = 126 <=> f.width = 16) /\ (s = 127 <=> f.width = 64)
      /\ (f.width = 7 => s = f.size)
  BY <1>1, <1>2
<1>4. k0 \in {0, 1} /\ k1 \in {0, 1} /\ (k0 = 1 <=> f.fin) /\ (k1 = 1 <=> f.masked)
  BY <1>1
<1>5. h[1] = k0 * 128 + f.rsv * 16 + f.op
  <2>1. (IF f.fin THEN 128 ELSE 0) = k0 * 128
    BY <1>1
  <2> QED
    BY <2>1 DEF Basic
<1>6. h[2] = k1 * 128 + s
  <2>1. (IF f.masked THEN 128 ELSE 0) = k1 * 128
    BY <1>1
  <2> QED
    BY <2>1 DEF Basic
<1>7. x = long \o key
  BY DEF Extended
<1> HIDE DEF h, x, s, k0, k1
<1>8. Opcode(h) = f.op /\ Rsv(h) = f.rsv /\ (Fin(h) <=> f.fin)
  <2>1. h[1] % 16 = f.op /\ (h[1] \div 16) % 8 = f.rsv /\ (h[1] >= 128 <=> k0 = 1)
    BY <1>1, <1>4, <1>5, FirstByteSplits
  <2> QED
    BY <1>4, <2>1 DEF Opcode, Rsv, Fin
<1>9. BasicSize(h) = s /\ (Masked(h) <=> f.masked)
  <2>1. h[2] % 128 = s /\ (h[2] >= 128 <=> k1 = 1)
    BY <1>3, <1>4, <1>6, SecondByteSplits
  <2> QED
    BY <1>4, <2>1 DEF BasicSize, Masked
<1>10. long \in Seq(Nat)
  <2>1. /\ f.size \div 256 \in Nat /\ f.size % 256 \in Nat
        /\ f.size \div 16777216 \in Nat /\ (f.size \div 65536) % 256 \in Nat
        /\ (f.size \div 256) % 256 \in Nat
    <3>1. f.size \in Nat
      BY <1>1
    <3> QED
      BY <3>1, BytesOfSize, SMT
  <2>2. CASE f.width = 7
    BY <2>2
  <2>3. CASE f.width = 16
    BY <2>1, <2>3
  <2>4. CASE f.width = 64
    <3>1. PICK a, b, c, d \in Nat :
            /\ a = f.size \div 16777216 /\ b = (f.size \div 65536) % 256
            /\ c = (f.size \div 256) % 256 /\ d = f.size % 256
      BY <2>1, SMT
    <3>2. long = <<0, 0, 0, 0, a, b, c, d>>
      BY <2>4, <3>1, SMT
    <3>3. <<0, 0, 0, 0, a, b, c, d>> \in Seq(Nat)
      BY SMT
    <3> HIDE DEF long
    <3> QED
      BY <3>2, <3>3
  <2> QED
    BY <1>1, <2>2, <2>3, <2>4
<1>11. key \in Seq(Nat)
  OBVIOUS
<1>12. /\ f.width = 7 => Len(long) = 0
       /\ f.width = 16 => Len(long) = 2 /\ long[1] = f.size \div 256
                          /\ long[2] = f.size % 256
       /\ f.width = 64 => /\ Len(long) = 8
                          /\ \A j \in 1..4 : long[j] = 0
                          /\ long[5] = f.size \div 16777216
                          /\ long[6] = (f.size \div 65536) % 256
                          /\ long[7] = (f.size \div 256) % 256
                          /\ long[8] = f.size % 256
  OBVIOUS
<1>13. Len(key) = IF f.masked THEN 4 ELSE 0
  OBVIOUS
<1> HIDE DEF long, key
<1>14. /\ Len(x) = Len(long) + Len(key)
       /\ \A j \in 1..Len(long) + Len(key) :
            x[j] = IF j <= Len(long) THEN long[j] ELSE key[j - Len(long)]
  BY <1>7, <1>10, <1>11, ConcatProperties
<1>15. ExtendedLen(h) = Len(x)
  <2> DEFINE two == CASE BasicSize(h) = 126 -> 2
                      [] BasicSize(h) = 127 -> 8
                      [] OTHER              -> 0
             four == IF Masked(h) THEN 4 ELSE 0
  <2>1. two = Len(long)
    BY <1>1, <1>3, <1>9, <1>12
  <2>2. four = Len(key)
    BY <1>9, <1>13
  <2>3. ExtendedLen(h) = two + four
    BY Zenon DEF ExtendedLen
  <2> QED
    BY <1>14, <2>1, <2>2, <2>3, Zenon
<1>16. PayloadSize(h, x) = f.size
  <2>1. CASE f.width = 7
    <3>1. BasicSize(h) # 126 /\ BasicSize(h) # 127 /\ BasicSize(h) = f.size
      BY <1>3, <1>9, <2>1
    <3> QED
      BY <3>1 DEF PayloadSize
  <2>2. CASE f.width = 16
    <3>1. BasicSize(h) = 126
      BY <1>3, <1>9, <2>2
    <3>2. PayloadSize(h, x) = x[1] * 256 + x[2]
      BY <3>1 DEF PayloadSize
    <3>3. x[1] = f.size \div 256 /\ x[2] = f.size % 256
      <4>1. Len(long) = 2 /\ Len(key) \in Nat
        BY <1>12, <1>13, <2>2
      <4>2. 1 \in 1..Len(long) + Len(key) /\ 2 \in 1..Len(long) + Len(key)
        BY <4>1
      <4> QED
        BY <1>12, <1>14, <2>2, <4>1, <4>2
    <3> QED
      BY <1>1, <3>2, <3>3, SizeSplits
  <2>3. CASE f.width = 64
    <3>1. BasicSize(h) = 127 /\ BasicSize(h) # 126
      BY <1>3, <1>9, <2>3
    <3>2. ASSUME NEW j \in 1..8 PROVE x[j] = long[j]
      <4>1. Len(long) = 8 /\ Len(key) \in Nat
        BY <1>12, <1>13, <2>3
      <4>2. j \in 1..Len(long) + Len(key) /\ j <= Len(long)
        BY <4>1
      <4> QED
        BY <1>14, <4>2
    <3>3. /\ \A j \in 1..4 : x[j] = 0
          /\ x[5] = f.size \div 16777216 /\ x[6] = (f.size \div 65536) % 256
          /\ x[7] = (f.size \div 256) % 256
          /\ x[8] = f.size % 256
      <4>1. \A j \in 1..4 : j \in 1..8
        OBVIOUS
      <4>2. 5 \in 1..8 /\ 6 \in 1..8 /\ 7 \in 1..8 /\ 8 \in 1..8
        OBVIOUS
      <4> QED
        BY <1>12, <2>3, <3>2, <4>1, <4>2
    <3>4. ~((\E j \in 1..4 : x[j] # 0) \/ x[5] >= 64)
      <4>1. f.size \div 16777216 < 64
        BY <1>1, <1>2, <2>3, SMTT(30)
      <4>2. x[5] = f.size \div 16777216 /\ f.size \div 16777216 \in Nat
        BY <1>1, <3>3, SMT
      <4>3. ~(x[5] >= 64)
        BY <4>1, <4>2
      <4> QED
        BY <3>3, <4>3
    <3>5. PayloadSize(h, x) = ((x[5] * 256 + x[6]) * 256 + x[7]) * 256 + x[8]
      BY <3>1, <3>4, SMTT(30) DEF PayloadSize
    <3>6. f.size \in Nat
      BY <1>1
    <3>7. InFour(f.size) = f.size
      BY <3>6, SizeSplits
    <3>8. PayloadSize(h, x) = InFour(f.size)
      BY <3>3, <3>5 DEF InFour
    <3> QED
      BY <3>7, <3>8
  <2> QED
    BY <1>1, <2>1, <2>2, <2>3
<1> QED
  BY <1>8, <1>9, <1>15, <1>16 DEF h, x, s

\* The processor refuses a basic header just when the frame may not come.
LEMMA HeaderJudged ==
    ASSUME NEW f \in WireFrame, SizeFits(f), NEW open
    PROVE  LET h == Basic(f)
           IN /\ BasicHeaderError(h, open = <<>>)
                   = IF Frames!Malformed(f, open) THEN 1002 ELSE 0
              /\ NotMinimal(h, f.size) <=> Frames!Wasteful(f)
              /\ IsControl(Opcode(h)) <=> Frames!Control(f)
<1> DEFINE h == Basic(f)
<1>1. /\ f.op \in 0..15 /\ f.rsv \in 0..7 /\ f.size \in Nat
      /\ f.width \in {7, 16, 64}
  BY DEF WireFrame
<1>2. /\ f.width = 7 => f.size < 126
  BY <1>1 DEF SizeFits
<1>3. /\ Opcode(h) = f.op /\ Rsv(h) = f.rsv
      /\ Fin(h) <=> f.fin
      /\ Masked(h) <=> f.masked
      /\ BasicSize(h) = CASE f.width = 7  -> f.size
                          [] f.width = 16 -> 126
                          [] f.width = 64 -> 127
  BY HeaderReads
<1> HIDE DEF h
<1>4. /\ BasicSize(h) = 126 <=> f.width = 16
      /\ BasicSize(h) = 127 <=> f.width = 64
      /\ BasicSize(h) > PayloadSizeBasic <=> f.width # 7
  BY <1>1, <1>2, <1>3 DEF PayloadSizeBasic
<1>5. IsControl(Opcode(h)) <=> Frames!Control(f)
  BY <1>3 DEF IsControl, Frames!Control
<1>6. (\/ IsControl(Opcode(h)) /\ BasicSize(h) > PayloadSizeBasic
       \/ Rsv(h) # 0
       \/ Reserved(Opcode(h))
       \/ IsControl(Opcode(h)) /\ ~Fin(h)
       \/ open = <<>> /\ Opcode(h) = CONTINUATION
       \/ ~(open = <<>>) /\ ~IsControl(Opcode(h)) /\ Opcode(h) # CONTINUATION
       \/ Masked(h)) <=> Frames!Malformed(f, open)
  <2>1. Reserved(Opcode(h)) <=> f.op \in 3..7 \cup 11..15
    BY <1>3 DEF Reserved
  <2>2. \/ f.op \in 3..7 \cup 11..15
        \/ (f.op \in {1, 2} <=> ~IsControl(Opcode(h)) /\ Opcode(h) # CONTINUATION)
    BY <1>1, <1>3 DEF IsControl, CONTINUATION
  <2>3. Opcode(h) = CONTINUATION <=> f.op = 0
    BY <1>3 DEF CONTINUATION
  <2>4. Rsv(h) # 0 <=> f.rsv # 0
    BY <1>3
  <2> QED
    BY <1>3, <1>4, <1>5, <2>1, <2>2, <2>3, <2>4, Zenon DEF Frames!Malformed
<1>7. BasicHeaderError(h, open = <<>>) = IF Frames!Malformed(f, open) THEN 1002 ELSE 0
  <2>1. CASE Frames!Malformed(f, open)
    <3>1. BasicHeaderError(h, open = <<>>) = protocol_error
      BY <1>6, <2>1, Zenon DEF BasicHeaderError
    <3> QED
      BY <2>1, <3>1 DEF protocol_error
  <2>2. CASE ~Frames!Malformed(f, open)
    <3>1. BasicHeaderError(h, open = <<>>) = 0
      BY <1>6, <2>2, Zenon DEF BasicHeaderError
    <3> QED
      BY <2>2, <3>1
  <2> QED
    BY <2>1, <2>2
<1>8. NotMinimal(h, f.size) <=> Frames!Wasteful(f)
  BY <1>1, <1>4
     DEF NotMinimal, PayloadSizeBasic, PayloadSizeExtended, Frames!Wasteful
<1> QED
  BY <1>5, <1>7, <1>8 DEF h

-----------------------------------------------------------------------------
(* The pieces of the message that has begun.                               *)

-----------------------------------------------------------------------------
(* The message that has begun.                                             *)

\* The frames a message can be made of.
Piece == {g \in WireFrame : ~Frames!Control(g)}

\* The pieces of the message that has begun, from one frame to the next.
LEMMA PiecesRun ==
    ASSUME frames \in Seq(WireFrame)
    PROVE  /\ Frames!OpenPieces(0) = <<>>
           /\ \A i \in 0..Len(frames) - 1 :
                Frames!OpenPieces(i + 1)
                  = IF Frames!Control(frames[i + 1]) THEN Frames!OpenPieces(i)
                    ELSE IF frames[i + 1].fin THEN <<>>
                    ELSE Append(Frames!OpenPieces(i), frames[i + 1])
<1> DEFINE n == Len(frames)
           D == 0..n
           Body(g, i) == IF i = 0 THEN <<>>
                         ELSE IF Frames!Control(frames[i]) THEN g[i - 1]
                         ELSE IF frames[i].fin THEN <<>>
                         ELSE Append(g[i - 1], frames[i])
           Defined(g, k) == \A i \in D : i <= k => g[i] = Body(g, i)
           Upto == {k \in Nat : \E g : /\ DOMAIN g = D
                                       /\ g = [i \in D |-> g[i]]
                                       /\ Defined(g, k)}
<1>1. n \in Nat
  OBVIOUS
<1>2. 0 \in Upto
  <2> DEFINE g == [i \in D |-> <<>>]
  <2>1. DOMAIN g = D /\ g = [i \in D |-> g[i]] /\ Defined(g, 0)
    OBVIOUS
  <2> HIDE DEF g, Defined
  <2> QED
    BY <2>1
<1>3. ASSUME NEW k \in Nat, k \in Upto PROVE k + 1 \in Upto
  <2>1. PICK g : DOMAIN g = D /\ g = [i \in D |-> g[i]] /\ Defined(g, k)
    BY <1>3
  <2> DEFINE h == [i \in D |-> IF i = k + 1 THEN Body(g, i) ELSE g[i]]
  <2>2. /\ \A i \in D : i # k + 1 => h[i] = g[i]
        /\ k + 1 \in D => h[k + 1] = Body(g, k + 1)
        /\ DOMAIN h = D /\ h = [i \in D |-> h[i]]
    BY Zenon
  <2> HIDE DEF h, Body
  <2>3. ASSUME NEW i \in D, i <= k + 1 PROVE h[i] = Body(h, i)
    <3>1. i # 0 => i - 1 \in D /\ i - 1 # k + 1
      BY <1>1, <2>3
    <3>2. Body(h, i) = Body(g, i)
      BY <2>2, <3>1, Zenon DEF Body
    <3>3. CASE i = k + 1
      BY <2>2, <3>2, <3>3
    <3>4. CASE i # k + 1
      <4>1. i <= k
        BY <2>3, <3>4
      <4> QED
        BY <2>1, <2>2, <3>2, <3>4, <4>1
    <3> QED
      BY <3>3, <3>4
  <2>4. Defined(h, k + 1)
    BY <2>3
  <2> HIDE DEF Defined
  <2> QED
    BY <2>2, <2>4
<1>4. n \in Upto
  <2> HIDE DEF Upto
  <2> QED
    BY <1>1, <1>2, <1>3, SetInduction
<1>5. PICK g : g = [i \in D |-> g[i]] /\ \A i \in D : g[i] = Body(g, i)
  BY <1>1, <1>4
<1>6. g = [i \in D |-> Body(g, i)]
  <2> HIDE DEF Body
  <2> QED
    BY <1>5, Zenon
<1> DEFINE open == CHOOSE h : h = [i \in D |-> Body(h, i)]
<1>7. open = [i \in D |-> Body(open, i)]
  BY <1>6, Zenon
<1>8. \A i : Frames!OpenPieces(i) = open[i]
  BY Zenon DEF Frames!OpenPieces
<1> HIDE DEF open
<1>9. \A i \in D : open[i] = Body(open, i)
  BY <1>7
<1>10. open[0] = <<>>
  BY <1>1, <1>9
<1>11. ASSUME NEW i \in 0..n - 1
       PROVE  open[i + 1] = IF Frames!Control(frames[i + 1]) THEN open[i]
                            ELSE IF frames[i + 1].fin THEN <<>>
                            ELSE Append(open[i], frames[i + 1])
  <2>1. i + 1 \in D /\ i + 1 # 0 /\ (i + 1) - 1 = i
    BY <1>1
  <2>2. open[i + 1] = Body(open, i + 1)
    BY <1>9, <2>1
  <2> QED
    BY <2>1, <2>2, Zenon
<1> QED
  BY <1>8, <1>10, <1>11

\* They are data frames, not final, of a message that has begun.
LEMMA PiecesType ==
    ASSUME frames \in Seq(WireFrame), NEW i \in 0..Len(frames)
    PROVE  Frames!OpenPieces(i) \in Seq(Piece)
<1> DEFINE n == Len(frames)
           Typed == {k \in Nat : k <= n => Frames!OpenPieces(k) \in Seq(Piece)}
<1>1. n \in Nat /\ \A k \in 1..n : frames[k] \in WireFrame
  OBVIOUS
<1>2. 0 \in Typed
  <2>1. Frames!OpenPieces(0) = <<>>
    BY PiecesRun
  <2>2. <<>> \in Seq(Piece)
    OBVIOUS
  <2> QED
    BY <2>1, <2>2
<1>3. ASSUME NEW k \in Nat, k \in Typed PROVE k + 1 \in Typed
  <2> SUFFICES ASSUME k + 1 <= n PROVE Frames!OpenPieces(k + 1) \in Seq(Piece)
    OBVIOUS
  <2>1. k \in 0..n - 1 /\ k + 1 \in 1..n /\ Frames!OpenPieces(k) \in Seq(Piece)
    BY <1>1, <1>3
  <2>2. Frames!OpenPieces(k + 1)
          = IF Frames!Control(frames[k + 1]) THEN Frames!OpenPieces(k)
            ELSE IF frames[k + 1].fin THEN <<>>
            ELSE Append(Frames!OpenPieces(k), frames[k + 1])
    BY <2>1, PiecesRun
  <2>3. ~Frames!Control(frames[k + 1]) => frames[k + 1] \in Piece
    BY <1>1, <2>1 DEF Piece
  <2>4. <<>> \in Seq(Piece)
    OBVIOUS
  <2>5. \A a \in Seq(Piece), b \in Piece : Append(a, b) \in Seq(Piece)
    OBVIOUS
  <2> QED
    BY <2>1, <2>2, <2>3, <2>4, <2>5
<1>4. i \in Nat /\ i <= n
  BY <1>1
<1>5. i \in Typed
  <2> HIDE DEF Typed
  <2> QED
    BY <1>2, <1>3, <1>4, SetInduction
<1> QED
  BY <1>4, <1>5

\* The payload of a message grows with each piece.
LEMMA PayloadGrows ==
    ASSUME NEW open \in Seq(Piece), NEW f \in WireFrame
    PROVE  /\ Frames!Payload(<<>>) = <<>>
           /\ Frames!Payload(open) \in Seq(Byte)
           /\ Frames!Payload(Append(open, f)) = Frames!Payload(open) \o f.payload
           /\ Append(open, f)[1] = IF open = <<>> THEN f ELSE open[1]
           /\ Len(Append(open, f)) = 1 <=> open = <<>>
           /\ open # <<>> => open[1] \in Piece
<1> DEFINE n == Len(open)
           more == Append(open, f)
<1>1. /\ n \in Nat /\ DOMAIN open = 1..n /\ \A k \in 1..n : open[k] \in Piece
      /\ n = 0 <=> open = <<>>
  BY EmptySeq
<1>2. /\ Len(more) = n + 1 /\ DOMAIN more = 1..n + 1
      /\ \A k \in 1..n : more[k] = open[k]
      /\ more[n + 1] = f
  BY <1>1
<1> HIDE DEF more
<1>3. \A k \in 1..n + 1 : more[k] \in WireFrame
  BY <1>1, <1>2 DEF Piece
<1>4. \A k \in 1..n + 1 : more[k].payload \in Seq(Byte)
  BY <1>3 DEF WireFrame, Byte
<1> DEFINE g == [k \in 1..n + 1 |-> more[k].payload]
<1>5. \A k \in 1..n + 1 : g[k] = more[k].payload /\ g[k] \in Seq(Byte)
  BY <1>4
<1>6. g[n + 1] = f.payload
  BY <1>1, <1>2
<1>7. [k \in DOMAIN open |-> open[k].payload] = [k \in 1..n |-> g[k]]
  BY <1>1, <1>2
<1>8. [k \in DOMAIN more |-> more[k].payload] = [k \in 1..n + 1 |-> g[k]]
  BY <1>1, <1>2
<1>9. /\ FlattenSeq([k \in 1..n |-> g[k]]) \in Seq(Byte)
      /\ FlattenSeq([k \in 1..n + 1 |-> g[k]]) = FlattenSeq([k \in 1..n |-> g[k]]) \o g[n + 1]
  <2> HIDE DEF g
  <2> QED
    BY <1>1, <1>5, FlattenNext
<1> HIDE DEF g
<1>15. \A s : Frames!FlattenSeq(s) = FlattenSeq(s)
  BY Zenon DEF Frames!FlattenSeq, FlattenSeq
<1>10. /\ Frames!Payload(open) = FlattenSeq([k \in 1..n |-> g[k]])
       /\ Frames!Payload(more) = FlattenSeq([k \in 1..n + 1 |-> g[k]])
  BY <1>7, <1>8, <1>15, Zenon DEF Frames!Payload
<1>11. Frames!Payload(<<>>) = <<>>
  <2>1. [k \in DOMAIN <<>> |-> <<>>[k].payload] = <<>>
    OBVIOUS
  <2> QED
    BY <2>1 DEF Frames!Payload, Frames!FlattenSeq
<1>12. more[1] = IF open = <<>> THEN f ELSE open[1]
  BY <1>1, <1>2
<1>13. Len(more) = 1 <=> open = <<>>
  BY <1>1, <1>2
<1>14. open # <<>> => open[1] \in Piece
  BY <1>1
<1> QED
  BY <1>6, <1>9, <1>10, <1>11, <1>12, <1>13, <1>14 DEF more

-----------------------------------------------------------------------------
(* Turns, and the frames they have dealt with.                             *)

-----------------------------------------------------------------------------
(* Where the processor stands.                                             *)

\* The frames of a state of the proof.
Given ==
    /\ InputIs
    /\ FramesFit
    /\ frameEnds = EndsOfFrames

\* One turn takes the next bytes of the input, as many as are needed and there.
LEMMA TakenIs ==
    ASSUME WireTypeOK, ProcTypeOK
    PROVE  LET k == Len(Taken(Rest))
           IN /\ k \in Nat /\ k <= bytesNeeded /\ p + k <= lim
              /\ k = bytesNeeded \/ p + k = lim
              /\ Taken(Rest) = SubSeq(input, p + 1, p + k)
<1>1. /\ input \in Seq(Nat) /\ lim \in Nat /\ p \in Nat
      /\ p <= lim /\ lim <= Len(input) /\ bytesNeeded \in Nat
      /\ Len(input) \in Nat
  BY DEF WireTypeOK, ProcTypeOK
<1>2. /\ Rest \in Seq(Nat) /\ Len(Rest) = lim - p
      /\ \A j \in 1..lim - p : Rest[j] = input[p + j]
  <2>1. /\ p + 1 \in Int /\ lim \in Int
        /\ \A j \in p + 1..lim : input[j] \in Nat
        /\ p + 1 <= lim + 1
    BY <1>1
  <2>2. /\ SubSeq(input, p + 1, lim) \in Seq(Nat)
        /\ Len(SubSeq(input, p + 1, lim)) = lim - (p + 1) + 1
        /\ \A j \in 1..lim - (p + 1) + 1 :
             SubSeq(input, p + 1, lim)[j] = input[(p + 1) + j - 1]
    <3>1. CASE p + 1 <= lim
      BY <1>1, <2>1, <3>1, SubSeqProperties
    <3>2. CASE p = lim
      BY <1>1, <2>1, <3>2, SubSeqProperties
    <3> QED
      BY <1>1, <3>1, <3>2
  <2>3. lim - (p + 1) + 1 = lim - p /\ \A j \in Nat : (p + 1) + j - 1 = p + j
    BY <1>1
  <2> QED
    BY <1>1, <2>2, <2>3 DEF Rest
<1> DEFINE r == Rest
           S == {bytesNeeded, Len(r)}
           m == Min(S)
<1>3. /\ m \in Nat /\ m <= bytesNeeded /\ m <= lim - p
      /\ m = bytesNeeded \/ m = lim - p
  <2>1. S \subseteq Int /\ bytesNeeded \in S /\ Len(r) \in S
    BY <1>1, <1>2
  <2>2. \E x \in S : /\ \A y \in S : x <= y
                     /\ x \in Nat /\ x <= bytesNeeded /\ x <= lim - p
                     /\ x = bytesNeeded \/ x = lim - p
    <3>1. CASE bytesNeeded <= Len(r)
      BY <1>1, <1>2, <3>1
    <3>2. CASE ~(bytesNeeded <= Len(r))
      BY <1>1, <1>2, <3>2
    <3> QED
      BY <3>1, <3>2
  <2> HIDE DEF S
  <2>3. PICK x \in S : /\ \A y \in S : x <= y
                       /\ x \in Nat /\ x <= bytesNeeded /\ x <= lim - p
                       /\ x = bytesNeeded \/ x = lim - p
    BY <2>2
  <2>4. m = x
    BY <2>1, <2>3, MinIs
  <2> QED
    BY <2>3, <2>4
<1>4. Taken(Rest) = SubSeq(r, 1, m)
  BY DEF Taken
<1> HIDE DEF r, m, S
<1>5. r \in Seq(Nat) /\ Len(r) = lim - p /\ \A j \in 1..lim - p : r[j] = input[p + j]
  BY <1>2 DEF r
<1>6. /\ SubSeq(r, 1, m) \in Seq(Nat) /\ Len(SubSeq(r, 1, m)) = m
      /\ \A j \in 1..m : SubSeq(r, 1, m)[j] = r[j]
  <2>1. m <= Len(r) /\ \A j \in 1..m : r[j] \in Nat
    BY <1>1, <1>3, <1>5
  <2>2. \A j \in 1..m : 1 + j - 1 = j
    BY <1>3
  <2> QED
    BY <1>1, <1>3, <1>5, <2>1, <2>2, SubSeqProperties
<1> DEFINE t == SubSeq(input, p + 1, p + m)
<1>7. /\ t \in Seq(Nat) /\ Len(t) = m
      /\ \A j \in 1..m : t[j] = input[p + j]
  <2>1. p + m <= Len(input) /\ \A j \in p + 1..p + m : input[j] \in Nat
    BY <1>1, <1>3
  <2>2. /\ t \in Seq(Nat)
        /\ Len(t) = IF p + 1 <= p + m THEN (p + m) - (p + 1) + 1 ELSE 0
        /\ \A j \in 1..(p + m) - (p + 1) + 1 : t[j] = input[(p + 1) + j - 1]
    BY <1>1, <1>3, <2>1, SubSeqProperties
  <2>3. (p + m) - (p + 1) + 1 = m /\ \A j \in 1..m : (p + 1) + j - 1 = p + j
    BY <1>1, <1>3
  <2>4. p + 1 <= p + m \/ m = 0
    BY <1>1, <1>3
  <2> QED
    BY <1>1, <1>3, <2>2, <2>3, <2>4
<1> DEFINE q == SubSeq(r, 1, m)
<1>8. q = t
  <2>1. q \in Seq(Nat) /\ Len(q) = m /\ \A j \in 1..m : q[j] = r[j]
    BY <1>6
  <2>2. \A j \in 1..m : r[j] = input[p + j]
    BY <1>1, <1>3, <1>5
  <2> HIDE DEF q, t
  <2>3. t \in Seq(Nat)
    BY <1>7
  <2>4. q \in Seq(Nat)
    BY <2>1
  <2>5. Len(q) = Len(t) /\ \A j \in 1..Len(q) : q[j] = t[j]
    BY <1>7, <2>1, <2>2
  <2> QED
    BY <2>3, <2>4, <2>5, SeqEqual
<1> QED
  BY <1>1, <1>3, <1>4, <1>6, <1>8

\* The frames dealt with are counted by their ends.
LEMMA HandledIs ==
    ASSUME Given, NEW i, StandsBehind(i), p \in Nat
    PROVE  /\ HandledFrames = i
           /\ \/ basic # <<>> /\ p \in frameEnds
              \/ Cardinality({e \in frameEnds : e <= p}) = i
<1> DEFINE N == Len(frames)
           F(n) == EndOf(n)
           S == {e \in frameEnds : e <= p}
           T == {F(n) : n \in 1..i}
<1>1. /\ N \in Nat /\ DOMAIN frames = 1..N /\ i \in 0..N
      /\ \A n \in 0..N : F(n) \in Nat
  BY EndsGrow DEF Given, InputIs, StandsBehind
<1>2. \A m \in 0..N : \A n \in m..N : F(m) <= F(n) /\ (m < n => F(m) < F(n))
  BY EndsOrdered DEF Given, InputIs
<1>3. /\ F(i) <= p /\ (i = N => p = F(i)) /\ (i # N => p <= F(i + 1))
      /\ (basic = <<>>) <=> (p = F(i))
  BY Zenon DEF StandsBehind
<1>4. /\ frameEnds \subseteq {F(n) : n \in 1..N}
      /\ \A n \in 1..i : F(n) \in frameEnds
  <2>1. frameEnds = EndsOfFrames
    BY DEF Given
  <2>2. \A n \in 1..i : n \in DOMAIN frames /\ Whole(frames[n])
    <3>1. \A n \in 1..i : n \in DOMAIN frames
      BY <1>1
    <3> QED
      BY <3>1, Zenon DEF StandsBehind
  <2> QED
    BY <1>1, <2>1, <2>2 DEF EndsOfFrames
<1> HIDE DEF F, N
<1>5. IsFiniteSet(T) /\ Cardinality(T) = i
  <2> DEFINE g == [n \in 1..i |-> F(n)]
  <2>1. g \in [1..i -> T]
    OBVIOUS
  <2>2. \A a, b \in 1..i : g[a] = g[b] => a = b
    <3> SUFFICES ASSUME NEW a \in 1..i, NEW b \in 1..i, g[a] = g[b] PROVE a = b
      OBVIOUS
    <3>1. F(a) = F(b) /\ a \in 0..N /\ b \in 0..N
      BY <1>1
    <3>2. a < b => F(a) < F(b)
      BY <1>1, <1>2
    <3>3. b < a => F(b) < F(a)
      BY <1>1, <1>2
    <3>4. F(a) \in Nat /\ F(b) \in Nat
      BY <1>1, <3>1
    <3> QED
      BY <1>1, <3>1, <3>2, <3>3, <3>4
  <2>3. \A t \in T : \E s \in 1..i : g[s] = t
    OBVIOUS
  <2> HIDE DEF g, T
  <2>4. g \in Injection(1..i, T) /\ g \in Surjection(1..i, T)
    BY <2>1, <2>2, <2>3, Fun_IsInj, Fun_IsSurj
  <2>5. IsFiniteSet(1..i) /\ Cardinality(1..i) = i
    BY <1>1, FS_Interval
  <2> QED
    BY <2>4, <2>5, FS_Surjection
<1>6. T \subseteq S
  <2> SUFFICES ASSUME NEW n \in 1..i PROVE F(n) \in frameEnds /\ F(n) <= p
    OBVIOUS
  <2>1. F(n) <= F(i) /\ F(n) \in Nat /\ F(i) \in Nat
    BY <1>1, <1>2
  <2> QED
    BY <1>3, <1>4, <2>1
<1>7. ASSUME NEW e \in S, e \notin T PROVE i # N /\ e = F(i + 1) /\ e = p /\ basic # <<>>
  <2>1. PICK n \in 1..N : e = F(n)
    BY <1>4
  <2>2. n \in i + 1..N
    BY <1>1, <1>7, <2>1
  <2>3. i # N /\ i + 1 \in 0..N /\ i \in 0..N /\ n \in 0..N
    BY <1>1, <2>2
  <2>4. F(i + 1) <= F(n) /\ F(i) < F(i + 1) /\ (i + 1 < n => F(i + 1) < F(n))
    BY <1>1, <1>2, <2>2, <2>3
  <2>5. F(n) \in Nat /\ F(i) \in Nat /\ F(i + 1) \in Nat /\ F(n) <= p
    BY <1>1, <1>7, <2>1, <2>3
  <2>6. p = F(i + 1) /\ e = F(i + 1)
    BY <1>3, <2>1, <2>3, <2>4, <2>5
  <2> QED
    BY <1>3, <2>3, <2>4, <2>5, <2>6
<1>8. CASE basic # <<>> /\ p \in frameEnds
  <2>1. p \in S /\ p \notin T
    <3>1. p # F(i)
      BY <1>3, <1>8
    <3>2. ASSUME NEW n \in 1..i, p = F(n) PROVE FALSE
      <4>1. F(n) <= F(i) /\ F(n) \in Nat /\ F(i) \in Nat
        BY <1>1, <1>2
      <4> QED
        BY <1>3, <3>1, <3>2, <4>1
    <3> QED
      BY <1>8, <3>2
  <2>2. S = T \cup {p}
    BY <1>6, <1>7, <2>1
  <2> HIDE DEF S, T
  <2>3. Cardinality(S) = i + 1
    BY <1>5, <2>1, <2>2, FS_AddElement
  <2>4. HandledFrames = Cardinality(S) - 1
    BY <1>8 DEF HandledFrames, S
  <2> QED
    BY <1>1, <1>8, <2>3, <2>4
<1>9. CASE ~(basic # <<>> /\ p \in frameEnds)
  <2>1. S = T
    BY <1>6, <1>7, <1>9
  <2>2. HandledFrames = Cardinality(S) - 0
    BY <1>9 DEF HandledFrames
  <2>3. Cardinality({e \in frameEnds : e <= p}) = Cardinality(S)
    OBVIOUS
  <2> HIDE DEF S, T
  <2> QED
    BY <1>1, <1>5, <2>1, <2>2, <2>3
<1> QED
  BY <1>8, <1>9

\* Before the end of the answer no frame has been dealt with.
LEMMA NothingHandled ==
    ASSUME Given, p \in Nat, p <= EndOf(0), basic = <<>>
    PROVE  HandledFrames = 0
<1> DEFINE N == Len(frames)
           S == {e \in frameEnds : e <= p}
<1>1. /\ N \in Nat /\ DOMAIN frames = 1..N
      /\ \A n \in 0..N : EndOf(n) \in Nat
  BY EndsGrow DEF Given, InputIs
<1>2. \A n \in 1..N : EndOf(0) < EndOf(n)
  <2> SUFFICES ASSUME NEW n \in 1..N PROVE EndOf(0) < EndOf(n)
    OBVIOUS
  <2>1. 0 \in 0..N /\ n \in 0..N /\ 0 < n
    BY <1>1
  <2> QED
    BY <2>1, EndsOrdered DEF Given, InputIs
<1>3. frameEnds \subseteq {EndOf(n) : n \in 1..N}
  BY <1>1 DEF Given, EndsOfFrames
<1> HIDE DEF N
<1>4. S = {}
  <2> SUFFICES ASSUME NEW e \in S PROVE FALSE
    OBVIOUS
  <2>1. PICK n \in 1..N : e = EndOf(n)
    BY <1>3
  <2>2. EndOf(n) \in Nat /\ EndOf(0) \in Nat /\ EndOf(0) < EndOf(n)
    BY <1>1, <1>2
  <2> QED
    BY <2>1, <2>2
<1>5. HandledFrames = Cardinality(S) - 0
  BY DEF HandledFrames
<1> QED
  BY <1>4, <1>5, FS_EmptySet

\* The server's bytes and frames stay what they are.
LEMMA GivenStays ==
    ASSUME Given, answer' = answer, frames' = frames, frameEnds' = frameEnds,
           input' = input
    PROVE  /\ Given'
           /\ \A n : EndOf(n)' = EndOf(n)
           /\ \A n : Frames!OpenPieces(n)' = Frames!OpenPieces(n)
           /\ \A n : FaultOf(n)' = FaultOf(n)
<1>1. \A n : EndOf(n)' = EndOf(n)
  BY DEF EndOf
<1>2. \A n : Frames!OpenPieces(n)' = Frames!OpenPieces(n)
  BY Zenon DEF Frames!OpenPieces
<1>3. \A n : FaultOf(n)' = FaultOf(n)
  BY <1>2, Zenon DEF FaultOf
<1>4. EndsOfFrames' = EndsOfFrames
  BY <1>1, <1>3, Zenon DEF EndsOfFrames
<1>5. InputIs'
  BY Zenon DEF Given, InputIs
<1>6. FramesFit'
  BY Zenon DEF Given, FramesFit
<1>7. Given'
  BY <1>4, <1>5, <1>6, Zenon DEF Given
<1> QED
  BY <1>1, <1>2, <1>3, <1>7

-----------------------------------------------------------------------------
(* Parts of a frame and of a message.                                      *)

\* Parts of a sequence, one behind the other.
LEMMA PartOf ==
    ASSUME NEW S, NEW s \in Seq(S), NEW a \in Nat, NEW b \in Nat, a <= b, b <= Len(s)
    PROVE  /\ SubSeq(s, a + 1, b) \in Seq(S) /\ Len(SubSeq(s, a + 1, b)) = b - a
           /\ \A j \in 1..b - a : SubSeq(s, a + 1, b)[j] = s[a + j]
           /\ a = b => SubSeq(s, a + 1, b) = <<>>
<1> DEFINE t == SubSeq(s, a + 1, b)
<1>1. \A j \in a + 1..b : s[j] \in S
  OBVIOUS
<1>2. /\ t \in Seq(S)
      /\ Len(t) = IF a + 1 <= b THEN b - (a + 1) + 1 ELSE 0
      /\ \A j \in 1..b - (a + 1) + 1 : t[j] = s[(a + 1) + j - 1]
  BY <1>1, SubSeqProperties
<1>3. b - (a + 1) + 1 = b - a /\ \A j \in 1..b - a : (a + 1) + j - 1 = a + j
  OBVIOUS
<1>4. a + 1 <= b \/ b - a = 0
  OBVIOUS
<1>5. a = b => t = <<>>
  <2>1. a = b => Len(t) = 0
    BY <1>2
  <2>2. t \in Seq(S)
    BY <1>2
  <2> HIDE DEF t
  <2> QED
    BY <2>1, <2>2, EmptySeq
<1> QED
  BY <1>2, <1>3, <1>4, <1>5

LEMMA PartsJoin ==
    ASSUME NEW S, NEW s \in Seq(S), NEW a \in Nat, NEW b \in Nat, NEW c \in Nat,
           a <= b, b <= c, c <= Len(s)
    PROVE  SubSeq(s, a + 1, b) \o SubSeq(s, b + 1, c) = SubSeq(s, a + 1, c)
<1>1. Len(s) \in Nat
  OBVIOUS
<1>2. /\ a + 1 \in 1..Len(s) + 1 /\ b \in (a + 1) - 1..Len(s) /\ c \in b..Len(s)
  BY <1>1
<1> QED
  BY <1>2, ConcatAdjacentSubSeq

\* Joining with a part that is empty.
LEMMA PartsNone ==
    ASSUME NEW S, NEW s \in Seq(S)
    PROVE  s \o <<>> = s /\ <<>> \o s = s /\ SubSeq(s, 1, 0) = <<>> /\ SubSeq(s, 1, Len(s)) = s
<1>1. SubSeq(s, 1, 0) = <<>>
  <2>1. 0 \in Nat /\ 0 <= Len(s)
    OBVIOUS
  <2>2. SubSeq(s, 0 + 1, 0) = <<>>
    BY <2>1, PartOf
  <2> QED
    BY <2>2
<1>2. SubSeq(s, 1, Len(s)) = s
  BY SubSeqFull
<1>3. s \o <<>> = s /\ <<>> \o s = s
  BY ConcatEmptySeq
<1> QED
  BY <1>1, <1>2, <1>3

\* A record with two of its fields changed.
Record(op, a, u) == [op |-> op, payload |-> a, utf8 |-> u]
Changed(m, c, v) == [m EXCEPT !.payload = c, !.utf8 = v]

LEMMA RecordChanges ==
    ASSUME NEW op, NEW a, NEW u, NEW c, NEW v
    PROVE  Changed(Record(op, a, u), c, v) = Record(op, c, v)
<1> DEFINE r == [op |-> op, payload |-> a, utf8 |-> u]
           D == {"op", "payload", "utf8"}
<1>1. r.op = op /\ r.payload = a /\ r.utf8 = u
  OBVIOUS
<1>2. r = [x \in D |-> r[x]]
  OBVIOUS
<1>3. [r EXCEPT !.payload = c] = [x \in D |-> IF x = "payload" THEN c ELSE r[x]]
  BY <1>2
<1>4. [op |-> op, payload |-> c, utf8 |-> u] = [x \in D |-> IF x = "payload" THEN c ELSE r[x]]
  BY <1>1
<1>5. [r EXCEPT !.payload = c] = [op |-> op, payload |-> c, utf8 |-> u]
  BY <1>3, <1>4
<1>6. [[op |-> op, payload |-> c, utf8 |-> u] EXCEPT !.utf8 = v]
        = [op |-> op, payload |-> c, utf8 |-> v]
  OBVIOUS
<1>7. [r EXCEPT !.payload = c, !.utf8 = v] = [[r EXCEPT !.payload = c] EXCEPT !.utf8 = v]
  OBVIOUS
<1> QED
  BY <1>5, <1>6, <1>7, Zenon DEF Changed, Record

\* A message takes the bytes that come.
LEMMA MessageGrows ==
    ASSUME NEW op, NEW a \in Seq(Byte), NEW b \in Seq(Byte)
    PROVE  /\ WithBytes(MessageOf(op, a), b) = MessageOf(op, a \o b)
           /\ MessageOf(op, <<>>) = NewMessage(op)
           /\ MessageOf(op, a) # <<>>
           /\ MessageOf(op, a)[1].op = op /\ MessageOf(op, a)[1].payload = a
           /\ MessageOf(op, a)[1].utf8 = IF op = TEXT THEN DecodeAll(Accept, a) ELSE Accept
<1> DEFINE u == IF op = TEXT THEN DecodeAll(Accept, a) ELSE Accept
           m == [op |-> op, payload |-> a, utf8 |-> u]
<1>1. MessageOf(op, a) = <<m>> /\ <<m>>[1] = m /\ <<m>> # <<>>
  BY DEF MessageOf
<1>2. m.op = op /\ m.payload = a /\ m.utf8 = u
  OBVIOUS
<1>3. DecodeAll(Accept, a \o b) = DecodeAll(DecodeAll(Accept, a), b)
  BY PiecesAddUp
<1>4. [m EXCEPT !.payload = @ \o b, !.utf8 = IF m.op = TEXT THEN DecodeAll(@, b) ELSE @]
        = [op |-> op, payload |-> a \o b,
           utf8 |-> IF op = TEXT THEN DecodeAll(Accept, a \o b) ELSE Accept]
  <2> DEFINE c == a \o b
             v == IF op = TEXT THEN DecodeAll(u, b) ELSE u
  <2>1. [m EXCEPT !.payload = @ \o b, !.utf8 = IF m.op = TEXT THEN DecodeAll(@, b) ELSE @]
          = [op |-> op, payload |-> c, utf8 |-> v]
    <3>1. [m EXCEPT !.payload = @ \o b, !.utf8 = IF m.op = TEXT THEN DecodeAll(@, b) ELSE @]
            = [m EXCEPT !.payload = c, !.utf8 = v]
      BY <1>2, Zenon
    <3>2. Changed(Record(op, a, u), c, v) = Record(op, c, v)
      BY RecordChanges
    <3> QED
      BY <3>1, <3>2, Zenon DEF Changed, Record
  <2>2. (IF op = TEXT THEN DecodeAll(u, b) ELSE u)
          = IF op = TEXT THEN DecodeAll(Accept, a \o b) ELSE Accept
    BY <1>3
  <2> QED
    BY <2>1, <2>2
<1>5. WithBytes(MessageOf(op, a), b) = MessageOf(op, a \o b)
  <2>1. WithBytes(<<m>>, b)
          = <<[m EXCEPT !.payload = @ \o b, !.utf8 = IF m.op = TEXT THEN DecodeAll(@, b) ELSE @]>>
    BY <1>1 DEF WithBytes
  <2> QED
    BY <1>1, <1>4, <2>1 DEF MessageOf
<1>6. MessageOf(op, <<>>) = NewMessage(op)
  <2> DEFINE none == SubSeq(a, 1, 0)
  <2>0. none = <<>>
    BY PartsNone
  <2>1. none \in Seq(Byte) /\ Len(none) = 0
    BY <2>0
  <2> HIDE DEF none
  <2>2. PICK run : /\ run[0] = Accept
                   /\ \A k \in 1..Len(none) : run[k] = Decode(run[k - 1], none[k])
                   /\ DecodeAll(Accept, none) = run[Len(none)]
    BY <2>1, RunDefined
  <2> QED
    BY <2>0, <2>1, <2>2 DEF MessageOf, NewMessage
<1> QED
  BY <1>1, <1>2, <1>5, <1>6

\* A part is what its elements are.
LEMMA PartIs ==
    ASSUME NEW S, NEW s \in Seq(S), NEW a \in Nat, NEW b \in Nat, a <= b, b <= Len(s),
           NEW t \in Seq(S), Len(t) = b - a, \A j \in 1..b - a : s[a + j] = t[j]
    PROVE  SubSeq(s, a + 1, b) = t
<1> DEFINE u == SubSeq(s, a + 1, b)
<1>1. u \in Seq(S) /\ Len(u) = b - a /\ \A j \in 1..b - a : u[j] = s[a + j]
  BY PartOf
<1>2. u \in Seq(S)
  BY <1>1
<1> HIDE DEF u
<1>3. Len(u) = Len(t) /\ \A j \in 1..Len(u) : u[j] = t[j]
  BY <1>1
<1>4. u = t
  BY <1>2, <1>3, SeqEqual
<1> QED
  BY <1>4 DEF u

\* The bytes behind frame i are those of the frame that follows.
LEMMA PartsOfFrame ==
    ASSUME InputIs, NEW i \in 0..Len(frames) - 1
    PROVE  LET f == frames[i + 1]
               e == EndOf(i)
               H == HeaderLen(f)
           IN /\ SubSeq(input, e + 1, e + 2) = Basic(f)
              /\ SubSeq(input, e + 3, e + H) = Extended(f)
              /\ \A a, b \in Nat : a <= b /\ b <= Len(f.payload) =>
                   SubSeq(input, e + H + a + 1, e + H + b) = SubSeq(f.payload, a + 1, b)
<1> DEFINE f == frames[i + 1]
           e == EndOf(i)
           H == HeaderLen(f)
           y == f.payload
           l == Len(y)
           h == Basic(f)
           x == Extended(f)
           L == Len(input)
<1>1. /\ f \in WireFrame /\ e \in Nat /\ H \in Nat /\ H >= 2 /\ l \in Nat
      /\ e + H + l <= L
      /\ \A j \in 1..2 : input[e + j] = h[j]
      /\ \A j \in 1..H - 2 : input[e + 2 + j] = x[j]
      /\ \A j \in 1..l : input[e + H + j] = y[j]
  BY FrameAhead
<1>2. input \in Seq(Nat) /\ L \in Nat
  BY InputHolds
<1>3. f \in WireFrame
  BY <1>1
<1>4. /\ h \in Seq(Nat) /\ Len(h) = 2 /\ x \in Seq(Nat) /\ Len(x) = H - 2
      /\ y \in Seq(Nat)
  <2> HIDE DEF f
  <2>1. /\ Basic(f) \in Seq(Nat) /\ Len(Basic(f)) = 2 /\ Extended(f) \in Seq(Nat)
        /\ Len(Extended(f)) \in Nat /\ HeaderLen(f) = 2 + Len(Extended(f))
        /\ f.payload \in Seq(Nat)
    BY <1>3, FrameParts
  <2> QED
    BY <2>1
<1>5. /\ e \in Nat /\ H \in Nat /\ l \in Nat /\ H >= 2 /\ e + H + l <= L
  BY <1>1
<1> HIDE DEF f, e, H, h, x, y, l, L
<1>6. SubSeq(input, e + 1, e + 2) = h
  <2> DEFINE b == e + 2
  <2>1. b \in Nat /\ e <= b /\ b <= L /\ 2 = b - e
    BY <1>2, <1>5
  <2> HIDE DEF b
  <2>2. Len(h) = b - e /\ \A j \in 1..b - e : input[e + j] = h[j]
    BY <1>1, <1>4, <2>1
  <2>3. h \in Seq(Nat)
    BY <1>4
  <2>4. SubSeq(input, e + 1, b) = h
    BY <1>2, <1>5, <2>1, <2>2, <2>3, PartIs, Zenon DEF L
  <2> QED
    BY <2>4 DEF b
<1>7. SubSeq(input, e + 3, e + H) = x
  <2> DEFINE a == e + 2
             b == e + H
  <2>1. a \in Nat /\ b \in Nat /\ a <= b /\ b <= L /\ H - 2 = b - a /\ a + 1 = e + 3
    BY <1>2, <1>5
  <2>2. \A j \in 1..H - 2 : input[a + j] = x[j]
    BY <1>1
  <2> HIDE DEF a, b
  <2>3. Len(x) = b - a /\ \A j \in 1..b - a : input[a + j] = x[j]
    BY <1>4, <2>1, <2>2, Zenon
  <2>4. x \in Seq(Nat)
    BY <1>4
  <2>5. SubSeq(input, a + 1, b) = x
    BY <1>2, <2>1, <2>3, <2>4, PartIs, Zenon DEF L
  <2> QED
    BY <2>1, <2>5 DEF b
<1>8. ASSUME NEW a \in Nat, NEW b \in Nat, a <= b, b <= l
      PROVE  SubSeq(input, e + H + a + 1, e + H + b) = SubSeq(y, a + 1, b)
  <2> DEFINE c == e + H + a
             d == e + H + b
             t == SubSeq(y, a + 1, b)
  <2>1. /\ c \in Nat /\ d \in Nat /\ c <= d /\ d <= L /\ b - a = d - c
    BY <1>2, <1>5, <1>8
  <2>2. t \in Seq(Nat) /\ Len(t) = b - a /\ \A j \in 1..b - a : t[j] = y[a + j]
    BY <1>4, <1>8, PartOf DEF l
  <2>3. ASSUME NEW j \in 1..d - c PROVE input[c + j] = t[j]
    <3>1. j \in 1..b - a
      BY <2>1
    <3>2. a + j \in 1..l /\ c + j = e + H + (a + j)
      BY <1>5, <1>8, <3>1
    <3>3. input[e + H + (a + j)] = y[a + j]
      BY <1>1, <3>2
    <3> HIDE DEF c, t
    <3> QED
      BY <2>2, <3>1, <3>2, <3>3
  <2>4. Len(t) = d - c
    BY <2>1, <2>2, Zenon
  <2> HIDE DEF c, d, t
  <2>5. SubSeq(input, c + 1, d) = t
    BY <1>2, <2>1, <2>2, <2>3, <2>4, PartIs, Zenon DEF L
  <2> QED
    BY <2>5 DEF c, d, t
<1> QED
  BY <1>6, <1>7, <1>8 DEF f, e, H, h, x, y, l

-----------------------------------------------------------------------------
(* Turns in a header.                                                      *)

\* What the server sends does not change.
ServerStill == answer' = answer /\ frames' = frames /\ frameEnds' = frameEnds /\ input' = input

\* The processor stays in the frame it is in.
LEMMA StandsStill ==
    ASSUME Given, ServerStill, NEW i, StandsBehind(i), i < Len(frames),
           p' \in Nat, EndOf(i) < p', p' <= EndOf(i + 1), basic' # <<>>
    PROVE  StandsBehind(i)'
<1>1. /\ i \in 0..Len(frames) /\ Len(frames) \in Nat
      /\ \A n \in 0..Len(frames) : EndOf(n) \in Nat
  BY EndsGrow DEF StandsBehind, Given, InputIs
<1>2. \A n : EndOf(n)' = EndOf(n)
  BY GivenStays DEF ServerStill
<1>3. /\ EndOf(i)' <= p' /\ i # Len(frames') /\ p' <= EndOf(i + 1)'
      /\ basic' # <<>> /\ p' # EndOf(i)'
  BY <1>1, <1>2 DEF ServerStill
<1>4. i \in 0..Len(frames') /\ \A j \in 1..i : Whole(frames'[j])
  BY Zenon DEF StandsBehind, ServerStill
<1> QED
  BY <1>3, <1>4, Zenon DEF StandsBehind

\* The processor has come to the end of the frame it was in.
LEMMA StandsOn ==
    ASSUME Given, ServerStill, NEW i, StandsBehind(i), i < Len(frames),
           Whole(frames[i + 1]), p' = EndOf(i + 1), basic' = <<>>
    PROVE  StandsBehind(i + 1)'
<1>1. /\ i \in 0..Len(frames) /\ Len(frames) \in Nat
      /\ \A n \in 0..Len(frames) : EndOf(n) \in Nat
  BY EndsGrow DEF StandsBehind, Given, InputIs
<1>2. \A n : EndOf(n)' = EndOf(n)
  BY GivenStays DEF ServerStill
<1>3. i + 1 \in 0..Len(frames)
  BY <1>1
<1>4. EndOf(i + 1) <= p' /\ p' = EndOf(i + 1)
  BY <1>1, <1>3
<1>5. i + 1 # Len(frames) => p' <= EndOf((i + 1) + 1)
  <2> SUFFICES ASSUME i + 1 # Len(frames) PROVE EndOf(i + 1) <= EndOf((i + 1) + 1)
    BY <1>4
  <2>1. (i + 1) + 1 \in (i + 1)..Len(frames)
    BY <1>1, <1>3
  <2> QED
    BY <1>3, <2>1, EndsOrdered DEF Given, InputIs
<1>6. \A j \in 1..i + 1 : Whole(frames[j])
  <2>1. \A j \in 1..i + 1 : j \in 1..i \/ j = i + 1
    BY <1>1
  <2> QED
    BY <2>1, Zenon DEF StandsBehind
<1>7. frames' = frames
  BY DEF ServerStill
<1> QED
  BY <1>2, <1>3, <1>4, <1>5, <1>6, <1>7, Zenon DEF StandsBehind

\* A turn takes the next bytes of the input, and at least one.
LEMMA TurnTakes ==
    ASSUME Given, WireTypeOK, ProcTypeOK, NEW i, StandsBehind(i), consumeError = 0,
           bytesNeeded # 0, Turns(Rest), p' = p + Len(Taken(Rest))
    PROVE  /\ i \in 0..Len(frames) - 1
           /\ p' \in Nat /\ p < p' /\ p' <= p + bytesNeeded /\ p' <= lim /\ lim <= Len(input)
           /\ p' = p + bytesNeeded \/ p' = lim
           /\ Taken(Rest) = SubSeq(input, p + 1, p')
           /\ Len(Taken(Rest)) = p' - p
<1> DEFINE k == Len(Taken(Rest))
<1>1. /\ k \in Nat /\ k <= bytesNeeded /\ p + k <= lim
      /\ k = bytesNeeded \/ p + k = lim
      /\ Taken(Rest) = SubSeq(input, p + 1, p + k)
  BY TakenIs
<1>2. /\ p \in Nat /\ lim \in Nat /\ bytesNeeded \in Nat /\ p <= lim
      /\ lim <= Len(input)
      /\ Len(input) \in Nat
  BY DEF WireTypeOK, ProcTypeOK
<1>3. Len(Rest) = lim - p
  BY TakenBounds
<1>4. Len(Rest) > 0
  BY DEF Turns
<1>5. p < lim
  BY <1>2, <1>3, <1>4
<1>6. i \in 0..Len(frames) - 1
  <2>1. i \in 0..Len(frames) /\ Len(frames) \in Nat
    BY EndsGrow DEF StandsBehind, Given, InputIs
  <2>2. i = Len(frames) => p = EndOf(i)
    BY Zenon DEF StandsBehind
  <2>3. Len(input) = EndOf(Len(frames))
    BY InputHolds DEF Given
  <2> QED
    BY <1>2, <1>5, <2>1, <2>2, <2>3
<1> HIDE DEF k
<1>7. p' = p + k
  BY DEF k
<1> QED
  BY <1>1, <1>2, <1>5, <1>6, <1>7 DEF k

\* What is known in front of a frame, with a name for each of its parts.
InFront(i, e, e1, f, h, l, open) ==
    /\ i \in Nat /\ i < Len(frames) /\ i + 1 \in DOMAIN frames
    /\ e = EndOf(i) /\ e1 = EndOf(i + 1) /\ f = frames[i + 1]
    /\ h = HeaderLen(f) /\ l = Len(f.payload) /\ open = Frames!OpenPieces(i)
    /\ e \in Nat /\ h \in Nat /\ h >= 2 /\ l \in Nat /\ e1 = e + h + l
    /\ e1 <= Len(input)
    /\ f \in WireFrame /\ SizeFits(f)
    /\ open \in Seq(Piece)
    /\ FaultOf(i + 1) = Frames!Fault(f, open)

LEMMA FrameIsAhead ==
    ASSUME Given, NEW i \in 0..Len(frames) - 1
    PROVE  \E e, e1, f, h, l, open : InFront(i, e, e1, f, h, l, open)
<1>1. InputIs /\ FramesFit
  BY DEF Given
<1>2. frames \in Seq(WireFrame) /\ Len(frames) \in Nat /\ DOMAIN frames = 1..Len(frames)
  BY <1>1 DEF InputIs
<1>3. i \in Nat /\ i < Len(frames) /\ i + 1 \in DOMAIN frames /\ i \in 0..Len(frames)
  BY <1>2
<1>4. SizeFits(frames[i + 1])
  BY <1>1, <1>3 DEF FramesFit
<1>5. Frames!OpenPieces(i) \in Seq(Piece)
  BY <1>2, <1>3, PiecesType
<1>6. FaultOf(i + 1) = Frames!Fault(frames[i + 1], Frames!OpenPieces(i))
  <2>1. (i + 1) - 1 = i
    BY <1>3
  <2> QED
    BY <2>1 DEF FaultOf
<1>7. /\ frames[i + 1] \in WireFrame /\ EndOf(i) \in Nat
      /\ HeaderLen(frames[i + 1]) \in Nat /\ HeaderLen(frames[i + 1]) >= 2
      /\ Len(frames[i + 1].payload) \in Nat
      /\ EndOf(i + 1) = EndOf(i) + HeaderLen(frames[i + 1]) + Len(frames[i + 1].payload)
      /\ EndOf(i + 1) <= Len(input)
  BY <1>1, FrameAhead
<1>8. InFront(i, EndOf(i), EndOf(i + 1), frames[i + 1], HeaderLen(frames[i + 1]),
            Len(frames[i + 1].payload), Frames!OpenPieces(i))
  BY <1>3, <1>4, <1>5, <1>6, <1>7, Zenon DEF InFront
<1> QED
  BY <1>8, Zenon

\* The parts of the input.
LEMMA InputParts ==
    ASSUME input \in Seq(Nat), NEW a \in Nat, NEW b \in Nat, a <= b, b <= Len(input)
    PROVE  /\ SubSeq(input, a + 1, b) \in Seq(Nat) /\ Len(SubSeq(input, a + 1, b)) = b - a
           /\ a = b => SubSeq(input, a + 1, b) = <<>>
           /\ \A c \in Nat : b <= c /\ c <= Len(input) =>
                SubSeq(input, a + 1, b) \o SubSeq(input, b + 1, c) = SubSeq(input, a + 1, c)
<1>1. ASSUME NEW c \in Nat, b <= c, c <= Len(input)
      PROVE  SubSeq(input, a + 1, b) \o SubSeq(input, b + 1, c) = SubSeq(input, a + 1, c)
  BY <1>1, PartsJoin
<1>2. /\ SubSeq(input, a + 1, b) \in Seq(Nat) /\ Len(SubSeq(input, a + 1, b)) = b - a
      /\ a = b => SubSeq(input, a + 1, b) = <<>>
  BY PartOf
<1> QED
  BY <1>1, <1>2

\* A turn in the basic header: more of it, the rest of the header or an error.
LEMMA BasicTurnKeeps ==
    ASSUME Given, ServerStill, WireTypeOK, ProcTypeOK, NEW i, StandsBehind(i),
           consumeError = 0, InHeader(i), dataMsg # <<>> => dataMsg[1].utf8 # Reject,
           HeaderBasicTurn(Rest), p' = p + Len(Taken(Rest))
    PROVE  StandsBehind(i)' /\ OnCourse(i)'
<1>1. p \in Nat /\ EndOf(i) \in Nat /\ EndOf(i) <= p /\ bytesNeeded = EndOf(i) + 2 - p
      /\ p < EndOf(i) + 2
  <2>1. EndOf(i) \in Nat
    BY EndsGrow DEF StandsBehind, Given, InputIs
  <2> QED
    BY <2>1 DEF WireTypeOK, StandsBehind, InHeader
<1>2. bytesNeeded # 0 /\ Turns(Rest)
  BY <1>1 DEF HeaderBasicTurn
<1>3. /\ i \in 0..Len(frames) - 1
      /\ p' \in Nat /\ p < p' /\ p' <= p + bytesNeeded /\ p' <= lim /\ lim <= Len(input)
      /\ Taken(Rest) = SubSeq(input, p + 1, p')
  BY <1>2, TurnTakes
<1>4. PICK e, e1, f, h, l, open : InFront(i, e, e1, f, h, l, open)
  BY <1>3, FrameIsAhead
<1>5. /\ e = EndOf(i) /\ e1 = EndOf(i + 1) /\ f = frames[i + 1] /\ h = HeaderLen(f)
      /\ open = Frames!OpenPieces(i)
  BY <1>4, Zenon DEF InFront
<1>6. /\ i \in Nat /\ i < Len(frames) /\ e \in Nat /\ h \in Nat /\ h >= 2
      /\ l \in Nat /\ e1 = e + h + l
  BY <1>4, Zenon DEF InFront
<1>7. f \in WireFrame /\ SizeFits(f) /\ FaultOf(i + 1) = Frames!Fault(f, open)
  BY <1>4, Zenon DEF InFront
<1>8. e <= p /\ p < e + 2 /\ bytesNeeded = e + 2 - p
  BY <1>1, <1>5
<1>9. input \in Seq(Nat)
  BY DEF WireTypeOK
<1>10. Len(input) \in Nat /\ lim \in Nat
  BY DEF WireTypeOK
<1>11. p' \in Nat /\ e < p' /\ p' <= e + 2 /\ p' <= e1 /\ p <= p' /\ p' <= Len(input)
  BY <1>1, <1>3, <1>6, <1>8, <1>10
<1>12. PICK b : b = SubSeq(input, e + 1, p')
  OBVIOUS
<1>13. /\ basic = SubSeq(input, e + 1, p) /\ ext = <<>> /\ dataMsg = DataOf(open)
       /\ procState = "HEADER_BASIC"
  BY <1>5, Zenon DEF InHeader
<1>14. b \in Seq(Nat) /\ Len(b) = p' - e
  <2>1. e <= p'
    BY <1>6, <1>11
  <2>2. e \in Nat /\ p' \in Nat /\ p' <= Len(input)
    BY <1>6, <1>11
  <2> QED
    BY <1>9, <1>12, <2>1, <2>2, InputParts
<1>15. Len(b) # 0 /\ Len(b) <= 2
  BY <1>6, <1>11, <1>14
<1>16. b # <<>>
  BY <1>14, <1>15
<1>17. basic \o Taken(Rest) = b
  <2>1. SubSeq(input, e + 1, p) \o SubSeq(input, p + 1, p') = SubSeq(input, e + 1, p')
    <3>1. e \in Nat /\ p \in Nat /\ p' \in Nat /\ e <= p /\ p <= p' /\ p' <= Len(input)
      BY <1>1, <1>6, <1>8, <1>11
    <3>2. p <= Len(input)
      BY <1>10, <3>1
    <3> QED
      BY <1>9, <3>1, <3>2, InputParts
  <2> QED
    BY <1>3, <1>12, <1>13, <2>1, Zenon
<1>18. /\ basic' = b
       /\ IF Len(b) < 2
          THEN /\ bytesNeeded' = 2 - Len(b)
               /\ procState' = procState /\ consumeError' = consumeError
          ELSE /\ consumeError' = BasicHeaderError(b, dataMsg = <<>>)
               /\ IF consumeError' # 0
                  THEN bytesNeeded' = 0 /\ procState' = procState
                  ELSE /\ procState' = "HEADER_EXTENDED"
                       /\ bytesNeeded' = ExtendedLen(b)
       /\ ext' = ext /\ dataMsg' = dataMsg
  <2>1. basic' = b
    BY <1>17 DEF HeaderBasicTurn
  <2>2. IF Len(basic') < 2
        THEN /\ bytesNeeded' = 2 - Len(basic')
             /\ procState' = procState /\ consumeError' = consumeError
        ELSE /\ consumeError' = BasicHeaderError(basic', dataMsg = <<>>)
             /\ IF consumeError' # 0
                THEN bytesNeeded' = 0 /\ procState' = procState
                ELSE /\ procState' = "HEADER_EXTENDED"
                     /\ bytesNeeded' = ExtendedLen(basic')
    BY Zenon DEF HeaderBasicTurn
  <2>3. ext' = ext /\ dataMsg' = dataMsg
    BY DEF HeaderBasicTurn
  <2> QED
    BY <2>1, <2>2, <2>3, Zenon
<1>19. StandsBehind(i)'
  <2>1. basic' # <<>>
    BY <1>16, <1>18
  <2>2. EndOf(i) < p' /\ p' <= EndOf(i + 1)
    BY <1>5, <1>11
  <2> QED
    BY <1>3, <1>6, <2>1, <2>2, StandsStill
<1>20. /\ EndOf(i)' = e /\ Frames!OpenPieces(i)' = open /\ frames' = frames
       /\ input' = input /\ FaultOf(i + 1)' = FaultOf(i + 1)
  BY <1>5, GivenStays DEF ServerStill
<1>21. CASE Len(b) < 2
  <2>1. bytesNeeded' = 2 - Len(b) /\ procState' = "HEADER_BASIC" /\ consumeError' = 0
    BY <1>13, <1>18, <1>21
  <2>2. p' < e + 2 /\ bytesNeeded' = e + 2 - p'
    BY <1>6, <1>11, <1>14, <1>21, <2>1
  <2>3. basic' = SubSeq(input', e + 1, p') /\ ext' = <<>> /\ dataMsg' = DataOf(open)
    BY <1>12, <1>13, <1>18, <1>20
  <2>4. InHeader(i)'
    BY <1>20, <2>1, <2>2, <2>3, Zenon DEF InHeader
  <2>5. dataMsg' # <<>> => dataMsg'[1].utf8 # Reject
    BY <1>18
  <2>6. OnCourse(i)'
    BY <2>1, <2>4, <2>5, Zenon DEF OnCourse
  <2> QED
    BY <1>19, <2>6
<1>22. CASE ~(Len(b) < 2)
  <2>1. p' = e + 2
    BY <1>6, <1>11, <1>14, <1>15, <1>22
  <2>2. b = Basic(f)
    <3>1. SubSeq(input, e + 1, e + 2) = Basic(f)
      BY <1>3, <1>5, PartsOfFrame DEF Given
    <3> QED
      BY <1>12, <2>1, <3>1, Zenon
  <2>3. dataMsg = <<>> <=> open = <<>>
    <3>1. open # <<>> => DataOf(open) # <<>>
      BY DEF DataOf, MessageOf
    <3>2. open = <<>> => DataOf(open) = <<>>
      BY DEF DataOf
    <3> QED
      BY <1>13, <3>1, <3>2
  <2>4. BasicHeaderError(b, dataMsg = <<>>) = IF Frames!Malformed(f, open) THEN 1002 ELSE 0
    <3>1. BasicHeaderError(Basic(f), open = <<>>) = IF Frames!Malformed(f, open) THEN 1002 ELSE 0
      BY <1>7, HeaderJudged
    <3>2. (dataMsg = <<>>) = (open = <<>>)
      BY <2>3
    <3> QED
      BY <2>2, <3>1, <3>2, Zenon
  <2>5. consumeError' = IF Frames!Malformed(f, open) THEN 1002 ELSE 0
    BY <1>18, <1>22, <2>4
  <2>6. CASE Frames!Malformed(f, open)
    <3>1. consumeError' = 1002
      BY <2>5, <2>6
    <3>2. FaultOf(i + 1) = 1002
      BY <1>7, <2>6 DEF Frames!Fault
    <3>3. HasFailed(i)'
      BY <1>6, <1>13, <1>18, <1>20, <1>22, <3>1, <3>2 DEF HasFailed
    <3>4. OnCourse(i)'
      BY <3>1, <3>3 DEF OnCourse
    <3> QED
      BY <1>19, <3>4
  <2>7. CASE ~Frames!Malformed(f, open)
    <3>1. /\ consumeError' = 0 /\ procState' = "HEADER_EXTENDED"
          /\ bytesNeeded' = ExtendedLen(b)
      BY <1>18, <1>22, <2>5, <2>7
    <3>2. ExtendedLen(b) = e + h - p'
      <4>1. ExtendedLen(Basic(f)) = Len(Extended(f))
        BY <1>7, HeaderReads
      <4>2. h = 2 + Len(Extended(f)) /\ Len(Extended(f)) \in Nat
        BY <1>5, <1>7, FrameParts
      <4> QED
        BY <1>6, <2>1, <2>2, <4>1, <4>2
    <3>3. ext' = SubSeq(input, e + 3, p')
      <4>1. e + 2 \in Nat /\ e + 2 <= Len(input) /\ (e + 2) + 1 = e + 3
        BY <1>6, <1>11, <2>1
      <4>2. SubSeq(input, (e + 2) + 1, e + 2) = <<>>
        BY <1>9, <4>1, PartOf
      <4> QED
        BY <1>13, <1>18, <2>1, <4>1, <4>2
    <3>4. basic' = SubSeq(input, e + 1, e + 2)
      BY <1>12, <1>18, <2>1
    <3>5. p' >= e + 2
      BY <1>6, <2>1
    <3>6. InExtendedHeader(i)'
      <4>1. HeaderLen(f)' = h
        BY <1>5
      <4> QED
        BY <1>5, <1>6, <1>13, <1>18, <1>20, <2>7, <3>1, <3>2, <3>3, <3>4,
           <3>5, Zenon
           DEF InExtendedHeader
    <3>7. dataMsg' # <<>> => dataMsg'[1].utf8 # Reject
      BY <1>18
    <3>8. OnCourse(i)'
      BY <3>1, <3>6, <3>7, Zenon DEF OnCourse
    <3> QED
      BY <1>19, <3>8
  <2> QED
    BY <2>6, <2>7
<1> QED
  BY <1>21, <1>22

\* What a turn reads, if it reads anything.
LEMMA TurnReads ==
    ASSUME WireTypeOK, ProcTypeOK, p' = p + Len(Taken(Rest))
    PROVE  /\ p \in Nat /\ bytesNeeded \in Nat /\ Len(input) \in Nat
           /\ p' \in Nat /\ p <= p' /\ p' <= p + bytesNeeded /\ p' <= Len(input)
           /\ p' = p + bytesNeeded \/ p' = lim
           /\ Taken(Rest) = SubSeq(input, p + 1, p')
           /\ Len(Taken(Rest)) = p' - p
<1> DEFINE k == Len(Taken(Rest))
<1>1. /\ k \in Nat /\ k <= bytesNeeded /\ p + k <= lim
      /\ k = bytesNeeded \/ p + k = lim
      /\ Taken(Rest) = SubSeq(input, p + 1, p + k)
  BY TakenIs
<1>2. /\ p \in Nat /\ lim \in Nat /\ bytesNeeded \in Nat /\ lim <= Len(input)
      /\ Len(input) \in Nat
  BY DEF WireTypeOK, ProcTypeOK
<1> HIDE DEF k
<1>3. p' = p + k
  BY DEF k
<1> QED
  BY <1>1, <1>2, <1>3 DEF k

\* What the processor reads from the basic header.
HeaderRead(e, f, h) ==
    /\ basic = Basic(f) /\ basic # <<>>
    /\ Opcode(basic) = f.op /\ (Fin(basic) <=> f.fin)
    /\ IsControl(Opcode(basic)) <=> Frames!Control(f)
    /\ NotMinimal(basic, f.size) <=> Frames!Wasteful(f)
    /\ PayloadSize(basic, Extended(f)) = f.size
    /\ SubSeq(input, e + 3, e + h) = Extended(f)
    /\ f.size \in Nat /\ f.op \in 0..15 /\ f.fin \in BOOLEAN /\ f.payload \in Seq(Byte)

LEMMA HeaderIs ==
    ASSUME Given, NEW i \in 0..Len(frames) - 1,
           NEW e, NEW e1, NEW f, NEW h, NEW l, NEW open, InFront(i, e, e1, f, h, l, open),
           basic = SubSeq(input, e + 1, e + 2)
    PROVE  HeaderRead(e, f, h)
<1>1. /\ f \in WireFrame /\ SizeFits(f) /\ e = EndOf(i) /\ f = frames[i + 1]
      /\ h = HeaderLen(f)
  BY Zenon DEF InFront
<1>2. /\ SubSeq(input, e + 1, e + 2) = Basic(f)
      /\ SubSeq(input, e + 3, e + h) = Extended(f)
  BY <1>1, PartsOfFrame DEF Given
<1>3. basic = Basic(f)
  BY <1>2
<1>4. Basic(f) # <<>>
  <2>1. Len(Basic(f)) = 2
    BY <1>1, FrameParts
  <2> QED
    BY <2>1
<1>5. /\ Opcode(Basic(f)) = f.op /\ (Fin(Basic(f)) <=> f.fin)
      /\ PayloadSize(Basic(f), Extended(f)) = f.size
  BY <1>1, HeaderReads
<1>6. /\ NotMinimal(Basic(f), f.size) <=> Frames!Wasteful(f)
      /\ IsControl(Opcode(Basic(f))) <=> Frames!Control(f)
  BY <1>1, HeaderJudged
<1>7. f.size \in Nat /\ f.op \in 0..15 /\ f.fin \in BOOLEAN /\ f.payload \in Seq(Byte)
  BY <1>1 DEF WireFrame, Byte
<1> QED
  BY <1>2, <1>3, <1>4, <1>5, <1>6, <1>7, Zenon DEF HeaderRead

\* The size limit is that of the pieces.
LEMMA SizeJudged ==
    ASSUME NEW open \in Seq(Piece), NEW f \in WireFrame, dataMsg = DataOf(open),
           ~Frames!Control(f)
    PROVE  TooBig(f.size) <=> Frames!TooLong(f, open)
<1>1. Frames!Payload(<<>>) = <<>> /\ Frames!Payload(open) \in Seq(Byte)
  BY PayloadGrows
<1>2. open = <<>> => dataMsg = <<>>
  BY DEF DataOf
<1>3. open # <<>> => dataMsg # <<>> /\ dataMsg[1].payload = Frames!Payload(open)
  BY <1>1, MessageGrows DEF DataOf, Byte
<1>4. (IF dataMsg = <<>> THEN 0 ELSE Len(dataMsg[1].payload)) = Len(Frames!Payload(open))
  <2>1. CASE open = <<>>
    BY <2>1, <1>1, <1>2
  <2>2. CASE open # <<>>
    BY <2>2, <1>3
  <2> QED
    BY <2>1, <2>2
<1>5. TooBig(f.size) = ((IF dataMsg = <<>> THEN 0 ELSE Len(dataMsg[1].payload))
                         + f.size > MaxMessage)
  BY Zenon DEF TooBig
<1>6. Frames!TooLong(f, open) <=> Len(Frames!Payload(open)) + f.size > MaxMessage
  BY DEF Frames!TooLong
<1> QED
  BY <1>4, <1>5, <1>6, Zenon

\* A turn in the rest of the header: more of it, the payload or an error.
LEMMA ExtendedTurnKeeps ==
    ASSUME Given, ServerStill, WireTypeOK, ProcTypeOK, NEW i, StandsBehind(i),
           consumeError = 0, InExtendedHeader(i), dataMsg # <<>> => dataMsg[1].utf8 # Reject,
           HeaderExtendedTurn(Rest), p' = p + Len(Taken(Rest))
    PROVE  StandsBehind(i)' /\ OnCourse(i)'
<1>1. i \in 0..Len(frames) - 1
  <2>1. i \in 0..Len(frames) /\ Len(frames) \in Nat /\ i < Len(frames)
    BY EndsGrow DEF StandsBehind, Given, InputIs, InExtendedHeader
  <2> QED
    BY <2>1
<1>2. PICK e, e1, f, h, l, open : InFront(i, e, e1, f, h, l, open)
  BY <1>1, FrameIsAhead
<1>3. /\ e = EndOf(i) /\ e1 = EndOf(i + 1) /\ f = frames[i + 1] /\ h = HeaderLen(f)
      /\ open = Frames!OpenPieces(i) /\ l = Len(f.payload)
  BY <1>2, Zenon DEF InFront
<1>4. /\ i \in Nat /\ i < Len(frames) /\ e \in Nat /\ h \in Nat /\ h >= 2
      /\ l \in Nat /\ e1 = e + h + l
  BY <1>2, Zenon DEF InFront
<1>5. f \in WireFrame /\ FaultOf(i + 1) = Frames!Fault(f, open) /\ open \in Seq(Piece)
  BY <1>2, Zenon DEF InFront
<1>6. /\ procState = "HEADER_EXTENDED" /\ p >= e + 2
      /\ basic = SubSeq(input, e + 1, e + 2)
      /\ ext = SubSeq(input, e + 3, p)
      /\ bytesNeeded = e + h - p
      /\ dataMsg = DataOf(open) /\ ~Frames!Malformed(f, open)
  BY <1>3, Zenon DEF InExtendedHeader
<1>7. /\ p \in Nat /\ bytesNeeded \in Nat /\ Len(input) \in Nat
      /\ p' \in Nat /\ p <= p' /\ p' <= p + bytesNeeded /\ p' <= Len(input)
      /\ Taken(Rest) = SubSeq(input, p + 1, p')
      /\ Len(Taken(Rest)) = p' - p
  BY TurnReads
<1>8. /\ e + 2 <= p' /\ p' <= e + h /\ bytesNeeded - (p' - p) = e + h - p'
      /\ p' <= e1 /\ e < p'
  BY <1>4, <1>6, <1>7
<1>9. /\ basic = Basic(f) /\ basic # <<>>
      /\ Opcode(basic) = f.op
      /\ IsControl(Opcode(basic)) <=> Frames!Control(f)
      /\ NotMinimal(basic, f.size) <=> Frames!Wasteful(f)
      /\ PayloadSize(basic, Extended(f)) = f.size
      /\ SubSeq(input, e + 3, e + h) = Extended(f)
      /\ f.size \in Nat /\ f.op \in 0..15 /\ f.payload \in Seq(Byte)
  <2>1. HeaderRead(e, f, h)
    BY <1>1, <1>2, <1>6, HeaderIs
  <2> QED
    BY <2>1, Zenon DEF HeaderRead
<1>10. PICK x : x = SubSeq(input, e + 3, p')
  OBVIOUS
<1>11. ext \o Taken(Rest) = x
  <2>1. input \in Seq(Nat)
    BY DEF WireTypeOK
  <2>2. e + 2 \in Nat /\ e + 2 <= p /\ p <= Len(input) /\ (e + 2) + 1 = e + 3
    BY <1>4, <1>6, <1>7
  <2>3. SubSeq(input, (e + 2) + 1, p) \o SubSeq(input, p + 1, p') = SubSeq(input, (e + 2) + 1, p')
    BY <1>7, <2>1, <2>2, InputParts
  <2> QED
    BY <1>6, <1>7, <1>10, <2>2, <2>3
<1>12. PICK missing : missing = bytesNeeded - Len(Taken(Rest))
  OBVIOUS
<1>13. missing = e + h - p'
  BY <1>7, <1>8, <1>12
<1>14. PICK size : size = PayloadSize(basic, x)
  OBVIOUS
<1>15. /\ ext' = x /\ basic' = basic
       /\ IF missing > 0
          THEN /\ bytesNeeded' = missing
               /\ procState' = procState /\ dataMsg' = dataMsg /\ consumeError' = consumeError
          ELSE IF NotMinimal(basic, size)
          THEN consumeError' = internal_endpoint_error /\ procState' = procState
          ELSE /\ procState' = "APPLICATION"
               /\ bytesNeeded' = size
               /\ IF IsControl(Opcode(basic))
                  THEN /\ controlMsg' = NewMessage(Opcode(basic))
                       /\ dataMsg' = dataMsg /\ consumeError' = consumeError
                  ELSE /\ consumeError' = IF TooBig(size) THEN message_too_big ELSE 0
                       /\ dataMsg' = IF dataMsg = <<>> /\ ~TooBig(size)
                                     THEN NewMessage(Opcode(basic)) ELSE dataMsg
  <2>1. ext' = x /\ basic' = basic
    BY <1>11 DEF HeaderExtendedTurn
  <2> QED
    BY <1>12, <1>14, <2>1, Zenon DEF HeaderExtendedTurn
<1>16. StandsBehind(i)'
  <2>1. basic' # <<>>
    BY <1>9, <1>15
  <2>2. EndOf(i) < p' /\ p' <= EndOf(i + 1)
    BY <1>3, <1>8
  <2> QED
    BY <1>4, <1>7, <2>1, <2>2, StandsStill
<1>17. /\ EndOf(i)' = e /\ Frames!OpenPieces(i)' = open /\ frames' = frames
       /\ input' = input /\ FaultOf(i + 1)' = FaultOf(i + 1) /\ HeaderLen(f)' = h
  BY <1>3, GivenStays DEF ServerStill
<1>18. CASE missing > 0
  <2>1. bytesNeeded' = e + h - p' /\ procState' = "HEADER_EXTENDED" /\ consumeError' = 0
        /\ dataMsg' = dataMsg
    BY <1>6, <1>13, <1>15, <1>18
  <2>2. InExtendedHeader(i)'
    BY <1>3, <1>4, <1>6, <1>8, <1>10, <1>15, <1>17, <2>1, Zenon DEF InExtendedHeader
  <2>3. dataMsg' # <<>> => dataMsg'[1].utf8 # Reject
    BY <2>1
  <2> QED
    BY <1>16, <2>1, <2>2, <2>3, Zenon DEF OnCourse
<1>19. CASE ~(missing > 0)
  <2>1. p' = e + h
    <3>1. e \in Nat /\ h \in Nat /\ p' \in Nat /\ p' <= e + h
      BY <1>4, <1>7, <1>8
    <3>2. ~(e + h - p' > 0)
      BY <1>13, <1>19
    <3> QED
      BY <3>1, <3>2
  <2>2. size = f.size
    BY <1>9, <1>10, <1>14, <2>1
  <2>3. CASE NotMinimal(basic, f.size)
    <3>1. consumeError' = 1011 /\ procState' = "HEADER_EXTENDED"
      BY <1>6, <1>15, <1>19, <2>2, <2>3 DEF internal_endpoint_error
    <3>2. FaultOf(i + 1) = 1011
      BY <1>5, <1>6, <1>9, <2>3, Zenon DEF Frames!Fault
    <3>3. HasFailed(i)'
      BY <1>4, <1>17, <3>1, <3>2 DEF HasFailed
    <3> QED
      BY <1>16, <3>1, <3>3 DEF OnCourse
  <2>4. CASE ~NotMinimal(basic, f.size)
    <3>1. procState' = "APPLICATION" /\ bytesNeeded' = f.size /\ ~Frames!Wasteful(f)
      BY <1>9, <1>15, <1>19, <2>2, <2>4
    <3>2. PICK taken : taken = p' - (e + h)
      OBVIOUS
    <3>3. taken = 0 /\ bytesNeeded' = f.size - taken
      BY <1>4, <1>9, <2>1, <3>1, <3>2
    <3>4. SubSeq(f.payload, 1, taken) = <<>>
      BY <1>9, <3>3, PartsNone
    <3>5. basic' = SubSeq(input', e + 1, e + 2)
      BY <1>6, <1>15, <1>17
    <3>6. /\ MessageOf(f.op, <<>>) = NewMessage(f.op)
          /\ MessageOf(f.op, <<>>)[1].utf8 # Reject
      <4>1. <<>> \in Seq(Byte)
        OBVIOUS
      <4>2. MessageOf(f.op, <<>>) = NewMessage(f.op)
        BY <4>1, MessageGrows
      <4>3. NewMessage(f.op)[1].utf8 # Reject
        BY DEF NewMessage, Accept, Reject
      <4> QED
        BY <4>2, <4>3
    <3>7. CASE Frames!Control(f)
      <4>1. /\ controlMsg' = MessageOf(f.op, <<>>) /\ dataMsg' = dataMsg
            /\ consumeError' = 0
        BY <1>9, <1>15, <1>19, <2>2, <2>4, <3>6, <3>7
      <4>2. ~Frames!TooLong(f, open)
        BY <3>7 DEF Frames!TooLong
      <4>3. taken >= 0 /\ procState' # "READY"
        BY <3>1, <3>3
      <4>4. InPayload(i)'
        BY <1>3, <1>4, <1>6, <1>17, <3>1, <3>2, <3>3, <3>4, <3>5, <3>7, <4>1,
           <4>2, <4>3, Zenon
           DEF InPayload
      <4>5. dataMsg' # <<>> => dataMsg'[1].utf8 # Reject
        BY <4>1
      <4> QED
        BY <1>16, <4>1, <4>4, <4>5, Zenon DEF OnCourse
    <3>8. CASE ~Frames!Control(f) /\ TooBig(f.size)
      <4>1. consumeError' = 1009
        BY <1>9, <1>15, <1>19, <2>2, <2>4, <3>8 DEF message_too_big
      <4>2. Frames!TooLong(f, open)
        BY <1>5, <1>6, <3>8, SizeJudged
      <4>3. FaultOf(i + 1) = 1009
        BY <1>5, <1>6, <3>1, <4>2, Zenon DEF Frames!Fault
      <4>4. HasFailed(i)'
        BY <1>4, <1>17, <3>1, <4>1, <4>3 DEF HasFailed
      <4> QED
        BY <1>16, <4>1, <4>4 DEF OnCourse
    <3>9. CASE ~Frames!Control(f) /\ ~TooBig(f.size)
      <4>1. /\ consumeError' = 0
            /\ dataMsg' = IF dataMsg = <<>> THEN NewMessage(f.op) ELSE dataMsg
        BY <1>9, <1>15, <1>19, <2>2, <2>4, <3>9
      <4>2. ~Frames!TooLong(f, open)
        BY <1>5, <1>6, <3>9, SizeJudged
      <4>3. dataMsg' = MessageOf(Append(open, f)[1].op, Frames!Payload(open) \o <<>>)
        <5>1. /\ Frames!Payload(<<>>) = <<>> /\ Frames!Payload(open) \in Seq(Byte)
              /\ Append(open, f)[1] = IF open = <<>> THEN f ELSE open[1]
          BY <1>5, PayloadGrows
        <5>2. Frames!Payload(open) \o <<>> = Frames!Payload(open)
          BY <5>1
        <5>3. CASE open = <<>>
          <6>1. dataMsg = <<>>
            BY <1>6, <5>3 DEF DataOf
          <6> QED
            BY <3>6, <4>1, <5>1, <5>2, <5>3, <6>1
        <5>4. CASE open # <<>>
          <6>1. dataMsg = MessageOf(open[1].op, Frames!Payload(open))
            BY <1>6, <5>4 DEF DataOf
          <6>2. dataMsg # <<>>
            BY <6>1 DEF MessageOf
          <6> QED
            BY <4>1, <5>1, <5>2, <5>4, <6>1, <6>2
        <5> QED
          BY <5>3, <5>4
      <4>4. taken >= 0 /\ procState' # "READY"
        BY <3>1, <3>3
      <4>5. ~Frames!Control(f)
        BY <3>9
      <4>6. InPayload(i)'
        BY <1>3, <1>4, <1>6, <1>17, <3>1, <3>2, <3>3, <3>4, <3>5, <4>1, <4>2,
           <4>3, <4>4, <4>5, Zenon
           DEF InPayload
      <4>7. dataMsg' # <<>> => dataMsg'[1].utf8 # Reject
        BY <3>6, <4>1
      <4> QED
        BY <1>16, <4>1, <4>6, <4>7, Zenon DEF OnCourse
    <3> QED
      BY <3>7, <3>8, <3>9
  <2> QED
    BY <2>3, <2>4
<1> QED
  BY <1>18, <1>19

-----------------------------------------------------------------------------
(* Turns in a payload.                                                     *)

\* FrameSession's UTF-8 is that of the processor.
LEMMA SameText ==
    ASSUME NEW t
    PROVE  /\ Frames!WellFormed(t) <=> WellFormed(t)
           /\ Frames!Completable(t) <=> Completable(t)
<1>1. \A c : Frames!IsCharacter(c) <=> IsCharacter(c)
  BY SMTT(30) DEF Frames!IsCharacter, IsCharacter, Frames!Trails, Trails
<1>2. \A u : Frames!WellFormed(u) = WellFormed(u)
  BY SMTT(30)
     DEF Frames!WellFormed, WellFormed, Frames!IsCharacter, IsCharacter,
       Frames!Trails, Trails
<1>3. Frames!TrailBounds = TrailBounds
  BY DEF Frames!TrailBounds, TrailBounds
<1>4. Frames!Completable(t) <=> Completable(t)
  BY <1>1, <1>2, <1>3, Zenon DEF Frames!Completable, Completable
<1> QED
  BY <1>2, <1>4, Zenon

\* What the validator says of a text, in terms of the whole message.
LEMMA TextJudged ==
    ASSUME NEW t \in Seq(Byte)
    PROVE  /\ DecodeAll(Accept, t) = Accept <=> Frames!WellFormed(t)
           /\ DecodeAll(Accept, t) = Reject <=> ~Frames!Completable(t)
           /\ Frames!WellFormed(t) => Frames!Completable(t)
<1>1. DecodeAll(Accept, t) = Accept <=> Frames!WellFormed(t)
  BY ValidatorIsExact, SameText DEF Validate
<1>2. DecodeAll(Accept, t) = Reject <=> ~Frames!Completable(t)
  BY CompletableIsExact, SameText
<1>3. Accept # Reject
  BY DEF Accept, Reject
<1> QED
  BY <1>1, <1>2, <1>3

\* The message of a frame that has been read up to byte t of its payload.
TextUpTo(f, open, t) == Frames!Payload(open) \o SubSeq(f.payload, 1, t)
KindOf(f, open) == Append(open, f)[1].op
StateUpTo(f, open, t) == MessageOf(KindOf(f, open), TextUpTo(f, open, t))[1].utf8

LEMMA TextUpToIs ==
    ASSUME NEW open \in Seq(Piece), NEW f \in WireFrame, NEW l, l = Len(f.payload),
           NEW t \in Nat, t <= l
    PROVE  /\ TextUpTo(f, open, t) \in Seq(Byte)
           /\ StateUpTo(f, open, t)
                = IF KindOf(f, open) = TEXT THEN DecodeAll(Accept, TextUpTo(f, open, t)) ELSE Accept
           /\ TextUpTo(f, open, l) = Frames!Payload(Append(open, f))
           /\ TextUpTo(f, open, t) \o SubSeq(f.payload, t + 1, l) = TextUpTo(f, open, l)
           /\ SubSeq(f.payload, t + 1, l) \in Seq(Byte)
           /\ f.payload \in Seq(Byte) /\ l \in Nat
           /\ \A u \in Nat : u <= t =>
                /\ SubSeq(f.payload, 1, u) \in Seq(Byte)
                /\ SubSeq(f.payload, u + 1, t) \in Seq(Byte)
                /\ SubSeq(f.payload, 1, u) \o SubSeq(f.payload, u + 1, t) = SubSeq(f.payload, 1, t)
                /\ TextUpTo(f, open, u) \in Seq(Byte)
                /\ TextUpTo(f, open, u) \o SubSeq(f.payload, u + 1, t) = TextUpTo(f, open, t)
<1>1. PICK y : y = f.payload
  OBVIOUS
<1>2. y \in Seq(Byte)
  BY <1>1 DEF WireFrame, Byte
<1>3. l \in Nat /\ l = Len(y)
  BY <1>1, <1>2
<1>4. PICK x : x = Frames!Payload(open)
  OBVIOUS
<1>5. x \in Seq(Byte) /\ Frames!Payload(Append(open, f)) = x \o y
  BY <1>1, <1>4, PayloadGrows
<1>6. \A u \in Nat : TextUpTo(f, open, u) = x \o SubSeq(y, 1, u)
  BY <1>1, <1>4, Zenon DEF TextUpTo
<1>7. ASSUME NEW v \in Nat, v <= l, NEW u \in Nat, u <= v
      PROVE  /\ SubSeq(y, 1, u) \in Seq(Byte)
             /\ SubSeq(y, u + 1, v) \in Seq(Byte)
             /\ SubSeq(y, 1, u) \o SubSeq(y, u + 1, v) = SubSeq(y, 1, v)
             /\ TextUpTo(f, open, u) \in Seq(Byte)
             /\ TextUpTo(f, open, u) \o SubSeq(y, u + 1, v) = TextUpTo(f, open, v)
  <2>1. 0 \in Nat /\ 0 <= u /\ u <= Len(y) /\ v <= Len(y) /\ 0 + 1 = 1
    BY <1>3, <1>7
  <2>2. SubSeq(y, 0 + 1, u) \in Seq(Byte)
    BY <1>2, <1>7, <2>1, PartOf, Zenon
  <2>3. SubSeq(y, u + 1, v) \in Seq(Byte)
    BY <1>2, <1>7, <2>1, PartOf, Zenon
  <2>4. SubSeq(y, 0 + 1, u) \o SubSeq(y, u + 1, v) = SubSeq(y, 0 + 1, v)
    BY <1>2, <1>7, <2>1, PartsJoin, Zenon
  <2>5. PICK a, b : a = SubSeq(y, 1, u) /\ b = SubSeq(y, u + 1, v)
    OBVIOUS
  <2>6. a \in Seq(Byte) /\ b \in Seq(Byte) /\ a \o b = SubSeq(y, 1, v)
    BY <2>1, <2>2, <2>3, <2>4, <2>5
  <2>7. x \o a \in Seq(Byte) /\ (x \o a) \o b = x \o (a \o b)
    <3>1. x \in Seq(Byte) /\ a \in Seq(Byte) /\ b \in Seq(Byte)
      BY <1>5, <2>6
    <3> QED
      BY <3>1
  <2> QED
    BY <1>6, <1>7, <2>5, <2>6, <2>7, Zenon
<1>8. TextUpTo(f, open, t) \in Seq(Byte) /\ SubSeq(y, t + 1, l) \in Seq(Byte)
      /\ TextUpTo(f, open, t) \o SubSeq(y, t + 1, l) = TextUpTo(f, open, l)
  <2>1. l <= l
    BY <1>3
  <2> QED
    BY <1>3, <1>7, <2>1, Zenon
<1>9. TextUpTo(f, open, l) = Frames!Payload(Append(open, f))
  <2>1. SubSeq(y, 1, Len(y)) = y
    BY <1>2, PartsNone
  <2> QED
    BY <1>3, <1>5, <1>6, <2>1, Zenon
<1>10. StateUpTo(f, open, t)
         = IF KindOf(f, open) = TEXT THEN DecodeAll(Accept, TextUpTo(f, open, t)) ELSE Accept
  <2>1. <<>> \in Seq(Byte)
    OBVIOUS
  <2> QED
    <3>1. PICK k, s : k = KindOf(f, open) /\ s = TextUpTo(f, open, t)
      OBVIOUS
    <3>2. s \in Seq(Byte)
      BY <1>8, <3>1
    <3>3. MessageOf(k, s)[1].utf8 = IF k = TEXT THEN DecodeAll(Accept, s) ELSE Accept
      BY <2>1, <3>2, MessageGrows
    <3> QED
      BY <3>1, <3>3, Zenon DEF StateUpTo
<1>11. \A u \in Nat : u <= t =>
         /\ SubSeq(f.payload, 1, u) \in Seq(Byte)
         /\ SubSeq(f.payload, u + 1, t) \in Seq(Byte)
         /\ SubSeq(f.payload, 1, u) \o SubSeq(f.payload, u + 1, t) = SubSeq(f.payload, 1, t)
         /\ TextUpTo(f, open, u) \in Seq(Byte)
         /\ TextUpTo(f, open, u) \o SubSeq(f.payload, u + 1, t) = TextUpTo(f, open, t)
  BY <1>1, <1>7, Zenon
<1> QED
  BY <1>1, <1>2, <1>3, <1>8, <1>9, <1>10, <1>11, Zenon

LEMMA WholeText ==
    ASSUME NEW open \in Seq(Piece), NEW f \in WireFrame
    PROVE  TextUpTo(f, open, Len(f.payload)) = Frames!Payload(Append(open, f))
<1>1. f.payload \in Seq(Byte)
  BY DEF WireFrame, Byte
<1>2. Frames!Payload(Append(open, f)) = Frames!Payload(open) \o f.payload
  BY PayloadGrows
<1>3. SubSeq(f.payload, 1, Len(f.payload)) = f.payload
  BY <1>1, PartsNone
<1> QED
  BY <1>2, <1>3, Zenon DEF TextUpTo

\* When the processor finds fault with the text.
LEMMA PayloadJudged ==
    ASSUME NEW open \in Seq(Piece), NEW f \in WireFrame, NEW l, l = Len(f.payload),
           NEW t \in Nat, t <= l, ~Frames!Control(f), ~Frames!Malformed(f, open),
           NEW u, u = StateUpTo(f, open, t)
    PROVE  /\ u = Reject => Frames!BadText(f, open)
           /\ t = l /\ f.fin /\ f.op = TEXT /\ u # Accept => Frames!BadText(f, open)
           /\ t = l /\ u # Reject /\ ~(f.fin /\ f.op = TEXT /\ u # Accept)
                => ~Frames!BadText(f, open)
<1>1. PICK full : full = Frames!Payload(Append(open, f))
  OBVIOUS
<1>2. PICK k : k = KindOf(f, open)
  OBVIOUS
<1>3. PICK s : s = TextUpTo(f, open, t)
  OBVIOUS
<1>4. PICK r : r = SubSeq(f.payload, t + 1, l)
  OBVIOUS
<1>5. /\ s \in Seq(Byte) /\ r \in Seq(Byte) /\ s \o r = full
      /\ u = IF k = TEXT THEN DecodeAll(Accept, s) ELSE Accept
      /\ t = l => s = full
  <2>1. /\ TextUpTo(f, open, t) \in Seq(Byte)
        /\ StateUpTo(f, open, t)
             = IF KindOf(f, open) = TEXT THEN DecodeAll(Accept, TextUpTo(f, open, t)) ELSE Accept
        /\ TextUpTo(f, open, l) = Frames!Payload(Append(open, f))
        /\ TextUpTo(f, open, t) \o SubSeq(f.payload, t + 1, l) = TextUpTo(f, open, l)
        /\ SubSeq(f.payload, t + 1, l) \in Seq(Byte)
    BY TextUpToIs, Zenon
  <2> QED
    BY <1>1, <1>2, <1>3, <1>4, <2>1, Zenon
<1>6. full \in Seq(Byte)
  <2>1. \A a, b \in Seq(Byte) : a \o b \in Seq(Byte)
    OBVIOUS
  <2> QED
    BY <1>5, <2>1, Zenon
<1>7. /\ DecodeAll(Accept, full) = Accept <=> Frames!WellFormed(full)
      /\ DecodeAll(Accept, full) = Reject <=> ~Frames!Completable(full)
      /\ Frames!WellFormed(full) => Frames!Completable(full)
  BY <1>6, TextJudged
<1>8. Accept # Reject
  BY DEF Accept, Reject
<1>9. u = Reject => k = TEXT /\ DecodeAll(Accept, full) = Reject
  <2> SUFFICES ASSUME u = Reject PROVE k = TEXT /\ DecodeAll(Accept, full) = Reject
    OBVIOUS
  <2>1. k = TEXT /\ DecodeAll(Accept, s) = Reject
    BY <1>5, <1>8
  <2>2. DecodeAll(Accept, s \o r) = DecodeAll(DecodeAll(Accept, s), r)
    BY <1>5, PiecesAddUp
  <2>3. DecodeAll(Reject, r) = Reject
    <3>1. Reject \in DecoderState
      BY DEF Reject, DecoderState
    <3> QED
      BY <1>5, <3>1, DecodeAllType
  <2> QED
    BY <1>5, <2>1, <2>2, <2>3
<1>10. Frames!BadText(f, open) <=>
         /\ k = TEXT
         /\ IF f.fin /\ Len(Append(open, f)) = 1 THEN ~Frames!WellFormed(full)
            ELSE ~Frames!Completable(full)
  BY <1>1, <1>2, Zenon DEF Frames!BadText, KindOf, Frames!Text, TEXT
<1>11. /\ Len(Append(open, f)) = 1 <=> open = <<>>
       /\ k = IF open = <<>> THEN f.op ELSE open[1].op
  BY <1>2, PayloadGrows DEF KindOf
<1>12. f.op = TEXT => open = <<>>
  BY DEF Frames!Malformed, TEXT
<1> QED
  BY <1>5, <1>7, <1>8, <1>9, <1>10, <1>11, <1>12

\* A turn in the payload stays inside it, and takes its next bytes.
InsideOf(e1, f, h, l, t0, t) ==
    /\ t0 \in Nat /\ t \in Nat /\ t0 <= t /\ t <= l
    /\ p' \in Nat /\ p' <= e1
    /\ t \in Nat /\ bytesNeeded - Len(Taken(Rest)) = f.size - t
    /\ Taken(Rest) = SubSeq(f.payload, t0 + 1, t)
    /\ t = f.size => Whole(f) /\ t = l /\ p' = e1
    /\ Len(Taken(Rest)) = t - t0

LEMMA PayloadTurn ==
    ASSUME Given, WireTypeOK, ProcTypeOK, NEW i, StandsBehind(i),
           i \in 0..Len(frames) - 1,
           InPayload(i), p' = p + Len(Taken(Rest)),
           NEW e, NEW e1, NEW f, NEW h, NEW l, NEW open, InFront(i, e, e1, f, h, l, open)
    PROVE  InsideOf(e1, f, h, l, p - (e + h), p' - (e + h))
<1>1. /\ e = EndOf(i) /\ e1 = EndOf(i + 1) /\ f = frames[i + 1] /\ h = HeaderLen(f)
      /\ l = Len(f.payload)
  BY Zenon DEF InFront
<1>2. e \in Nat /\ h \in Nat /\ l \in Nat /\ e1 = e + h + l /\ i + 1 \in DOMAIN frames
  BY Zenon DEF InFront
<1>3. bytesNeeded = f.size - (p - (e + h)) /\ p - (e + h) >= 0
  BY <1>1, Zenon DEF InPayload
<1>4. f.size \in Nat /\ f.payload \in Seq(Byte)
  BY DEF InFront, WireFrame, Byte
<1>5. /\ p \in Nat /\ bytesNeeded \in Nat /\ Len(input) \in Nat
      /\ p' \in Nat /\ p <= p' /\ p' <= p + bytesNeeded /\ p' <= Len(input)
      /\ Taken(Rest) = SubSeq(input, p + 1, p')
      /\ Len(Taken(Rest)) = p' - p
  BY TurnReads
<1>6. Whole(f) \/ (f.payload = <<>> /\ i + 1 = Len(frames))
  BY <1>1, <1>2 DEF Given, FramesFit
<1>7. Len(input) = EndOf(Len(frames))
  BY InputHolds DEF Given
<1>8. l = f.size \/ (l = 0 /\ Len(input) = e1)
  <2>1. CASE Whole(f)
    BY <1>1, <2>1 DEF Whole
  <2>2. CASE f.payload = <<>> /\ i + 1 = Len(frames)
    BY <1>1, <1>7, <2>2
  <2> QED
    BY <1>6, <2>1, <2>2
<1>9. PICK t0, t : t0 = p - (e + h) /\ t = p' - (e + h)
  OBVIOUS
<1>10. t0 \in Nat /\ t \in Nat /\ t0 <= t /\ p = e + h + t0 /\ p' = e + h + t
  <2>1. e \in Nat /\ h \in Nat /\ p \in Nat /\ p' \in Nat /\ p <= p' /\ p - (e + h) >= 0
    BY <1>2, <1>3, <1>5
  <2> QED
    BY <1>9, <2>1
<1>11. t <= f.size
  <2>1. PICK n : n = f.size
    OBVIOUS
  <2>2. n \in Nat /\ bytesNeeded = n - t0 /\ e + h + t <= e + h + t0 + bytesNeeded
    BY <1>3, <1>4, <1>5, <1>9, <1>10, <2>1
  <2>3. t <= n
    BY <1>2, <1>10, <2>2
  <2> QED
    BY <2>1, <2>3
<1>12. t <= l
  <2>1. CASE l = f.size
    BY <1>11, <2>1
  <2>2. CASE l = 0 /\ Len(input) = e1
    <3>1. e + h + t <= e + h + 0
      BY <1>2, <1>5, <1>10, <2>2
    <3> QED
      BY <1>2, <1>10, <2>2, <3>1
  <2> QED
    BY <1>8, <2>1, <2>2
<1>13. p' <= e1
  BY <1>2, <1>10, <1>12
<1>14. Taken(Rest) = SubSeq(f.payload, t0 + 1, t)
  <2>1. \A a, b \in Nat : a <= b /\ b <= l =>
          SubSeq(input, e + h + a + 1, e + h + b) = SubSeq(f.payload, a + 1, b)
    BY <1>1, PartsOfFrame DEF Given
  <2>2. SubSeq(input, e + h + t0 + 1, e + h + t) = SubSeq(f.payload, t0 + 1, t)
    BY <1>10, <1>12, <2>1
  <2> QED
    BY <1>5, <1>10, <2>2
<1>15. bytesNeeded - Len(Taken(Rest)) = f.size - t /\ Len(Taken(Rest)) = t - t0
  <2>1. PICK n : n = f.size
    OBVIOUS
  <2>2. /\ n \in Nat /\ t0 \in Nat /\ t \in Nat /\ bytesNeeded = n - t0
        /\ Len(Taken(Rest)) = (e + h + t) - (e + h + t0)
    BY <1>3, <1>4, <1>5, <1>9, <1>10, <2>1
  <2>3. Len(Taken(Rest)) = t - t0
    BY <1>2, <2>2
  <2>4. \A a, b, c \in Nat : (a - b) - (c - b) = a - c
    OBVIOUS
  <2>5. (n - t0) - (t - t0) = n - t
    BY <2>2, <2>4
  <2>6. bytesNeeded - Len(Taken(Rest)) = n - t
    BY <2>2, <2>3, <2>5, Zenon
  <2> QED
    BY <2>1, <2>3, <2>6, Zenon
<1>16. t = f.size => Whole(f) /\ t = l /\ p' = e1
  <2> SUFFICES ASSUME t = f.size PROVE l = f.size
    BY <1>1, <1>2, <1>10 DEF Whole
  <2> QED
    BY <1>8, <1>10, <1>12
<1>17. InsideOf(e1, f, h, l, t0, t)
  BY <1>5, <1>10, <1>12, <1>13, <1>14, <1>15, <1>16, Zenon DEF InsideOf
<1> QED
  BY <1>9, <1>17, Zenon

\* The message grows by the bytes the turn takes.
LEMMA PayloadMessage ==
    ASSUME NEW f \in WireFrame, NEW open \in Seq(Piece), NEW l, l = Len(f.payload),
           NEW t0 \in Nat, NEW t \in Nat, t0 <= t, t <= l
    PROVE  LET bytes == SubSeq(f.payload, t0 + 1, t)
           IN /\ WithBytes(MessageOf(f.op, SubSeq(f.payload, 1, t0)), bytes)
                   = MessageOf(f.op, SubSeq(f.payload, 1, t))
              /\ WithBytes(MessageOf(KindOf(f, open), TextUpTo(f, open, t0)), bytes)
                   = MessageOf(KindOf(f, open), TextUpTo(f, open, t))
<1>1. PICK bytes : bytes = SubSeq(f.payload, t0 + 1, t)
  OBVIOUS
<1>2. PICK a, b : a = SubSeq(f.payload, 1, t0) /\ b = TextUpTo(f, open, t0)
  OBVIOUS
<1>3. PICK k : k = KindOf(f, open)
  OBVIOUS
<1>4. /\ bytes \in Seq(Byte) /\ a \in Seq(Byte) /\ b \in Seq(Byte)
      /\ a \o bytes = SubSeq(f.payload, 1, t) /\ b \o bytes = TextUpTo(f, open, t)
  <2>1. \A u \in Nat : u <= t =>
          /\ SubSeq(f.payload, 1, u) \in Seq(Byte)
          /\ SubSeq(f.payload, u + 1, t) \in Seq(Byte)
          /\ SubSeq(f.payload, 1, u) \o SubSeq(f.payload, u + 1, t) = SubSeq(f.payload, 1, t)
          /\ TextUpTo(f, open, u) \in Seq(Byte)
          /\ TextUpTo(f, open, u) \o SubSeq(f.payload, u + 1, t) = TextUpTo(f, open, t)
    BY TextUpToIs, Zenon
  <2> QED
    BY <1>1, <1>2, <2>1
<1>5. /\ WithBytes(MessageOf(f.op, a), bytes) = MessageOf(f.op, a \o bytes)
      /\ WithBytes(MessageOf(k, b), bytes) = MessageOf(k, b \o bytes)
  <2>1. bytes \in Seq(Byte) /\ a \in Seq(Byte) /\ b \in Seq(Byte)
    BY <1>4
  <2>2. WithBytes(MessageOf(f.op, a), bytes) = MessageOf(f.op, a \o bytes)
    BY <2>1, MessageGrows
  <2>3. WithBytes(MessageOf(k, b), bytes) = MessageOf(k, b \o bytes)
    BY <2>1, MessageGrows
  <2> QED
    BY <2>2, <2>3
<1> QED
  BY <1>1, <1>2, <1>3, <1>4, <1>5, Zenon

\* A frame without a fault in its header or, for data, in its text has none.
LEMMA FaultIs ==
    ASSUME NEW f, NEW open, ~Frames!Malformed(f, open), ~Frames!Wasteful(f),
           ~Frames!TooLong(f, open)
    PROVE  /\ Frames!Fault(f, open) = IF Frames!BadText(f, open) THEN 1007 ELSE 0
           /\ Frames!Control(f) => ~Frames!BadText(f, open) /\ f.fin /\ f.op # TEXT
<1>1. Frames!Fault(f, open) = IF Frames!BadText(f, open) THEN 1007 ELSE 0
  BY Zenon DEF Frames!Fault
<1>2. Frames!Control(f) => ~Frames!BadText(f, open)
  BY Zenon DEF Frames!BadText
<1>3. Frames!Control(f) => f.fin
  BY Zenon DEF Frames!Malformed
<1>4. Frames!Control(f) => f.op # TEXT
  BY DEF Frames!Control, TEXT
<1> QED
  BY <1>1, <1>2, <1>3, <1>4, Zenon

\* What is known of the frame whose payload the processor reads.
Inside(i, e, f, h, open, t0) ==
    /\ procState \in {"APPLICATION", "READY"}
    /\ bytesNeeded = f.size - t0 /\ t0 >= 0
    /\ ~Frames!Malformed(f, open) /\ ~Frames!Wasteful(f) /\ ~Frames!TooLong(f, open)
    /\ IF Frames!Control(f)
       THEN controlMsg = MessageOf(f.op, SubSeq(f.payload, 1, t0)) /\ dataMsg = DataOf(open)
       ELSE dataMsg = MessageOf(KindOf(f, open), TextUpTo(f, open, t0))
    /\ procState = "READY" => bytesNeeded = 0 /\ f.fin /\ FaultOf(i + 1) = 0

LEMMA InsideIs ==
    ASSUME NEW i, NEW e, e = EndOf(i), NEW f, f = frames[i + 1], NEW h,
           h = HeaderLen(f),
           NEW open, open = Frames!OpenPieces(i)
    PROVE  InPayload(i) <=> /\ i < Len(frames) /\ basic = SubSeq(input, e + 1, e + 2)
                            /\ Inside(i, e, f, h, open, p - (e + h))
BY Zenon DEF InPayload, Inside, KindOf, TextUpTo

\* What one turn makes of the message and of the processor.
Makes(control, msg, missing, fin, op) ==
    /\ procState = "APPLICATION"
    /\ IF control THEN controlMsg' = msg /\ dataMsg' = dataMsg
       ELSE dataMsg' = msg /\ controlMsg' = controlMsg
    /\ consumeError' = IF \/ msg[1].utf8 = Reject
                          \/ missing = 0 /\ fin /\ op = TEXT /\ msg[1].utf8 # Accept
                       THEN 1007 ELSE 0
    /\ IF consumeError' = 0 /\ missing = 0 /\ ~fin
       THEN procState' = "HEADER_BASIC" /\ bytesNeeded' = 2
            /\ basic' = <<>> /\ ext' = <<>>
       ELSE /\ procState' = IF consumeError' = 0 /\ missing = 0 THEN "READY" ELSE procState
            /\ bytesNeeded' = missing
            /\ basic' = basic /\ ext' = ext

LEMMA TurnMakes ==
    ASSUME ApplicationTurn(Rest), NEW control, control = IsControl(Opcode(basic)),
           NEW msg, msg = WithBytes(IF control THEN controlMsg ELSE dataMsg, Taken(Rest)),
           NEW missing, missing = bytesNeeded - Len(Taken(Rest)),
           NEW fin, fin = Fin(basic), NEW op, op = Opcode(basic)
    PROVE  Makes(control, msg, missing, fin, op)
<1>1. procState = "APPLICATION"
  BY DEF ApplicationTurn
<1>2. IF control THEN controlMsg' = msg /\ UNCHANGED dataMsg
                 ELSE dataMsg' = msg /\ UNCHANGED controlMsg
  BY Zenon DEF ApplicationTurn
<1>3. consumeError' = IF \/ msg[1].utf8 = Reject
                         \/ missing = 0 /\ Fin(basic) /\ EndsInsideCharacter(msg)
                      THEN invalid_payload ELSE 0
  BY Zenon DEF ApplicationTurn
<1>4. IF consumeError' = 0 /\ missing = 0 /\ ~Fin(basic)
      THEN ResetHeaders
      ELSE /\ procState' = IF consumeError' = 0 /\ missing = 0 THEN "READY" ELSE procState
           /\ bytesNeeded' = missing
           /\ UNCHANGED <<basic, ext>>
  BY <1>3, Zenon DEF ApplicationTurn
<1>5. IF control THEN controlMsg' = msg /\ dataMsg' = dataMsg
      ELSE dataMsg' = msg /\ controlMsg' = controlMsg
  BY <1>2
<1>6. consumeError' = IF \/ msg[1].utf8 = Reject
                         \/ missing = 0 /\ fin /\ op = TEXT /\ msg[1].utf8 # Accept
                      THEN 1007 ELSE 0
  <2>1. EndsInsideCharacter(msg) <=> op = TEXT /\ msg[1].utf8 # Accept
    BY DEF EndsInsideCharacter
  <2>2. invalid_payload = 1007
    BY DEF invalid_payload
  <2>3. Fin(basic) <=> fin
    OBVIOUS
  <2> QED
    BY <1>3, <2>1, <2>2, <2>3
<1>7. IF consumeError' = 0 /\ missing = 0 /\ ~fin
      THEN procState' = "HEADER_BASIC" /\ bytesNeeded' = 2
           /\ basic' = <<>> /\ ext' = <<>>
      ELSE /\ procState' = IF consumeError' = 0 /\ missing = 0 THEN "READY" ELSE procState
           /\ bytesNeeded' = missing
           /\ basic' = basic /\ ext' = ext
  <2>1. CASE consumeError' = 0 /\ missing = 0 /\ ~fin
    BY <1>4, <2>1 DEF ResetHeaders
  <2>2. CASE ~(consumeError' = 0 /\ missing = 0 /\ ~fin)
    BY <1>4, <2>2
  <2> QED
    BY <2>1, <2>2
<1> QED
  BY <1>1, <1>5, <1>6, <1>7, Zenon DEF Makes

\* The bits of a header are Booleans.
LEMMA FinTyped == ASSUME NEW h PROVE Fin(h) \in BOOLEAN /\ IsControl(Opcode(h)) \in BOOLEAN
BY DEF Fin, IsControl

\* A piece that has come whole makes room for the next header.
Reset(i, f) ==
    /\ i < Len(frames) /\ FaultOf(i + 1) = 0 /\ ~Frames!Control(f) /\ ~f.fin
    /\ StandsBehind(i + 1)' /\ OnCourse(i + 1)'

LEMMA HeaderBegins ==
    ASSUME Given, ServerStill, WireTypeOK, NEW i, StandsBehind(i + 1)',
           i \in 0..Len(frames) - 1,
           procState' = "HEADER_BASIC", bytesNeeded' = 2, basic' = <<>>, ext' = <<>>,
           p' = EndOf(i + 1), EndOf(i + 1) <= Len(input),
           dataMsg' = DataOf(Frames!OpenPieces(i + 1))
    PROVE  InHeader(i + 1)'
<1>1. PICK e1 : e1 = EndOf(i + 1)
  OBVIOUS
<1>2. /\ EndOf(i + 1)' = e1 /\ Frames!OpenPieces(i + 1)' = Frames!OpenPieces(i + 1)
      /\ input' = input
  BY <1>1, GivenStays DEF ServerStill
<1>3. e1 \in Nat
  <2>1. i + 1 \in 0..Len(frames)
    BY EndsGrow DEF Given, InputIs
  <2> QED
    BY <1>1, <2>1, EndsGrow DEF Given, InputIs
<1>4. p' = e1 /\ p' < e1 + 2 /\ bytesNeeded' = e1 + 2 - p'
  BY <1>1, <1>3
<1>5. basic' = SubSeq(input', e1 + 1, p')
  <2>1. input \in Seq(Nat)
    BY DEF WireTypeOK
  <2>2. SubSeq(input, e1 + 1, e1) = <<>>
    BY <1>1, <1>3, <2>1, InputParts
  <2> QED
    BY <1>2, <1>4, <2>2
<1> QED
  BY <1>2, <1>4, <1>5, Zenon DEF InHeader

\* A turn in the payload: more of it, a whole message, a whole piece or an error.
LEMMA ApplicationTurnKeeps ==
    ASSUME Given, ServerStill, WireTypeOK, ProcTypeOK, NEW i, StandsBehind(i),
           consumeError = 0, InPayload(i), dataMsg # <<>> => dataMsg[1].utf8 # Reject,
           ApplicationTurn(Rest), p' = p + Len(Taken(Rest))
    PROVE  (StandsBehind(i)' /\ OnCourse(i)') \/ Reset(i, frames[i + 1])
<1>1. i \in 0..Len(frames) - 1
  <2>1. i \in 0..Len(frames) /\ Len(frames) \in Nat /\ i < Len(frames)
    BY EndsGrow DEF StandsBehind, Given, InputIs, InPayload
  <2> QED
    BY <2>1
<1>2. PICK e, e1, f, h, l, open : InFront(i, e, e1, f, h, l, open)
  BY <1>1, FrameIsAhead
<1>3. /\ e = EndOf(i) /\ e1 = EndOf(i + 1) /\ f = frames[i + 1] /\ h = HeaderLen(f)
      /\ open = Frames!OpenPieces(i) /\ l = Len(f.payload)
  BY <1>2, Zenon DEF InFront
<1>4. /\ i \in Nat /\ i < Len(frames) /\ e \in Nat /\ h \in Nat /\ h >= 2
      /\ l \in Nat /\ e1 = e + h + l /\ e1 <= Len(input)
  BY <1>2, Zenon DEF InFront
<1>5. f \in WireFrame /\ FaultOf(i + 1) = Frames!Fault(f, open) /\ open \in Seq(Piece)
  BY <1>2, Zenon DEF InFront
<1>6. PICK t0, t : t0 = p - (e + h) /\ t = p' - (e + h)
  OBVIOUS
<1>7. basic = SubSeq(input, e + 1, e + 2) /\ Inside(i, e, f, h, open, t0)
  BY <1>3, <1>6, InsideIs
<1>8. InsideOf(e1, f, h, l, t0, t)
  BY <1>1, <1>2, <1>6, PayloadTurn
<1>9. HeaderRead(e, f, h)
  BY <1>1, <1>2, <1>7, HeaderIs
<1>10. /\ basic # <<>> /\ Opcode(basic) = f.op /\ (Fin(basic) <=> f.fin)
       /\ IsControl(Opcode(basic)) <=> Frames!Control(f)
       /\ f.fin \in BOOLEAN
  BY <1>9, Zenon DEF HeaderRead
<1>11. PICK control : control = IsControl(Opcode(basic))
  OBVIOUS
<1>12. PICK msg : msg = WithBytes(IF control THEN controlMsg ELSE dataMsg, Taken(Rest))
  OBVIOUS
<1>13. PICK missing : missing = bytesNeeded - Len(Taken(Rest))
  OBVIOUS
<1>14. PICK fin \in BOOLEAN : fin = Fin(basic)
  BY FinTyped
<1>15. PICK op : op = Opcode(basic)
  OBVIOUS
<1>16. /\ IF control THEN controlMsg' = msg /\ dataMsg' = dataMsg
          ELSE dataMsg' = msg /\ controlMsg' = controlMsg
       /\ consumeError' = IF \/ msg[1].utf8 = Reject
                             \/ missing = 0 /\ fin /\ op = TEXT /\ msg[1].utf8 # Accept
                          THEN 1007 ELSE 0
       /\ IF consumeError' = 0 /\ missing = 0 /\ ~fin
          THEN procState' = "HEADER_BASIC" /\ bytesNeeded' = 2
               /\ basic' = <<>> /\ ext' = <<>>
          ELSE /\ procState' = IF consumeError' = 0 /\ missing = 0 THEN "READY" ELSE procState
               /\ bytesNeeded' = missing
               /\ basic' = basic /\ ext' = ext
  <2>1. Makes(control, msg, missing, fin, op)
    BY <1>11, <1>12, <1>13, <1>14, <1>15, TurnMakes
  <2> QED
    BY <2>1, Zenon DEF Makes
<1>17. /\ t0 \in Nat /\ t \in Nat /\ t0 <= t /\ t <= l /\ p' \in Nat /\ p' <= e1
       /\ missing = f.size - t
       /\ Taken(Rest) = SubSeq(f.payload, t0 + 1, t)
       /\ t = f.size => Whole(f) /\ t = l /\ p' = e1
  BY <1>8, <1>13, Zenon DEF InsideOf
<1>18. control <=> Frames!Control(f)
  BY <1>10, <1>11, Zenon
<1>19. fin <=> f.fin
  BY <1>10, <1>14, Zenon
<1>20. op = f.op
  BY <1>10, <1>15, Zenon
<1>21. f.size \in Nat
  BY <1>5 DEF WireFrame
<1>22. missing = 0 <=> t = f.size
  BY <1>17, <1>21
<1>23. /\ procState = "APPLICATION"
       /\ ~Frames!Malformed(f, open) /\ ~Frames!Wasteful(f) /\ ~Frames!TooLong(f, open)
       /\ IF Frames!Control(f)
          THEN controlMsg = MessageOf(f.op, SubSeq(f.payload, 1, t0)) /\ dataMsg = DataOf(open)
          ELSE dataMsg = MessageOf(KindOf(f, open), TextUpTo(f, open, t0))
  <2>1. procState = "APPLICATION"
    BY DEF ApplicationTurn
  <2> QED
    BY <1>7, <2>1, Zenon DEF Inside
<1>24. msg = IF Frames!Control(f) THEN MessageOf(f.op, SubSeq(f.payload, 1, t))
             ELSE MessageOf(KindOf(f, open), TextUpTo(f, open, t))
  <2>1. /\ WithBytes(MessageOf(f.op, SubSeq(f.payload, 1, t0)), Taken(Rest))
             = MessageOf(f.op, SubSeq(f.payload, 1, t))
        /\ WithBytes(MessageOf(KindOf(f, open), TextUpTo(f, open, t0)), Taken(Rest))
             = MessageOf(KindOf(f, open), TextUpTo(f, open, t))
    BY <1>3, <1>5, <1>17, PayloadMessage
  <2> QED
    BY <1>12, <1>18, <1>23, <2>1, Zenon
<1>25. /\ EndOf(i)' = e /\ Frames!OpenPieces(i)' = open /\ frames' = frames
       /\ input' = input /\ FaultOf(i + 1)' = FaultOf(i + 1) /\ HeaderLen(f)' = h
       /\ frames[i + 1]' = f
  BY <1>3, GivenStays DEF ServerStill
<1>26. /\ Frames!Fault(f, open) = IF Frames!BadText(f, open) THEN 1007 ELSE 0
       /\ Frames!Control(f) => ~Frames!BadText(f, open) /\ f.fin /\ f.op # TEXT
  BY <1>23, FaultIs
<1>27. ASSUME basic' = basic, OnCourse(i)'
       PROVE  StandsBehind(i)' /\ OnCourse(i)'
  <2>1. basic' # <<>>
    BY <1>10, <1>27
  <2>2. EndOf(i) < p' /\ p' <= EndOf(i + 1)
    <3>1. p' = e + h + t
      <4>1. t = p' - (e + h) /\ p' \in Nat /\ e \in Nat /\ h \in Nat
        BY <1>4, <1>6, <1>17
      <4> QED
        BY <4>1
    <3>2. e < e + h + t
      BY <1>4, <1>17
    <3> QED
      BY <1>3, <1>17, <3>1, <3>2
  <2>3. StandsBehind(i)'
    BY <1>4, <1>17, <2>1, <2>2, StandsStill
  <2> QED
    BY <1>27, <2>3
<1>28. ASSUME basic' = basic, bytesNeeded' = missing, consumeError' = 0,
              IF Frames!Control(f)
              THEN controlMsg' = MessageOf(f.op, SubSeq(f.payload, 1, t)) /\ dataMsg' = dataMsg
              ELSE dataMsg' = MessageOf(KindOf(f, open), TextUpTo(f, open, t)),
              \/ procState' = "APPLICATION"
              \/ procState' = "READY" /\ missing = 0 /\ f.fin /\ FaultOf(i + 1) = 0,
              dataMsg' # <<>> => dataMsg'[1].utf8 # Reject
       PROVE  StandsBehind(i)' /\ OnCourse(i)'
  <2>1. t >= 0 /\ bytesNeeded' = f.size - t
    BY <1>17, <1>28
  <2>2. procState' = "READY" => bytesNeeded' = 0 /\ f.fin /\ FaultOf(i + 1)' = 0
    BY <1>25, <1>28
  <2>3. Inside(i, e, f, h, open, t)'
    BY <1>23, <1>28, <2>1, <2>2, Zenon DEF Inside
  <2>4. InPayload(i)'
    <3>1. /\ (e = EndOf(i))' /\ (f = frames[i + 1])' /\ (h = HeaderLen(f))'
          /\ (open = Frames!OpenPieces(i))'
      BY <1>25
    <3>2. (i < Len(frames))' /\ (basic = SubSeq(input, e + 1, e + 2))'
      BY <1>4, <1>7, <1>25, <1>28
    <3> QED
      BY <1>6, <2>3, <3>1, <3>2, Zenon DEF InPayload, Inside, KindOf, TextUpTo
  <2>5. OnCourse(i)'
    BY <1>28, <2>4, Zenon DEF OnCourse
  <2> QED
    BY <1>27, <1>28, <2>5
<1>29. CASE Frames!Control(f)
  <2>1. controlMsg' = msg /\ dataMsg' = dataMsg /\ f.fin /\ op # TEXT
    BY <1>16, <1>18, <1>20, <1>26, <1>29, Zenon
  <2>2. msg[1].utf8 # Reject
    <3>1. msg = MessageOf(f.op, SubSeq(f.payload, 1, t))
      BY <1>24, <1>29
    <3> QED
      BY <1>20, <2>1, <3>1 DEF MessageOf, Accept, Reject
  <2>3. consumeError' = 0
    BY <1>16, <2>1, <2>2
  <2>4. /\ procState' = IF missing = 0 THEN "READY" ELSE procState
        /\ bytesNeeded' = missing /\ basic' = basic
    BY <1>16, <1>19, <2>1, <2>3, Zenon
  <2>5. FaultOf(i + 1) = 0
    BY <1>5, <1>26, <1>29
  <2>6. \/ procState' = "APPLICATION"
        \/ procState' = "READY" /\ missing = 0 /\ f.fin /\ FaultOf(i + 1) = 0
    BY <1>23, <2>1, <2>4, <2>5
  <2>7. dataMsg' # <<>> => dataMsg'[1].utf8 # Reject
    BY <2>1
  <2>8. controlMsg' = MessageOf(f.op, SubSeq(f.payload, 1, t))
    BY <1>24, <1>29, <2>1
  <2> QED
    BY <1>28, <1>29, <2>1, <2>3, <2>4, <2>6, <2>7, <2>8, Zenon
<1>30. CASE ~Frames!Control(f)
  <2>1. dataMsg' = msg /\ msg = MessageOf(KindOf(f, open), TextUpTo(f, open, t))
    BY <1>16, <1>18, <1>24, <1>30, Zenon
  <2>2. PICK u : u = StateUpTo(f, open, t)
    OBVIOUS
  <2>3. msg[1].utf8 = u
    BY <2>1, <2>2, Zenon DEF StateUpTo
  <2>4. /\ u = Reject => Frames!BadText(f, open)
        /\ t = l /\ f.fin /\ f.op = TEXT /\ u # Accept => Frames!BadText(f, open)
        /\ t = l /\ u # Reject /\ ~(f.fin /\ f.op = TEXT /\ u # Accept)
             => ~Frames!BadText(f, open)
    BY <1>3, <1>5, <1>17, <1>23, <1>30, <2>2, PayloadJudged
  <2>5. consumeError' = IF u = Reject \/ (missing = 0 /\ f.fin /\ f.op = TEXT /\ u # Accept)
                        THEN 1007 ELSE 0
    <3>1. consumeError' = IF \/ msg[1].utf8 = Reject
                             \/ missing = 0 /\ fin /\ op = TEXT /\ msg[1].utf8 # Accept
                          THEN 1007 ELSE 0
      BY <1>16
    <3> QED
      BY <1>19, <1>20, <2>3, <3>1
  <2>6. missing = 0 => t = l /\ p' = e1 /\ Whole(f)
    BY <1>17, <1>22
  <2>7. CASE u = Reject \/ (missing = 0 /\ f.fin /\ f.op = TEXT /\ u # Accept)
    <3>1. consumeError' = 1007 /\ basic' = basic /\ procState' = "APPLICATION"
      BY <1>16, <1>23, <2>5, <2>7
    <3>2. FaultOf(i + 1) = 1007
      BY <1>5, <1>26, <2>4, <2>6, <2>7, Zenon
    <3>3. OnCourse(i)'
      BY <1>4, <1>25, <3>1, <3>2 DEF OnCourse, HasFailed
    <3> QED
      BY <1>27, <3>1, <3>3
  <2>8. CASE ~(u = Reject \/ (missing = 0 /\ f.fin /\ f.op = TEXT /\ u # Accept))
    <3>1. consumeError' = 0
      BY <2>5, <2>8
    <3>2. missing = 0 => FaultOf(i + 1) = 0
      BY <1>5, <1>26, <2>4, <2>6, <2>8, Zenon
    <3>3. dataMsg' # <<>> => dataMsg'[1].utf8 # Reject
      BY <2>1, <2>3, <2>8
    <3>4. CASE missing = 0 /\ ~f.fin
      <4>1. /\ procState' = "HEADER_BASIC" /\ bytesNeeded' = 2 /\ basic' = <<>>
            /\ ext' = <<>>
        BY <1>16, <1>19, <3>1, <3>4, Zenon
      <4>2. p' = EndOf(i + 1) /\ Whole(frames[i + 1])
        BY <1>3, <2>6, <3>4
      <4>3. StandsBehind(i + 1)'
        BY <1>4, <4>1, <4>2, StandsOn
      <4>4. dataMsg' = DataOf(Frames!OpenPieces(i + 1))
        <5>1. Frames!OpenPieces(i + 1) = Append(open, f)
          BY <1>1, <1>3, <1>30, <3>4, PiecesRun DEF Given, InputIs
        <5>2. TextUpTo(f, open, t) = Frames!Payload(Append(open, f))
          <6>1. TextUpTo(f, open, l) = Frames!Payload(Append(open, f))
            BY <1>3, <1>5, WholeText
          <6> QED
            BY <2>6, <3>4, <6>1
        <5>3. Append(open, f) # <<>>
          BY <1>5
        <5>4. DataOf(Append(open, f))
                = MessageOf(Append(open, f)[1].op, Frames!Payload(Append(open, f)))
          BY <5>3, Zenon DEF DataOf
        <5> QED
          BY <2>1, <5>1, <5>2, <5>4, Zenon DEF KindOf
      <4>5. InHeader(i + 1)'
        BY <1>1, <1>3, <1>4, <4>1, <4>2, <4>3, <4>4, HeaderBegins
      <4>6. OnCourse(i + 1)'
        BY <3>1, <3>3, <4>5, Zenon DEF OnCourse
      <4> QED
        BY <1>3, <1>4, <1>30, <3>2, <3>4, <4>3, <4>6, Zenon DEF Reset
    <3>5. CASE ~(missing = 0 /\ ~f.fin)
      <4>1. /\ procState' = IF missing = 0 THEN "READY" ELSE procState
            /\ bytesNeeded' = missing /\ basic' = basic
        BY <1>16, <1>19, <3>1, <3>5, Zenon
      <4>2. \/ procState' = "APPLICATION"
            \/ procState' = "READY" /\ missing = 0 /\ f.fin /\ FaultOf(i + 1) = 0
        BY <1>23, <3>2, <3>5, <4>1
      <4> QED
        BY <1>28, <1>30, <2>1, <3>1, <3>3, <4>1, <4>2, Zenon
    <3> QED
      BY <3>4, <3>5
  <2> QED
    BY <2>7, <2>8
<1> QED
  BY <1>29, <1>30

-----------------------------------------------------------------------------
(* The invariant.                                                          *)

\* What HandledIs says of the state before a step and behind it.
LEMMA HandledNow ==
    \A i : Given /\ StandsBehind(i) /\ p \in Nat => HandledFrames = i
BY HandledIs

LEMMA HandledThen ==
    \A i : Given' /\ StandsBehind(i)' /\ p' \in Nat => HandledFrames' = i
<1>1. (\A i : Given /\ StandsBehind(i) /\ p \in Nat => HandledFrames = i)'
  BY HandledNow, PTL
<1> QED
  BY <1>1

\* A turn of the processor leaves it on its course, in the frame it is in or
\* behind it.
LEMMA FrameTurnKeeps ==
    ASSUME Given, WireTypeOK, ProcTypeOK, NEW i, StandsBehind(i), OnCourse(i), FrameTurn
    PROVE  (StandsBehind(i)' /\ OnCourse(i)') \/ Reset(i, frames[i + 1])
<1>1. ServerStill /\ p' = p + Len(Taken(Rest))
  BY DEF FrameTurn, ServerStill, serverVars
<1>2. CASE HeaderBasicTurn(Rest)
  <2>1. procState = "HEADER_BASIC" /\ consumeError = 0
    BY <1>2 DEF HeaderBasicTurn, Turns
  <2>2. InHeader(i) /\ (dataMsg # <<>> => dataMsg[1].utf8 # Reject)
    BY <2>1 DEF OnCourse, InExtendedHeader, InPayload
  <2> QED
    BY <1>1, <1>2, <2>1, <2>2, BasicTurnKeeps
<1>3. CASE HeaderExtendedTurn(Rest)
  <2>1. procState = "HEADER_EXTENDED" /\ consumeError = 0
    BY <1>3 DEF HeaderExtendedTurn, Turns
  <2>2. InExtendedHeader(i) /\ (dataMsg # <<>> => dataMsg[1].utf8 # Reject)
    BY <2>1 DEF OnCourse, InHeader, InPayload
  <2> QED
    BY <1>1, <1>3, <2>1, <2>2, ExtendedTurnKeeps
<1>4. CASE ApplicationTurn(Rest)
  <2>1. procState = "APPLICATION" /\ consumeError = 0
    BY <1>4 DEF ApplicationTurn, Turns
  <2>2. InPayload(i) /\ (dataMsg # <<>> => dataMsg[1].utf8 # Reject)
    BY <2>1 DEF OnCourse, InHeader, InExtendedHeader
  <2> QED
    BY <1>1, <1>4, <2>1, <2>2, ApplicationTurnKeeps
<1> QED
  BY <1>2, <1>3, <1>4 DEF FrameTurn

\* What is ready when the processor says so: the whole frame i + 1.
WholeReady(i, f, open) ==
    /\ i < Len(frames) /\ f = frames[i + 1] /\ open = Frames!OpenPieces(i)
    /\ f \in WireFrame /\ open \in Seq(Piece) /\ SizeFits(f) /\ Whole(f)
    /\ FaultOf(i + 1) = 0 /\ Frames!Fault(f, open) = 0 /\ f.fin
    /\ IsControl(ReadyMessage.op) <=> Frames!Control(f)
    /\ ReadyMessage.op = IF Frames!Control(f) THEN f.op ELSE Append(open, f)[1].op
    /\ ReadyMessage.payload = IF Frames!Control(f) THEN f.payload
                              ELSE Frames!Payload(Append(open, f))

LEMMA ReadyIs ==
    ASSUME Given, WireTypeOK, NEW i, StandsBehind(i), OnCourse(i), procState = "READY"
    PROVE  /\ i \in 0..Len(frames) - 1 /\ p = EndOf(i + 1)
           /\ consumeError = 0
           /\ Frames!Control(frames[i + 1]) => dataMsg = DataOf(Frames!OpenPieces(i))
           /\ dataMsg # <<>> => dataMsg[1].utf8 # Reject
           /\ IsControl(Opcode(basic)) <=> Frames!Control(frames[i + 1])
           /\ WholeReady(i, frames[i + 1], Frames!OpenPieces(i))
<1>1. consumeError = 0 /\ InPayload(i) /\ (dataMsg # <<>> => dataMsg[1].utf8 # Reject)
  BY DEF OnCourse, HasFailed, InHeader, InExtendedHeader
<1>2. i \in 0..Len(frames) - 1
  <2>1. i \in 0..Len(frames) /\ Len(frames) \in Nat /\ i < Len(frames)
    BY <1>1, EndsGrow DEF StandsBehind, Given, InputIs, InPayload
  <2> QED
    BY <2>1
<1>3. PICK e, e1, f, h, l, open : InFront(i, e, e1, f, h, l, open)
  BY <1>2, FrameIsAhead
<1>4. /\ e = EndOf(i) /\ e1 = EndOf(i + 1) /\ f = frames[i + 1] /\ h = HeaderLen(f)
      /\ open = Frames!OpenPieces(i) /\ l = Len(f.payload)
  BY <1>3, Zenon DEF InFront
<1>5. /\ i \in Nat /\ i < Len(frames) /\ e \in Nat /\ h \in Nat
      /\ l \in Nat /\ e1 = e + h + l /\ i + 1 \in DOMAIN frames
  BY <1>3, Zenon DEF InFront
<1>6. /\ f \in WireFrame /\ FaultOf(i + 1) = Frames!Fault(f, open)
      /\ open \in Seq(Piece) /\ SizeFits(f)
  BY <1>3, Zenon DEF InFront
<1>7. PICK t0 : t0 = p - (e + h)
  OBVIOUS
<1>8. basic = SubSeq(input, e + 1, e + 2) /\ Inside(i, e, f, h, open, t0)
  BY <1>1, <1>4, <1>7, InsideIs
<1>9. HeaderRead(e, f, h)
  BY <1>2, <1>3, <1>8, HeaderIs
<1>10. /\ IsControl(Opcode(basic)) <=> Frames!Control(f)
       /\ f.size \in Nat /\ f.payload \in Seq(Byte)
  BY <1>9, Zenon DEF HeaderRead
<1>11. /\ bytesNeeded = 0 /\ bytesNeeded = f.size - t0 /\ t0 >= 0 /\ f.fin
       /\ FaultOf(i + 1) = 0
       /\ IF Frames!Control(f)
          THEN controlMsg = MessageOf(f.op, SubSeq(f.payload, 1, t0)) /\ dataMsg = DataOf(open)
          ELSE dataMsg = MessageOf(KindOf(f, open), TextUpTo(f, open, t0))
  BY <1>8, Zenon DEF Inside
<1>12. p \in Nat /\ p <= e1
  <2>1. i # Len(frames)
    BY <1>5
  <2>2. p <= EndOf(i + 1)
    BY <2>1, Zenon DEF StandsBehind
  <2> QED
    BY <1>4, <2>2 DEF WireTypeOK
<1>13. t0 \in Nat /\ t0 <= l
  <2>1. p = e + h + t0 /\ t0 \in Nat
    BY <1>5, <1>7, <1>11, <1>12
  <2>2. e + h + t0 <= e + h + l
    BY <1>5, <1>12, <2>1
  <2> QED
    BY <1>5, <2>1, <2>2
<1>14. t0 = f.size
  BY <1>10, <1>11, <1>13
<1>15. Whole(f)
  <2>1. Whole(f) \/ f.payload = <<>>
    BY <1>4, <1>5 DEF Given, FramesFit
  <2>2. f.payload = <<>> => l = 0
    BY <1>4
  <2>3. l = 0 => t0 = l
    BY <1>13
  <2> QED
    BY <1>4, <1>14, <2>1, <2>2, <2>3 DEF Whole
<1>16. t0 = l
  BY <1>4, <1>14, <1>15 DEF Whole
<1>17. p = e1
  BY <1>5, <1>7, <1>12, <1>16
<1>18. SubSeq(f.payload, 1, t0) = f.payload
  BY <1>4, <1>10, <1>16, PartsNone
<1>19. TextUpTo(f, open, t0) = Frames!Payload(Append(open, f))
  BY <1>4, <1>6, <1>16, WholeText
<1>20. /\ Frames!Payload(Append(open, f)) \in Seq(Byte)
       /\ Append(open, f)[1] = IF open = <<>> THEN f ELSE open[1]
       /\ open # <<>> => open[1] \in Piece
  <2>1. Append(open, f)[1] = IF open = <<>> THEN f ELSE open[1]
    BY <1>6, PayloadGrows
  <2>2. open # <<>> => open[1] \in Piece
    BY <1>6, PayloadGrows
  <2>3. TextUpTo(f, open, t0) \in Seq(Byte)
    BY <1>4, <1>6, <1>13, TextUpToIs, Zenon
  <2> QED
    BY <1>19, <2>1, <2>2, <2>3
<1>21. <<>> \in Seq(Byte)
  OBVIOUS
<1>22. CASE Frames!Control(f)
  <2>1. ReadyMessage = MessageOf(f.op, f.payload)[1]
    BY <1>10, <1>11, <1>18, <1>22, Zenon DEF ReadyMessage
  <2>2. ReadyMessage.op = f.op /\ ReadyMessage.payload = f.payload
    BY <1>10, <1>21, <2>1, MessageGrows
  <2>3. IsControl(ReadyMessage.op)
    BY <1>22, <2>2 DEF Frames!Control, IsControl
  <2>4. WholeReady(i, f, open)
    BY <1>4, <1>5, <1>6, <1>11, <1>15, <1>22, <2>2, <2>3, Zenon DEF WholeReady
  <2> QED
    BY <1>1, <1>2, <1>4, <1>10, <1>11, <1>17, <2>4, Zenon
<1>23. CASE ~Frames!Control(f)
  <2>1. ReadyMessage = MessageOf(KindOf(f, open), Frames!Payload(Append(open, f)))[1]
    BY <1>10, <1>11, <1>19, <1>23, Zenon DEF ReadyMessage
  <2>2. PICK k, y : k = KindOf(f, open) /\ y = Frames!Payload(Append(open, f))
    OBVIOUS
  <2>3. y \in Seq(Byte)
    BY <1>20, <2>2
  <2>4. ReadyMessage.op = k /\ ReadyMessage.payload = y
    BY <1>21, <2>1, <2>2, <2>3, MessageGrows
  <2>5. ~IsControl(k)
    <3>1. k = IF open = <<>> THEN f.op ELSE open[1].op
      BY <1>20, <2>2 DEF KindOf
    <3> QED
      BY <1>20, <1>23, <3>1 DEF Frames!Control, IsControl, Piece
  <2>6. WholeReady(i, f, open)
    BY <1>4, <1>5, <1>6, <1>11, <1>15, <1>23, <2>2, <2>4, <2>5, Zenon
       DEF WholeReady, KindOf
  <2> QED
    BY <1>1, <1>2, <1>4, <1>10, <1>17, <1>23, <2>6, Zenon
<1> QED
  BY <1>22, <1>23

\* Taking the message leaves the processor in front of the next frame.
LEMMA DispatchKeeps ==
    ASSUME Given, WireTypeOK, NEW i, StandsBehind(i), OnCourse(i), Dispatch
    PROVE  StandsBehind(i + 1)' /\ OnCourse(i + 1)'
<1>1. /\ ServerStill /\ p' = p /\ GetMessage
  BY DEF Dispatch, ServerStill, serverVars
<1>2. /\ procState = "READY" /\ consumeError' = consumeError
      /\ procState' = "HEADER_BASIC" /\ bytesNeeded' = 2 /\ basic' = <<>> /\ ext' = <<>>
      /\ IF IsControl(Opcode(basic)) THEN dataMsg' = dataMsg ELSE dataMsg' = <<>>
  BY <1>1 DEF GetMessage, ResetHeaders
<1>3. PICK f, open : f = frames[i + 1] /\ open = Frames!OpenPieces(i)
  OBVIOUS
<1>4. /\ i \in 0..Len(frames) - 1 /\ p = EndOf(i + 1)
      /\ consumeError = 0
      /\ Frames!Control(f) => dataMsg = DataOf(open)
      /\ dataMsg # <<>> => dataMsg[1].utf8 # Reject
      /\ IsControl(Opcode(basic)) <=> Frames!Control(f)
      /\ WholeReady(i, f, open)
  BY <1>2, <1>3, ReadyIs
<1>5. i < Len(frames) /\ Whole(f) /\ f.fin
  BY <1>4, Zenon DEF WholeReady
<1>6. StandsBehind(i + 1)'
  BY <1>1, <1>2, <1>3, <1>4, <1>5, StandsOn
<1>7. EndOf(i + 1) <= Len(input)
  BY <1>4 DEF WireTypeOK
<1>8. Frames!OpenPieces(i + 1) = IF Frames!Control(f) THEN open ELSE <<>>
  BY <1>3, <1>4, <1>5, PiecesRun DEF Given, InputIs
<1>9. dataMsg' = DataOf(Frames!OpenPieces(i + 1))
  <2>1. DataOf(<<>>) = <<>>
    BY DEF DataOf
  <2> QED
    BY <1>2, <1>4, <1>8, <2>1
<1>10. dataMsg' # <<>> => dataMsg'[1].utf8 # Reject
  BY <1>2, <1>4
<1>11. p' = EndOf(i + 1)
  BY <1>1, <1>4
<1>12. InHeader(i + 1)'
  BY <1>1, <1>2, <1>4, <1>6, <1>7, <1>9, <1>11, HeaderBegins
<1> QED
  BY <1>2, <1>4, <1>6, <1>10, <1>12, Zenon DEF OnCourse

\* FrameInv holds the hypotheses on the server.
LEMMA FrameInvGiven == FrameInv /\ WireTypeOK => Given
BY DEF FrameInv, WireTypeOK, Given, InputIs

\* As long as the processor stands still so does what is said of it.
LEMMA PositionStays ==
    ASSUME Given, ServerStill, p' = p, procVars' = procVars, NEW i
    PROVE  /\ StandsBehind(i) => StandsBehind(i)'
           /\ OnCourse(i) => OnCourse(i)'
<1>1. /\ \A n : EndOf(n)' = EndOf(n)
      /\ \A n : Frames!OpenPieces(n)' = Frames!OpenPieces(n)
      /\ \A n : FaultOf(n)' = FaultOf(n)
      /\ frames' = frames /\ input' = input
  BY GivenStays DEF ServerStill
<1>2. /\ procState' = procState /\ bytesNeeded' = bytesNeeded /\ basic' = basic
      /\ ext' = ext
      /\ dataMsg' = dataMsg /\ controlMsg' = controlMsg /\ consumeError' = consumeError
  BY DEF procVars
<1>3. StandsBehind(i) => StandsBehind(i)'
  BY <1>1, <1>2, Zenon DEF StandsBehind
<1>4. InHeader(i) => InHeader(i)'
  BY <1>1, <1>2, Zenon DEF InHeader
<1>5. InExtendedHeader(i) => InExtendedHeader(i)'
  BY <1>1, <1>2, Zenon DEF InExtendedHeader
<1>6. InPayload(i) => InPayload(i)'
  BY <1>1, <1>2, Zenon DEF InPayload
<1>7. HasFailed(i) => HasFailed(i)'
  BY <1>1, <1>2, Zenon DEF HasFailed
<1>8. OnCourse(i) => OnCourse(i)'
  BY <1>2, <1>4, <1>5, <1>6, <1>7, Zenon DEF OnCourse
<1> QED
  BY <1>3, <1>8

\* What the server sends and the program calls is as before.
LEMMA InvStays ==
    ASSUME FrameInv, Given, ServerStill, program' = program,
           IF link' = "connecting" THEN NotBegun' ELSE (sent' = <<>> /\ link' = "closed") \/ InStep'
    PROVE  FrameInv'
<1>1. Given'
  BY GivenStays DEF ServerStill
<1>2. program' \in Seq(Range(program')) /\ ProgramFits'
  <2>1. program' \in Seq(Range(program')) /\ ProgramFits
    BY DEF FrameInv
  <2>2. ProgramFits'
    BY <2>1, Zenon DEF ProgramFits
  <2> QED
    BY <2>1, <2>2
<1> QED
  BY <1>1, <1>2, Zenon DEF FrameInv, Given, InputIs

\* While the answer is read no frame is begun.
LEMMA ResponseKeepsNotBegun ==
    ASSUME HandshakeInv, HandshakeInv', Given, NotBegun, ReadResponse
    PROVE  NotBegun'
<1>1. /\ answer' = answer /\ frames' = frames /\ frameEnds' = frameEnds
      /\ input' = input
      /\ procState' = procState /\ bytesNeeded' = bytesNeeded /\ basic' = basic /\ ext' = ext
      /\ dataMsg' = dataMsg /\ delivered' = delivered /\ sent' = sent /\ lim' = lim
  BY DEF ReadResponse, HttpTurn, procVars
<1>2. PICK a : a = EndOf(0)
  OBVIOUS
<1>3. EndOf(0)' = a
  BY <1>1, <1>2, GivenStays
<1>4. PICK n, k : n = Len(answer) /\ k = Len(lines)
  OBVIOUS
<1>5. /\ n \in Nat /\ k \in Nat /\ k <= n /\ lim \in Nat /\ p \in Nat
      /\ ~HeadersReady
  BY <1>4, TurnBegins
<1>6. a = 3 * n + 2 /\ a = Len(AnswerBytes(answer))
  <2>1. EndOf(0) = Len(AnswerBytes(answer))
    BY EndsGrow DEF Given, InputIs
  <2> QED
    BY <1>2, <1>4, <2>1, AnswerBytesAre DEF Given, InputIs
<1>7. p <= a
  BY <1>2 DEF NotBegun
<1>8. ASSUME p' \in Nat, p' <= a, HeadersReady' => p' = a
      PROVE  NotBegun'
  BY <1>1, <1>3, <1>8, Zenon DEF NotBegun
<1>9. ASSUME Throws PROVE NotBegun'
  <2>1. p' = p /\ httpState' = httpState
    BY <1>9 DEF Throws
  <2> QED
    BY <1>5, <1>7, <1>8, <2>1 DEF HeadersReady
<1>10. CASE OutOfBytes
  <2>1. LineEnds = {}
    BY <1>10 DEF OutOfBytes
  <2>2. lim < a
    <3>1. lim < (IF k < n THEN 3 * k + 1 ELSE 3 * k) + 2
      BY <1>4, <2>1, NextLineEnd DEF HandshakeInv
    <3> QED
      BY <1>5, <1>6, <3>1
  <2>3. Throws \/ (p' = lim /\ httpState' = httpState)
    BY <1>10 DEF OutOfBytes
  <2>4. CASE p' = lim /\ httpState' = httpState
    BY <1>5, <1>6, <1>8, <2>2, <2>4 DEF HeadersReady
  <2> QED
    BY <1>9, <2>3, <2>4
<1>11. CASE Line(Min(LineEnds))
  <2>1. Throws \/ (p' = p /\ httpState' = "HEADERS")
    BY <1>11 DEF Line
  <2>2. CASE p' = p /\ httpState' = "HEADERS"
    BY <1>5, <1>7, <1>8, <2>2 DEF HeadersReady
  <2> QED
    BY <1>9, <2>1, <2>2
<1>12. CASE BlankLine(Min(LineEnds)) /\ LineEnds # {}
  <2>1. CASE Throws
    BY <1>9, <2>1
  <2>2. CASE ~Throws
    <3>1. PICK behind : behind = lim - (Min(LineEnds) + 2)
      OBVIOUS
    <3>2. /\ httpState' \in {"BODY", "DONE"} /\ lines' = lines
          /\ p' = Min(LineEnds) + 2 + Min({ContentLength, behind})
      BY <1>12, <2>2, <3>1 DEF BlankLine
    <3>3. HeadersReady'
      BY <3>2 DEF HeadersReady
    <3>4. p' \in Nat /\ p' <= lim /\ lim <= Len(input) /\ Len(input) \in Nat /\ p' >= a
      <4>1. p' \in 0..lim' /\ lim' \in 0..Len(input')
        BY DEF HandshakeInv, WireTypeOK
      <4>2. p' >= Len(AnswerBytes(answer'))
        BY <3>3 DEF HandshakeInv, LinesTaken
      <4>3. Len(input) \in Nat
        BY DEF HandshakeInv, WireTypeOK
      <4> QED
        BY <1>1, <1>5, <1>6, <4>1, <4>2, <4>3
    <3>5. p' = a
      <4>1. CASE frames = <<>>
        <5>1. Len(input) = a
          BY <1>2, <4>1, InputHolds DEF Given
        <5> QED
          BY <1>5, <1>6, <3>4, <5>1
      <4>2. CASE frames # <<>>
        <5>1. ContentLength = 0
          <6>1. \A j \in DOMAIN lines : lines[j] # Length2
            <7>1. \A j \in DOMAIN answer : answer[j] # Length2
              BY <4>2 DEF Given, FramesFit
            <7>2. \A j \in DOMAIN lines : lines[j] = answer[j] /\ j \in DOMAIN answer
              <8>1. DOMAIN lines = 1..k /\ DOMAIN answer = 1..n
                BY <1>4 DEF HandshakeInv, LinesTaken, WireTypeOK
              <8>2. \A j \in 1..k : j \in 1..n
                BY <1>5
              <8>3. \A j \in DOMAIN lines : lines[j] = answer[j]
                BY DEF HandshakeInv, LinesTaken
              <8> QED
                BY <8>1, <8>2, <8>3, Zenon
            <7> QED
              BY <7>1, <7>2
          <6> QED
            BY <6>1, Zenon DEF ContentLength, Has
        <5>2. Min(LineEnds) + 2 = a
          <6>1. Min(LineEnds) = 3 * k
            BY <1>4, <1>12, TurnBegins DEF BlankLine
          <6>2. Min(LineEnds) = IF k < n THEN 3 * k + 1 ELSE 3 * k
            BY <1>4, <1>12, NextLineEnd DEF HandshakeInv
          <6> QED
            BY <1>5, <1>6, <6>1, <6>2
        <5>3. behind \in Int /\ p' = a + Min({0, behind})
          BY <1>5, <1>6, <3>1, <3>2, <5>1, <5>2
        <5>4. 0 <= behind
          <6>1. a <= lim
            BY <1>5, <1>6, <3>4
          <6> QED
            BY <1>5, <1>6, <3>1, <5>2, <6>1
        <5>5. Min({0, behind}) = 0
          <6>1. 0 \in {0, behind} /\ {0, behind} \subseteq Int /\ \A x \in {0, behind} : 0 <= x
            BY <5>3, <5>4
          <6> QED
            BY <6>1, MinIs
        <5> QED
          BY <1>5, <1>6, <5>3, <5>5
      <4> QED
        BY <4>1, <4>2
    <3> QED
      BY <1>5, <1>6, <1>8, <3>4, <3>5
  <2> QED
    BY <2>1, <2>2
<1> QED
  BY <1>10, <1>11, <1>12 DEF ReadResponse, HttpTurn

\* The connection opens in front of the first frame.
LEMMA OpensInStep ==
    ASSUME HandshakeInv, Given, NotBegun, Opens
    PROVE  StandsBehind(0)' /\ OnCourse(0)'
<1>1. /\ ServerStill /\ p' = p /\ procVars' = procVars /\ HeadersReady
      /\ link = "connecting"
  BY DEF Opens, ServerStill, serverVars
<1>2. p = EndOf(0) /\ EndOf(0) \in Nat /\ 0 \in 0..Len(frames) /\ Len(frames) \in Nat
  BY <1>1, EndsGrow DEF NotBegun, Given, InputIs
<1>3. StandsBehind(0)
  <2>1. 0 # Len(frames) => EndOf(0) <= EndOf(0 + 1)
    <3> SUFFICES ASSUME 0 # Len(frames) PROVE EndOf(0) <= EndOf(0 + 1)
      OBVIOUS
    <3>1. 0 + 1 \in 0..Len(frames)
      BY <1>2
    <3> QED
      BY <1>2, <3>1, EndsOrdered DEF Given, InputIs
  <2>2. basic = <<>>
    BY DEF NotBegun
  <2>3. \A j \in 1..0 : Whole(frames[j])
    OBVIOUS
  <2>4. EndOf(0) <= p
    BY <1>2
  <2> QED
    BY <1>2, <2>1, <2>2, <2>3, <2>4, Zenon DEF StandsBehind
<1>4. InHeader(0)
  <2>1. p < EndOf(0) + 2 /\ bytesNeeded = EndOf(0) + 2 - p
    BY <1>2 DEF NotBegun
  <2>2. SubSeq(input, EndOf(0) + 1, p) = <<>>
    <3>1. p \in Nat /\ p <= p /\ p <= Len(input) /\ input \in Seq(Nat)
      BY DEF HandshakeInv, WireTypeOK
    <3> QED
      BY <1>2, <3>1, InputParts
  <2>3. DataOf(Frames!OpenPieces(0)) = <<>>
    <3>1. Frames!OpenPieces(0) = <<>>
      BY PiecesRun DEF Given, InputIs
    <3> QED
      BY <3>1 DEF DataOf
  <2>4. procState = "HEADER_BASIC" /\ basic = <<>> /\ ext = <<>> /\ dataMsg = <<>>
    BY DEF NotBegun
  <2> QED
    BY <2>1, <2>2, <2>3, <2>4, Zenon DEF InHeader
<1>5. consumeError = 0
  BY <1>1 DEF HandshakeInv, ProcTypeOK
<1>6. OnCourse(0)
  BY <1>4, <1>5 DEF OnCourse, NotBegun
<1> QED
  BY <1>1, <1>3, <1>6, PositionStays

\* The invariant holds at first: no frame is begun.
LEMMA FrameInvInit == WireInit /\ Orderly => FrameInv
<1> SUFFICES ASSUME WireInit, Orderly PROVE FrameInv
  OBVIOUS
<1>1. /\ frames \in Seq(WireFrame) /\ FramesFit
      /\ program \in Seq(Range(program)) /\ ProgramFits
      /\ frameEnds = EndsOfFrames
      /\ input = AnswerBytes(answer) \o FlattenSeq([i \in DOMAIN frames |-> FrameBytes(frames[i])])
      /\ answer \in Seq(Symbols)
  BY DEF WireInit, Orderly
<1>2. link = "connecting" /\ p = 0 /\ ~HeadersReady
  BY DEF WireInit, HttpInit, HeadersReady
<1>3. p <= EndOf(0)
  BY <1>1, <1>2, EndsGrow
<1>4. NotBegun
  BY <1>2, <1>3 DEF NotBegun, WireInit, ProcInit
<1> QED
  BY <1>1, <1>2, <1>4, Zenon DEF FrameInv

\* The program has one call less to make.
LEMMA CallsStay ==
    ASSUME program \in Seq(Range(program)), ProgramFits, program # <<>>,
           program' = Tail(program)
    PROVE  program' \in Seq(Range(program')) /\ ProgramFits' /\ CallFits(Head(program))
<1>1. PICK s, t : s = program /\ t = Tail(program)
  OBVIOUS
<1>2. PICK S : S = Range(program)
  OBVIOUS
<1>3. s \in Seq(S) /\ s # <<>>
  BY <1>1, <1>2
<1>4. /\ t \in Seq(S) /\ Len(t) \in Nat /\ Len(s) \in Nat /\ Len(t) = Len(s) - 1
      /\ \A i \in 1..Len(t) : t[i] = s[i + 1]
      /\ Head(s) = s[1] /\ DOMAIN s = 1..Len(s) /\ DOMAIN t = 1..Len(t)
  BY <1>1, <1>3, HeadTailProperties
<1>5. t \in Seq(Range(t))
  BY <1>4, SeqOfRange
<1>6. \A i \in DOMAIN s : CallFits(s[i])
  BY <1>1 DEF ProgramFits
<1>7. \A i \in DOMAIN t : CallFits(t[i])
  <2> SUFFICES ASSUME NEW i \in DOMAIN t PROVE CallFits(t[i])
    OBVIOUS
  <2>1. t[i] = s[i + 1] /\ i + 1 \in DOMAIN s
    BY <1>4
  <2> QED
    BY <1>6, <2>1
<1>8. 1 \in DOMAIN s
  BY <1>3, <1>4
<1>9. ProgramFits'
  BY <1>1, <1>7, Zenon DEF ProgramFits
<1> QED
  BY <1>1, <1>4, <1>5, <1>6, <1>8, <1>9

\* Behind how many frames the processor stands.
Where(i) == StandsBehind(i) /\ (reading => OnCourse(i))

LEMMA Stands ==
    ASSUME FrameInv, WireTypeOK, link \in {"open", "closing"}
    PROVE  Given /\ \E i \in 0..Len(frames) : Where(i)
BY FrameInvGiven DEF FrameInv, InStep, Where

LEMMA InStepWhen ==
    ASSUME NEW i, Where(i)'
    PROVE  InStep'
<1>1. i \in 0..Len(frames')
  BY DEF Where, StandsBehind
<1> QED
  BY <1>1 DEF InStep, Where

\* Where each step takes the processor.
LEMMA FrameTurnMoves ==
    ASSUME HandshakeInv, FrameInv, FrameTurn
    PROVE  /\ link \in {"open", "closing"}
           /\ \E i : Where(i) /\ (Where(i)' \/ (Reset(i, frames[i + 1]) /\ Where(i + 1)'))
<1>1. link \in {"open", "closing"} /\ reading /\ reading' = reading
  BY DEF FrameTurn, HandshakeInv, WireTypeOK, linkVars
<1>2. Given /\ WireTypeOK /\ ProcTypeOK
  BY FrameInvGiven DEF HandshakeInv
<1>3. PICK i \in 0..Len(frames) : Where(i)
  BY <1>1, <1>2, Stands
<1>4. StandsBehind(i) /\ OnCourse(i)
  BY <1>1, <1>3 DEF Where
<1>5. (StandsBehind(i)' /\ OnCourse(i)') \/ Reset(i, frames[i + 1])
  BY <1>2, <1>4, FrameTurnKeeps
<1>6. Where(i)' \/ (Reset(i, frames[i + 1]) /\ Where(i + 1)')
  BY <1>5 DEF Where, Reset
<1> QED
  BY <1>1, <1>3, <1>6

LEMMA DispatchMoves ==
    ASSUME HandshakeInv, FrameInv, Dispatch
    PROVE  /\ link \in {"open", "closing"}
           /\ \E i : Where(i) /\ OnCourse(i) /\ Where(i + 1)'
<1>1. link \in {"open", "closing"} /\ reading
  BY DEF Dispatch, HandshakeInv, WireTypeOK
<1>2. Given /\ WireTypeOK /\ ProcTypeOK
  BY FrameInvGiven DEF HandshakeInv
<1>3. PICK i \in 0..Len(frames) : Where(i)
  BY <1>1, <1>2, Stands
<1>4. StandsBehind(i) /\ OnCourse(i)
  BY <1>1, <1>3 DEF Where
<1>5. StandsBehind(i + 1)' /\ OnCourse(i + 1)'
  BY <1>2, <1>4, DispatchKeeps
<1> QED
  BY <1>1, <1>3, <1>4, <1>5 DEF Where

\* Steps that leave the processor alone.
LEMMA OthersStay ==
    ASSUME HandshakeInv, FrameInv, link \in {"open", "closing"},
           UNCHANGED <<serverVars, p, procVars>>, reading' => reading
    PROVE  \E i : Where(i) /\ Where(i)'
<1>1. Given /\ WireTypeOK
  BY FrameInvGiven DEF HandshakeInv
<1>2. PICK i \in 0..Len(frames) : Where(i)
  BY <1>1, Stands
<1>3. ServerStill /\ p' = p /\ procVars' = procVars
  BY DEF serverVars, ServerStill
<1>4. Where(i)'
  BY <1>1, <1>2, <1>3, PositionStays DEF Where
<1> QED
  BY <1>2, <1>4

\* Every step keeps the invariant.
LEMMA StepKeepsFrameInv ==
    ASSUME HandshakeInv, HandshakeInv', FrameInv, [WireNext]_wireVars
    PROVE  FrameInv'
<1>1. Given /\ WireTypeOK /\ WireTypeOK' /\ LinkFollowsAnswer
  BY FrameInvGiven DEF HandshakeInv
<1>2. ASSUME ServerStill, program' = program, link \in {"open", "closing"},
             link' # "connecting", \E i : Where(i)'
      PROVE  FrameInv'
  <2>1. InStep'
    BY <1>2, InStepWhen
  <2> QED
    BY <1>1, <1>2, <2>1, InvStays
<1>3. ASSUME ServerStill, program' = program, link' = link, p' = p, procVars' = procVars,
             sent' = sent, delivered' = delivered, reading' = reading,
             httpState' = httpState
      PROVE  FrameInv'
  <2>1. CASE link = "connecting"
    <3>1. NotBegun
      BY <2>1 DEF FrameInv
    <3>2. EndOf(0)' = EndOf(0)
      BY <1>1, <1>3, GivenStays DEF ServerStill
    <3>3. NotBegun'
      BY <1>3, <3>1, <3>2 DEF NotBegun, procVars, HeadersReady
    <3> QED
      BY <1>1, <1>3, <2>1, <3>3, InvStays
  <2>2. CASE link = "closed" /\ sent = <<>>
    BY <1>1, <1>3, <2>2, InvStays
  <2>3. CASE link # "connecting" /\ ~(link = "closed" /\ sent = <<>>)
    <3>1. InStep
      BY <2>3 DEF FrameInv
    <3>2. PICK i \in 0..Len(frames) : StandsBehind(i) /\ (reading => OnCourse(i))
      BY <3>1 DEF InStep
    <3>3. Where(i)'
      BY <1>1, <1>3, <3>2, PositionStays DEF Where
    <3>4. InStep'
      BY <3>3, InStepWhen
    <3> QED
      BY <1>1, <1>3, <2>3, <3>4, InvStays
  <2> QED
    BY <2>1, <2>2, <2>3
<1>4. CASE \E n \in 1..Len(input) - lim : Read(n)
  BY <1>3, <1>4 DEF Read, ServerStill, serverVars, linkVars, httpVars
<1>5. CASE ReadResponse
  <2>1. NotBegun
    BY <1>5 DEF ReadResponse, FrameInv
  <2>2. NotBegun'
    BY <1>1, <1>5, <2>1, ResponseKeepsNotBegun
  <2>3. ServerStill /\ program' = program /\ link' = "connecting"
    BY <1>5 DEF ReadResponse, HttpTurn, ServerStill, linkVars
  <2> QED
    BY <1>1, <2>2, <2>3, InvStays
<1>6. CASE ResponseFails
  <2>1. sent = <<>>
    BY <1>6 DEF ResponseFails, FrameInv, NotBegun
  <2>2. ServerStill /\ program' = program /\ link' = "closed" /\ sent' = <<>>
    BY <1>6, <2>1 DEF ResponseFails, Terminate, ServerStill, serverVars
  <2> QED
    BY <1>1, <2>2, InvStays
<1>7. CASE Opens
  <2>1. NotBegun
    BY <1>7 DEF Opens, FrameInv
  <2>2. StandsBehind(0)' /\ OnCourse(0)'
    BY <1>1, <1>7, <2>1, OpensInStep
  <2>3. ServerStill /\ program' = program /\ link' = "open"
    BY <1>7 DEF Opens, ServerStill, serverVars
  <2>4. Where(0)'
    BY <2>2 DEF Where
  <2>5. InStep'
    BY <2>4, InStepWhen
  <2> QED
    BY <1>1, <2>3, <2>5, InvStays
<1>8. CASE FrameTurn
  <2>1. ServerStill /\ program' = program /\ link' = link
    BY <1>8 DEF FrameTurn, ServerStill, serverVars, linkVars
  <2> QED
    BY <1>2, <1>8, <2>1, FrameTurnMoves
<1>9. CASE ConsumeFails
  <2>1. /\ UNCHANGED <<serverVars, p, procVars>> /\ ServerStill /\ program' = program
        /\ consumeError # 0 /\ reading /\ reading' = FALSE
    BY <1>9 DEF ConsumeFails, ServerStill, serverVars
  <2>2. link \in {"open", "closing"}
    BY <2>1 DEF HandshakeInv, WireTypeOK, ProcTypeOK, LinkFollowsAnswer
  <2>3. link' # "connecting"
    BY <1>9 DEF ConsumeFails, SendClose
  <2>4. \E i : Where(i)'
    BY <2>1, <2>2, OthersStay
  <2> QED
    BY <1>2, <2>1, <2>2, <2>3, <2>4
<1>10. CASE Dispatch
  <2>1. ServerStill /\ program' = program
    BY <1>10 DEF Dispatch, ServerStill, serverVars
  <2>2. link' # "connecting"
    BY <1>10
       DEF Dispatch, Deliver, AnswerPing, TakePong, AnswerClose, SendClose,
         linkVars
  <2> QED
    BY <1>2, <1>10, <2>1, <2>2, DispatchMoves
<1>11. CASE Send \/ Close
  <2>1. /\ UNCHANGED <<serverVars, p, procVars>> /\ ServerStill /\ reading' = reading
        /\ link = "open" /\ link' # "connecting"
        /\ program # <<>> /\ program' = Tail(program)
    BY <1>11 DEF Send, Close, SendClose, linkVars, ServerStill, serverVars
  <2>2. \E i : Where(i)'
    BY <2>1, OthersStay
  <2>3. InStep'
    BY <2>2, InStepWhen
  <2>4. program' \in Seq(Range(program')) /\ ProgramFits'
    BY <2>1, CallsStay DEF FrameInv
  <2>5. Given'
    BY <1>1, <2>1, GivenStays DEF ServerStill
  <2> QED
    BY <2>1, <2>3, <2>4, <2>5, Zenon DEF FrameInv, Given, InputIs
<1>12. CASE UNCHANGED wireVars
  BY <1>3, <1>12 DEF wireVars, ServerStill, serverVars, linkVars, httpVars
<1> QED
  BY <1>4, <1>5, <1>6, <1>7, <1>8, <1>9, <1>10, <1>11, <1>12 DEF WireNext

\* In every state that is reached the processor stands in the frame that
\* follows those it has dealt with, and has made of its bytes what the frame
\* says; and so it is until it finds the frame's fault.
THEOREM FrameInvariance == WireSpec /\ Orderly => []FrameInv
<1>1. WireInit /\ Orderly => HandshakeInv /\ FrameInv
  BY InitHandshakeInv, FrameInvInit
<1>2. HandshakeInv /\ FrameInv /\ [WireNext]_wireVars => (HandshakeInv /\ FrameInv)'
  BY StepKeepsHandshakeInv, StepKeepsFrameInv
<1> QED
  BY <1>1, <1>2, PTL DEF WireSpec

-----------------------------------------------------------------------------
(* Waiting for the socket.                                                 *)

\* A frame whose payload has not come, and with nothing wrong in its header,
\* has no fault yet.
LEMMA NoFaultAhead ==
    ASSUME NEW f \in WireFrame, NEW open \in Seq(Piece), f.payload = <<>>,
           ~Frames!Malformed(f, open), ~Frames!Wasteful(f), ~Frames!TooLong(f, open),
           ~Frames!Control(f) => StateUpTo(f, open, 0) # Reject
    PROVE  Frames!Fault(f, open) = 0
<1>1. /\ Frames!Fault(f, open) = IF Frames!BadText(f, open) THEN 1007 ELSE 0
      /\ Frames!Control(f) => ~Frames!BadText(f, open)
  BY FaultIs
<1>2. CASE Frames!Control(f)
  BY <1>1, <1>2
<1>3. CASE ~Frames!Control(f)
  <2>1. PICK u : u = StateUpTo(f, open, 0)
    OBVIOUS
  <2>2. Len(f.payload) = 0 /\ 0 \in Nat /\ 0 <= 0
    OBVIOUS
  <2>3. u # Reject
    BY <1>3, <2>1
  <2>4. f.op = TEXT => u = Accept
    <3> SUFFICES ASSUME f.op = TEXT PROVE u = Accept
      OBVIOUS
    <3>1. open = <<>>
      BY DEF Frames!Malformed, TEXT
    <3>2. TextUpTo(f, open, 0) = <<>>
      <4>1. Frames!Payload(<<>>) = <<>>
        BY PayloadGrows
      <4>2. <<>> \in Seq(Byte)
        OBVIOUS
      <4>3. SubSeq(<<>>, 1, 0) = <<>> /\ <<>> \o <<>> = <<>>
        BY <4>2, PartsNone
      <4> QED
        BY <3>1, <4>1, <4>3, Zenon DEF TextUpTo
    <3>3. u = IF KindOf(f, open) = TEXT THEN DecodeAll(Accept, TextUpTo(f, open, 0)) ELSE Accept
      BY <2>1, <2>2, TextUpToIs, Zenon
    <3>4. DecodeAll(Accept, <<>>) = Accept
      <4>1. <<>> \in Seq(Byte) /\ SubSeq(<<>>, 1, 0) = <<>>
        BY PartsNone
      <4>2. StateAt(<<>>, 0) = Accept
        BY <4>1, StatesRun
      <4> QED
        BY <4>1, <4>2, Zenon DEF StateAt
    <3> QED
      BY <3>2, <3>3, <3>4
  <2>5. ~Frames!BadText(f, open)
    BY <1>3, <2>1, <2>2, <2>3, <2>4, PayloadJudged
  <2> QED
    BY <1>1, <2>5
<1> QED
  BY <1>2, <1>3

\* A processor that waits for bytes has not reached the end of a frame that
\* should be dealt with.
LEMMA WaitsInside ==
    ASSUME Given, WireTypeOK, NEW i, StandsBehind(i), OnCourse(i), basic # <<>>,
           consumeError = 0, ProcTypeOK, bytesNeeded # 0
    PROVE  p \notin frameEnds
<1>1. i \in 0..Len(frames) - 1
  <2>1. i \in 0..Len(frames) /\ Len(frames) \in Nat
    BY EndsGrow DEF StandsBehind, Given, InputIs
  <2>2. i # Len(frames)
    BY Zenon DEF StandsBehind
  <2> QED
    BY <2>1, <2>2
<1>2. PICK e, e1, f, h, l, open : InFront(i, e, e1, f, h, l, open)
  BY <1>1, FrameIsAhead
<1>3. /\ e = EndOf(i) /\ e1 = EndOf(i + 1) /\ f = frames[i + 1] /\ h = HeaderLen(f)
      /\ open = Frames!OpenPieces(i) /\ l = Len(f.payload)
  BY <1>2, Zenon DEF InFront
<1>4. /\ i \in Nat /\ i < Len(frames) /\ e \in Nat /\ h \in Nat /\ h >= 2
      /\ l \in Nat /\ e1 = e + h + l /\ i + 1 \in DOMAIN frames
  BY <1>2, Zenon DEF InFront
<1>5. f \in WireFrame /\ FaultOf(i + 1) = Frames!Fault(f, open) /\ open \in Seq(Piece)
  BY <1>2, Zenon DEF InFront
<1>6. p \in Nat /\ e < p /\ p <= e1
  <2>1. EndOf(i) <= p /\ p <= EndOf(i + 1) /\ p # EndOf(i)
    <3>1. i # Len(frames)
      BY <1>4
    <3> QED
      BY <3>1, Zenon DEF StandsBehind
  <2>2. p \in Nat
    BY DEF WireTypeOK
  <2> QED
    BY <1>3, <1>4, <2>1, <2>2
<1>7. SUFFICES ASSUME p \in frameEnds PROVE FALSE
  OBVIOUS
<1>8. PICK n \in DOMAIN frames : p = EndOf(n) /\ (Whole(frames[n]) \/ FaultOf(n) # 0)
  <2>1. p \in {EndOf(n) : n \in {m \in DOMAIN frames : Whole(frames[m]) \/ FaultOf(m) # 0}}
    BY <1>7, Zenon DEF Given, EndsOfFrames
  <2> QED
    BY <2>1
<1>9. n = i + 1
  <2>1. n \in 1..Len(frames) /\ Len(frames) \in Nat
    BY DEF Given, InputIs
  <2>2. /\ n \in 0..Len(frames) /\ i \in 0..Len(frames)
        /\ i + 1 \in 0..Len(frames) /\ n \in Nat
    BY <1>4, <2>1
  <2>3. CASE n <= i
    <3>1. i \in n..Len(frames)
      BY <1>4, <2>1, <2>3
    <3>2. EndOf(n) <= EndOf(i)
      BY <2>2, <3>1, EndsOrdered DEF Given, InputIs
    <3> QED
      BY <1>3, <1>4, <1>6, <1>8, <3>2
  <2>4. CASE n > i + 1
    <3>1. n \in i + 1..Len(frames) /\ i + 1 < n
      BY <1>4, <2>1, <2>4
    <3>2. EndOf(i + 1) < EndOf(n)
      BY <2>2, <3>1, EndsOrdered DEF Given, InputIs
    <3>3. e1 < p
      BY <1>3, <1>8, <3>2
    <3>4. e1 \in Nat
      BY <1>4
    <3> QED
      BY <1>6, <3>3, <3>4
  <2> QED
    BY <1>4, <2>2, <2>3, <2>4
<1>10. p = e + h + l /\ (Whole(f) \/ Frames!Fault(f, open) # 0)
  BY <1>3, <1>4, <1>5, <1>8, <1>9
<1>11. ~InHeader(i)
  <2> SUFFICES ASSUME InHeader(i) PROVE FALSE
    OBVIOUS
  <2>1. p < e + 2
    BY <1>3, Zenon DEF InHeader
  <2> QED
    BY <1>4, <1>10, <2>1
<1>12. ~InExtendedHeader(i)
  <2> SUFFICES ASSUME InExtendedHeader(i) PROVE FALSE
    OBVIOUS
  <2>1. bytesNeeded = e + h - p
    BY <1>3, Zenon DEF InExtendedHeader
  <2>2. bytesNeeded \in Nat /\ bytesNeeded # 0
    BY DEF ProcTypeOK
  <2> QED
    BY <1>4, <1>10, <2>1, <2>2
<1>13. InPayload(i) /\ (dataMsg # <<>> => dataMsg[1].utf8 # Reject)
  BY <1>11, <1>12 DEF OnCourse
<1>14. PICK t0 : t0 = p - (e + h)
  OBVIOUS
<1>15. Inside(i, e, f, h, open, t0)
  BY <1>3, <1>13, <1>14, InsideIs
<1>16. t0 = l
  BY <1>4, <1>10, <1>14
<1>17. ~Whole(f)
  <2>1. f.size \in Nat /\ bytesNeeded = f.size - t0
    BY <1>5, <1>15 DEF WireFrame, Inside
  <2> QED
    BY <1>3, <1>4, <1>16, <2>1 DEF Whole
<1>18. f.payload = <<>> /\ l = 0
  BY <1>3, <1>4, <1>17 DEF Given, FramesFit
<1>19. ~Frames!Control(f) => StateUpTo(f, open, 0) # Reject
  <2> SUFFICES ASSUME ~Frames!Control(f) PROVE StateUpTo(f, open, 0) # Reject
    OBVIOUS
  <2>1. dataMsg = MessageOf(KindOf(f, open), TextUpTo(f, open, 0))
    BY <1>15, <1>16, <1>18 DEF Inside
  <2>2. dataMsg # <<>>
    BY <2>1 DEF MessageOf
  <2> QED
    BY <1>13, <2>1, <2>2, Zenon DEF StateUpTo
<1>20. Frames!Fault(f, open) = 0
  BY <1>5, <1>15, <1>18, <1>19, NoFaultAhead DEF Inside
<1> QED
  BY <1>10, <1>17, <1>20

THEOREM NothingIsHeldBack == WireSpec /\ Orderly => []NothingHeldBack
<1>1. HandshakeInv /\ FrameInv => NothingHeldBack
  <2> SUFFICES ASSUME HandshakeInv, FrameInv, Idle, link # "connecting"
               PROVE  HandledFrames = Cardinality({e \in frameEnds : e <= lim})
    BY DEF NothingHeldBack
  <2>1. /\ reading /\ p = lim /\ consumeError = 0 /\ procState # "READY" /\ ~Turns(<<>>)
    BY DEF Idle
  <2>2. WireTypeOK /\ ProcTypeOK /\ Given /\ link \in {"open", "closing"}
    BY <2>1, FrameInvGiven DEF HandshakeInv, WireTypeOK, LinkFollowsAnswer
  <2>3. PICK i \in 0..Len(frames) : Where(i)
    BY <2>2, Stands
  <2>4. StandsBehind(i) /\ OnCourse(i) /\ bytesNeeded # 0
    BY <2>1, <2>3 DEF Where, Turns
  <2>5. ~(basic # <<>> /\ p \in frameEnds)
    BY <2>1, <2>2, <2>4, WaitsInside
  <2>6. HandledFrames = i /\ Cardinality({e \in frameEnds : e <= p}) = i
    <3>1. p \in Nat
      BY <2>2 DEF WireTypeOK
    <3> QED
      BY <2>2, <2>4, <2>5, <3>1, HandledIs
  <2> QED
    BY <2>1, <2>6
<1>2. WireSpec /\ Orderly => [](HandshakeInv /\ FrameInv)
  BY HandshakeInvariance, FrameInvariance, PTL
<1> QED
  BY <1>1, <1>2, PTL
=============================================================================
