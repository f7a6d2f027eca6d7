------------------------- MODULE FrameSessionProofs -------------------------
(***************************************************************************)
(* Proofs about WireRead, for every sequence of frames, every way the      *)
(* reads cut them, every masking key and every program: what is sent       *)
(* decodes to what was meant, and the client implements FrameSession.      *)
(***************************************************************************)
EXTENDS FrameProofs

-----------------------------------------------------------------------------
(* Exclusive or.                                                           *)

\* The bits of a byte, by their weights.
Weights == {1, 2, 4, 8, 16, 32, 64, 128}
Bit(a, w) == (a \div w) % 2
OfBits(y) ==
    y[1] + y[2] * 2 + y[4] * 4 + y[8] * 8
    + y[16] * 16 + y[32] * 32 + y[64] * 64 + y[128] * 128

\* A byte is the sum of its bits.
LEMMA ByteIsBits ==
    ASSUME NEW a \in 0..255, NEW y, \A w \in Weights : y[w] = Bit(a, w)
    PROVE  a = OfBits(y)
<1>1. PICK x \in [0..7 -> 0..1] :
        /\ a = 128 * x[0] + 64 * x[1] + 32 * x[2] + 16 * x[3] + 8 * x[4]
               + 4 * x[5] + 2 * x[6] + x[7]
        /\ \A k \in 0..7 : (a \div Pow2(7 - k)) % 2 = x[k]
  BY BitsOfByte
<1>2. /\ Pow2(7 - 0) = 128 /\ Pow2(7 - 1) = 64 /\ Pow2(7 - 2) = 32
      /\ Pow2(7 - 3) = 16 /\ Pow2(7 - 4) = 8 /\ Pow2(7 - 5) = 4
      /\ Pow2(7 - 6) = 2 /\ Pow2(7 - 7) = 1
  BY DEF Pow2
<1>3. /\ Bit(a, 128) = x[0] /\ Bit(a, 64) = x[1] /\ Bit(a, 32) = x[2]
      /\ Bit(a, 16) = x[3] /\ Bit(a, 8) = x[4] /\ Bit(a, 4) = x[5]
      /\ Bit(a, 2) = x[6] /\ Bit(a, 1) = x[7]
  <2>1. \A k \in 0..7 : Bit(a, Pow2(7 - k)) = x[k]
    BY <1>1 DEF Bit
  <2>2. 0 \in 0..7 /\ 1 \in 0..7 /\ 2 \in 0..7 /\ 3 \in 0..7
        /\ 4 \in 0..7 /\ 5 \in 0..7 /\ 6 \in 0..7 /\ 7 \in 0..7
    OBVIOUS
  <2> QED
    BY <1>2, <2>1, <2>2
<1>4. /\ x[0] \in Nat /\ x[1] \in Nat /\ x[2] \in Nat /\ x[3] \in Nat
      /\ x[4] \in Nat /\ x[5] \in Nat /\ x[6] \in Nat /\ x[7] \in Nat
  OBVIOUS
<1>5. /\ y[128] = x[0] /\ y[64] = x[1] /\ y[32] = x[2] /\ y[16] = x[3]
      /\ y[8] = x[4] /\ y[4] = x[5] /\ y[2] = x[6] /\ y[1] = x[7]
  BY <1>3 DEF Weights
<1> QED
  BY <1>1, <1>4, <1>5 DEF OfBits

\* Halving takes the lowest bit away; a byte is eight halvings.
LEMMA Halves ==
    ASSUME NEW q \in Nat, NEW c \in Nat, c <= 1
    PROVE  (2 * q + c) \div 2 = q /\ (2 * q + c) % 2 = c
OBVIOUS

LEMMA HalvesAgain ==
    ASSUME NEW b \in Nat
    PROVE  /\ b \div 1 = b
           /\ b \div 2 = (b \div 1) \div 2
           /\ b \div 4 = (b \div 2) \div 2
           /\ b \div 8 = (b \div 4) \div 2
           /\ b \div 16 = (b \div 8) \div 2
           /\ b \div 32 = (b \div 16) \div 2
           /\ b \div 64 = (b \div 32) \div 2
           /\ b \div 128 = (b \div 64) \div 2
<1>1. b \div 1 = b
  OBVIOUS
<1>2. b \div 2 = (b \div 1) \div 2
  OBVIOUS
<1>3. b \div 4 = (b \div 2) \div 2
  OBVIOUS
<1>4. b \div 8 = (b \div 4) \div 2
  OBVIOUS
<1>5. b \div 16 = (b \div 8) \div 2
  OBVIOUS
<1>6. b \div 32 = (b \div 16) \div 2
  OBVIOUS
<1>7. b \div 64 = (b \div 32) \div 2
  OBVIOUS
<1>8. b \div 128 = (b \div 64) \div 2
  OBVIOUS
<1> QED
  BY <1>1, <1>2, <1>3, <1>4, <1>5, <1>6, <1>7, <1>8, Zenon

\* The bits of a sum of bits are these bits.
LEMMA BitsAre ==
    ASSUME NEW y, \A w \in Weights : y[w] \in 0..1
    PROVE  OfBits(y) \in 0..255 /\ \A w \in Weights : Bit(OfBits(y), w) = y[w]
<1> DEFINE b == OfBits(y)
<1>1. /\ y[1] \in Nat /\ y[1] <= 1
      /\ y[2] \in Nat /\ y[2] <= 1
      /\ y[4] \in Nat /\ y[4] <= 1
      /\ y[8] \in Nat /\ y[8] <= 1
      /\ y[16] \in Nat /\ y[16] <= 1
      /\ y[32] \in Nat /\ y[32] <= 1
      /\ y[64] \in Nat /\ y[64] <= 1
      /\ y[128] \in Nat /\ y[128] <= 1
  BY DEF Weights
<1> DEFINE t7 == y[128]
           t6 == 2 * t7 + y[64]
           t5 == 2 * t6 + y[32]
           t4 == 2 * t5 + y[16]
           t3 == 2 * t4 + y[8]
           t2 == 2 * t3 + y[4]
           t1 == 2 * t2 + y[2]
           t0 == 2 * t1 + y[1]
<1>3. t7 = y[128]
  OBVIOUS
<1>4. t7 \in Nat /\ t7 <= 1
  BY <1>1
<1> HIDE DEF t7
<1>5. t6 \in Nat /\ t6 <= 3
  BY <1>1, <1>4
<1>6. t6 = 2 * y[128] + y[64]
  BY <1>1, <1>4, <1>3
<1>7. t6 \div 2 = t7 /\ t6 % 2 = y[64]
  BY <1>1, <1>4, Halves
<1> HIDE DEF t6
<1>8. t5 \in Nat /\ t5 <= 7
  BY <1>1, <1>5
<1>9. t5 = 4 * y[128] + 2 * y[64] + y[32]
  BY <1>1, <1>5, <1>6
<1>10. t5 \div 2 = t6 /\ t5 % 2 = y[32]
  BY <1>1, <1>5, Halves
<1> HIDE DEF t5
<1>11. t4 \in Nat /\ t4 <= 15
  BY <1>1, <1>8
<1>12. t4 = 8 * y[128] + 4 * y[64] + 2 * y[32] + y[16]
  BY <1>1, <1>8, <1>9
<1>13. t4 \div 2 = t5 /\ t4 % 2 = y[16]
  BY <1>1, <1>8, Halves
<1> HIDE DEF t4
<1>14. t3 \in Nat /\ t3 <= 31
  BY <1>1, <1>11
<1>15. t3 = 16 * y[128] + 8 * y[64] + 4 * y[32] + 2 * y[16] + y[8]
  BY <1>1, <1>11, <1>12
<1>16. t3 \div 2 = t4 /\ t3 % 2 = y[8]
  BY <1>1, <1>11, Halves
<1> HIDE DEF t3
<1>17. t2 \in Nat /\ t2 <= 63
  BY <1>1, <1>14
<1>18. t2 = 32 * y[128] + 16 * y[64] + 8 * y[32] + 4 * y[16] + 2 * y[8] + y[4]
  BY <1>1, <1>14, <1>15
<1>19. t2 \div 2 = t3 /\ t2 % 2 = y[4]
  BY <1>1, <1>14, Halves
<1> HIDE DEF t2
<1>20. t1 \in Nat /\ t1 <= 127
  BY <1>1, <1>17
<1>21. t1 = 64 * y[128] + 32 * y[64] + 16 * y[32] + 8 * y[16] + 4 * y[8] + 2 * y[4] + y[2]
  BY <1>1, <1>17, <1>18
<1>22. t1 \div 2 = t2 /\ t1 % 2 = y[2]
  BY <1>1, <1>17, Halves
<1> HIDE DEF t1
<1>23. t0 \in Nat /\ t0 <= 255
  BY <1>1, <1>20
<1>24. t0 = 128 * y[128] + 64 * y[64] + 32 * y[32] + 16 * y[16]
            + 8 * y[8] + 4 * y[4] + 2 * y[2] + y[1]
  BY <1>1, <1>20, <1>21
<1>25. t0 \div 2 = t1 /\ t0 % 2 = y[1]
  BY <1>1, <1>20, Halves
<1> HIDE DEF t0
<1>26. b = t0
  BY <1>1, <1>24 DEF b, OfBits
<1> HIDE DEF b
<1>27. b \in Nat /\ b <= 255
  BY <1>26, <1>23
<1>28. b \div 1 = t0
  BY <1>27, <1>26, HalvesAgain
<1>29. b \div 2 = t1
  BY <1>28, <1>25, <1>27, HalvesAgain
<1>30. b \div 4 = t2
  BY <1>29, <1>22, <1>27, HalvesAgain
<1>31. b \div 8 = t3
  BY <1>30, <1>19, <1>27, HalvesAgain
<1>32. b \div 16 = t4
  BY <1>31, <1>16, <1>27, HalvesAgain
<1>33. b \div 32 = t5
  BY <1>32, <1>13, <1>27, HalvesAgain
<1>34. b \div 64 = t6
  BY <1>33, <1>10, <1>27, HalvesAgain
<1>35. b \div 128 = t7
  BY <1>34, <1>7, <1>27, HalvesAgain
<1>36. t7 % 2 = y[128]
  BY <1>1, <1>3
<1>37. ASSUME NEW w \in Weights PROVE Bit(b, w) = y[w]
  BY <1>7, <1>10, <1>13, <1>16, <1>19, <1>22, <1>25, <1>28, <1>29, <1>30,
     <1>31, <1>32, <1>33, <1>34, <1>35, <1>36
     DEF Weights, Bit
<1> QED
  BY <1>27, <1>37 DEF b

\* Adding the same number twice leaves the parity as it was.
LEMMA SumOdd ==
    ASSUME NEW u \in Nat, NEW v \in Nat
    PROVE  /\ (u + v) % 2 = ((u % 2) + (v % 2)) % 2
           /\ (((u + v) % 2) + v) % 2 = u % 2
           /\ (u + v) % 2 \in 0..1
<1>1. PICK a \in Nat, i \in 0..1 : u = 2 * a + i
  <2>1. u \div 2 \in Nat /\ u % 2 \in 0..1 /\ u = 2 * (u \div 2) + (u % 2)
    OBVIOUS
  <2> QED
    BY <2>1
<1>2. PICK c \in Nat, j \in 0..1 : v = 2 * c + j
  <2>1. v \div 2 \in Nat /\ v % 2 \in 0..1 /\ v = 2 * (v \div 2) + (v % 2)
    OBVIOUS
  <2> QED
    BY <2>1
<1>3. (i = 0 \/ i = 1) /\ (j = 0 \/ j = 1)
  OBVIOUS
<1> QED
  BY <1>1, <1>2, <1>3

\* The bits of an exclusive or.
XorBit(a, k) == [w \in Weights |-> (a \div w + k \div w) % 2]

LEMMA XorBits ==
    ASSUME NEW a \in 0..255, NEW k \in 0..255
    PROVE  /\ Xor(a, k) = OfBits(XorBit(a, k))
           /\ \A w \in Weights : /\ XorBit(a, k)[w] = (a \div w + k \div w) % 2
                                 /\ XorBit(a, k)[w] \in 0..1
<1> DEFINE x == XorBit(a, k)
<1>1. ASSUME NEW w \in Weights
      PROVE  x[w] = (a \div w + k \div w) % 2 /\ x[w] \in 0..1
  <2>1. x[w] = (a \div w + k \div w) % 2
    BY Zenon DEF XorBit
  <2>2. a \div w \in Nat /\ k \div w \in Nat
    BY DEF Weights
  <2>3. (a \div w + k \div w) % 2 \in 0..1
    BY <2>2, SumOdd
  <2> QED
    BY <2>1, <2>3
<1>2. /\ x[1] \in 0..1 /\ x[2] \in 0..1 /\ x[4] \in 0..1 /\ x[8] \in 0..1
      /\ x[16] \in 0..1 /\ x[32] \in 0..1 /\ x[64] \in 0..1 /\ x[128] \in 0..1
  BY <1>1 DEF Weights
<1>3. Xor(a, k) = 1 * x[1] + 2 * x[2] + 4 * x[4] + 8 * x[8]
                  + 16 * x[16] + 32 * x[32] + 64 * x[64] + 128 * x[128]
  <2>1. /\ x[1] = (a \div 1 + k \div 1) % 2 /\ x[2] = (a \div 2 + k \div 2) % 2
        /\ x[4] = (a \div 4 + k \div 4) % 2 /\ x[8] = (a \div 8 + k \div 8) % 2
        /\ x[16] = (a \div 16 + k \div 16) % 2 /\ x[32] = (a \div 32 + k \div 32) % 2
        /\ x[64] = (a \div 64 + k \div 64) % 2 /\ x[128] = (a \div 128 + k \div 128) % 2
    BY <1>1 DEF Weights
  <2> HIDE DEF x
  <2> QED
    BY <2>1, Zenon DEF Xor
<1> HIDE DEF x
<1>4. OfBits(x) = 1 * x[1] + 2 * x[2] + 4 * x[4] + 8 * x[8]
                  + 16 * x[16] + 32 * x[32] + 64 * x[64] + 128 * x[128]
  BY <1>2 DEF OfBits
<1> QED
  BY <1>1, <1>3, <1>4, Zenon DEF x

\* Masking a byte twice with the same byte gives it back.
LEMMA XorTwice ==
    ASSUME NEW a \in 0..255, NEW k \in 0..255
    PROVE  Xor(a, k) \in 0..255 /\ Xor(Xor(a, k), k) = a
<1> DEFINE b == Xor(a, k)
           x == XorBit(a, k)
           z == XorBit(b, k)
<1>1. b = OfBits(x) /\ \A w \in Weights : x[w] = (a \div w + k \div w) % 2 /\ x[w] \in 0..1
  BY XorBits
<1>2. b \in 0..255 /\ \A w \in Weights : Bit(b, w) = x[w]
  BY <1>1, BitsAre
<1>3. Xor(b, k) = OfBits(z) /\ \A w \in Weights : z[w] = (b \div w + k \div w) % 2
  <2>1. b \in 0..255
    BY <1>2
  <2> HIDE DEF b
  <2> QED
    BY <2>1, XorBits
<1> HIDE DEF b, x, z
<1>4. ASSUME NEW w \in Weights PROVE z[w] = Bit(a, w)
  <2> DEFINE u == a \div w
             v == k \div w
             t == b \div w
  <2>1. u \in Nat /\ v \in Nat /\ t \in Nat
    BY <1>2 DEF Weights
  <2>2. t % 2 = (u + v) % 2 /\ z[w] = (t + v) % 2
    BY <1>1, <1>2, <1>3 DEF Bit
  <2> HIDE DEF u, v, t
  <2>3. (t + v) % 2 = ((t % 2) + (v % 2)) % 2
    BY <2>1, SumOdd
  <2>4. (((u + v) % 2) + v) % 2 = u % 2
    BY <2>1, SumOdd
  <2>5. (((u + v) % 2) + v) % 2 = ((((u + v) % 2) % 2) + (v % 2)) % 2
    <3>1. (u + v) % 2 \in Nat
      BY <2>1
    <3> QED
      BY <2>1, <3>1, SumOdd
  <2>6. ((u + v) % 2) % 2 = (u + v) % 2
    BY <2>1
  <2>7. (t + v) % 2 = u % 2
    BY <2>2, <2>3, <2>4, <2>5, <2>6, Zenon
  <2> QED
    BY <2>2, <2>7 DEF u, Bit
<1>5. Xor(b, k) = a
  <2>1. a = OfBits(z)
    BY <1>4, ByteIsBits
  <2> QED
    BY <1>3, <2>1
<1> QED
  BY <1>2, <1>5 DEF b

-----------------------------------------------------------------------------
(* What a server decodes.                                                  *)

\* Three sequences behind one another.
Behind(c, s, t, u) ==
    /\ \A i \in 1..Len(s) : c[i] = s[i]
    /\ \A i \in 1..Len(t) : c[Len(s) + i] = t[i]
    /\ \A i \in 1..Len(u) : c[Len(s) + Len(t) + i] = u[i]

LEMMA ThreeParts ==
    ASSUME NEW S, NEW s \in Seq(S), NEW t \in Seq(S), NEW u \in Seq(S)
    PROVE  Behind((s \o t) \o u, s, t, u)
<1> DEFINE a == Len(s)
           b == Len(t)
           d == Len(u)
           st == s \o t
           c == st \o u
<1>1. a \in Nat /\ b \in Nat /\ d \in Nat
  OBVIOUS
<1>2. /\ st \in Seq(S) /\ Len(st) = a + b
      /\ \A i \in 1..a + b : st[i] = IF i <= a THEN s[i] ELSE t[i - a]
  BY ConcatProperties
<1> HIDE DEF st
<1>3. /\ c \in Seq(S)
      /\ \A i \in 1..(a + b) + d : c[i] = IF i <= a + b THEN st[i] ELSE u[i - (a + b)]
  BY <1>2, ConcatProperties
<1> HIDE DEF c, a, b, d
<1>4. \A i \in 1..a : c[i] = s[i]
  <2> SUFFICES ASSUME NEW i \in 1..a PROVE c[i] = s[i]
    OBVIOUS
  <2>1. i \in 1..a + b /\ i \in 1..(a + b) + d /\ i <= a + b /\ i <= a
    BY <1>1
  <2> QED
    BY <1>2, <1>3, <2>1
<1>5. \A i \in 1..b : c[a + i] = t[i]
  <2> SUFFICES ASSUME NEW i \in 1..b PROVE c[a + i] = t[i]
    OBVIOUS
  <2>1. /\ a + i \in 1..a + b /\ a + i \in 1..(a + b) + d /\ a + i <= a + b
        /\ ~(a + i <= a)
        /\ (a + i) - a = i
    BY <1>1
  <2> QED
    BY <1>2, <1>3, <2>1
<1>6. \A i \in 1..d : c[a + b + i] = u[i]
  <2> SUFFICES ASSUME NEW i \in 1..d PROVE c[a + b + i] = u[i]
    OBVIOUS
  <2>1. /\ a + b + i \in 1..(a + b) + d /\ ~(a + b + i <= a + b)
        /\ (a + b + i) - (a + b) = i
    BY <1>1
  <2> QED
    BY <1>3, <2>1
<1> QED
  BY <1>4, <1>5, <1>6, Zenon DEF c, st, a, b, d, Behind

\* What the functions that prepare a frame write of a payload's size.
InBasic(n) == <<128 + n>>
InTwo(n) == <<254, n \div 256, n % 256>>
InEight(n) == <<255, 0, 0, 0, 0, n \div 16777216, (n \div 65536) % 256,
                (n \div 256) % 256, n % 256>>
SizeBytes(n) ==
    CASE n <= PayloadSizeBasic         -> InBasic(n)
      [] n \in 126..PayloadSizeExtended -> InTwo(n)
      [] n > PayloadSizeExtended       -> InEight(n)

LEMMA HeaderSized ==
    ASSUME NEW op, NEW n, NEW key
    PROVE  Header(op, n, key) = (<<128 + op>> \o SizeBytes(n)) \o key
BY SMT DEF Header, SizeBytes, InBasic, InTwo, InEight

LEMMA SizeBytesAre ==
    ASSUME NEW n \in Nat
    PROVE  \/ n <= PayloadSizeBasic /\ SizeBytes(n) = InBasic(n)
           \/ SizeBytes(n) = InTwo(n)
           \/ SizeBytes(n) = InEight(n)
<1>1. PICK a, b \in Nat : a = PayloadSizeBasic /\ b = PayloadSizeExtended /\ a = 125 /\ a < b
  BY DEF PayloadSizeBasic, PayloadSizeExtended
<1>2. /\ n <= a => ~(n > b) /\ ~(n \in 126..b)
      /\ n > b => ~(n \in 126..b)
      /\ ~(n <= a) /\ ~(n > b) => n \in 126..b
  <2> HIDE DEF PayloadSizeBasic, PayloadSizeExtended
  <2>1. a = 125 /\ a < b
    BY <1>1
  <2> QED
    BY <2>1
<1> QED
  BY <1>1, <1>2, Zenon DEF SizeBytes

\* The bytes of a masked payload, masked again.
LEMMA MaskedTwice ==
    ASSUME NEW key \in [1..4 -> 0..255], NEW text \in Seq(Byte), NEW m,
           m = MaskedCopy(text, key)
    PROVE  /\ m \in Seq(Nat) /\ Len(m) = Len(text)
           /\ \A i \in 1..Len(text) : Xor(m[i], key[((i - 1) % 4) + 1]) = text[i]
<1>1. PICK n \in Nat : n = Len(text)
  OBVIOUS
<1>2. DOMAIN text = 1..n /\ \A i \in 1..n : text[i] \in Byte
  BY <1>1
<1>3. m = [i \in 1..n |-> Xor(text[i], key[((i - 1) % 4) + 1])]
  BY <1>2, Zenon DEF MaskedCopy
<1>4. \A i \in 1..n : ((i - 1) % 4) + 1 \in 1..4
  BY <1>1
<1>5. \A i \in 1..n : m[i] = Xor(text[i], key[((i - 1) % 4) + 1])
  BY <1>3, Zenon
<1>6. \A i \in 1..n : m[i] \in Nat /\ Xor(m[i], key[((i - 1) % 4) + 1]) = text[i]
  <2> SUFFICES ASSUME NEW i \in 1..n
               PROVE  m[i] \in Nat /\ Xor(m[i], key[((i - 1) % 4) + 1]) = text[i]
    OBVIOUS
  <2>1. PICK k \in 0..255 : k = key[((i - 1) % 4) + 1]
    BY <1>4
  <2>2. PICK a \in 0..255 : a = text[i]
    BY <1>2 DEF Byte
  <2>3. Xor(a, k) \in 0..255 /\ Xor(Xor(a, k), k) = a
    BY XorTwice
  <2>4. m[i] = Xor(a, k)
    BY <1>5, <2>1, <2>2, Zenon
  <2>5. Xor(a, k) \in Nat
    <3>1. 0..255 \subseteq Nat
      OBVIOUS
    <3> QED
      BY <2>3, <3>1, Zenon
  <2> QED
    BY <2>1, <2>2, <2>3, <2>4, <2>5, Zenon
<1>7. DOMAIN m = 1..n /\ m = [i \in 1..n |-> m[i]]
  BY <1>3, Zenon
<1>8. m \in Seq(Nat) /\ Len(m) = n
  <2>1. \A i \in 1..n : m[i] \in Nat
    BY <1>6, Zenon
  <2>2. m \in [1..n -> Nat]
    BY <1>7, <2>1, Zenon
  <2> QED
    BY <1>1, <2>2
<1> QED
  BY <1>1, <1>6, <1>8, Zenon

\* A key is four numbers.
LEMMA KeyBytes ==
    ASSUME NEW key \in [1..4 -> 0..255]
    PROVE  key \in Seq(Nat) /\ Len(key) = 4
<1>1. DOMAIN key = 1..4 /\ \A i \in 1..4 : key[i] \in Nat
  OBVIOUS
<1>2. key = [i \in 1..4 |-> key[i]]
  OBVIOUS
<1>3. key \in [1..4 -> Nat]
  BY <1>1, <1>2, Zenon
<1>4. \A n \in Nat : \A s \in [1..n -> Nat] : s \in Seq(Nat) /\ Len(s) = n
  OBVIOUS
<1> QED
  BY <1>3, <1>4

\* The payload behind head, unmasked with the key that stands between them.
Unmasks(b, head, at, text) ==
    /\ \A j \in 1..Len(head) : b[j] = head[j]
    /\ [i \in 1..Len(text) |-> Xor(b[at + i], b[at - 3 + ((i - 1) % 4)])] = text

LEMMA Unmasked ==
    ASSUME NEW head \in Seq(Nat), NEW key \in [1..4 -> 0..255], NEW text \in Seq(Byte),
           NEW at, at = Len(head) + 4
    PROVE  Unmasks((head \o key) \o MaskedCopy(text, key), head, at, text)
<1>1. PICK n, h \in Nat : n = Len(text) /\ h = Len(head)
  OBVIOUS
<1>2. PICK m : m = MaskedCopy(text, key)
  OBVIOUS
<1>3. /\ m \in Seq(Nat) /\ Len(m) = n
      /\ \A i \in 1..n : Xor(m[i], key[((i - 1) % 4) + 1]) = text[i]
  BY <1>1, <1>2, MaskedTwice
<1>4. key \in Seq(Nat) /\ Len(key) = 4
  BY KeyBytes
<1>5. PICK b : b = (head \o key) \o m
  BY Zenon
<1>6. /\ \A j \in 1..h : b[j] = head[j]
      /\ \A j \in 1..4 : b[h + j] = key[j]
      /\ \A i \in 1..n : b[h + 4 + i] = m[i]
  <2>1. m \in Seq(Nat) /\ Len(m) = n
    BY <1>3, Zenon
  <2>2. Behind(b, head, key, m)
    BY <1>4, <1>5, <2>1, ThreeParts, Zenon
  <2> QED
    BY <1>1, <1>4, <2>1, <2>2, Zenon DEF Behind
<1>7. \A i \in 1..n : Xor(b[at + i], b[at - 3 + ((i - 1) % 4)]) = text[i]
  <2> SUFFICES ASSUME NEW i \in 1..n
               PROVE  Xor(b[at + i], b[at - 3 + ((i - 1) % 4)]) = text[i]
    OBVIOUS
  <2>1. PICK r \in Nat : r = (i - 1) % 4 /\ r + 1 \in 1..4
    BY <1>1
  <2>2. at - 3 + r = h + (r + 1) /\ at + i = h + 4 + i
    BY <1>1, <2>1
  <2>3. b[at - 3 + r] = key[r + 1] /\ b[at + i] = m[i]
    BY <1>6, <2>1, <2>2
  <2>4. Xor(m[i], key[r + 1]) = text[i]
    BY <1>3, <2>1, Zenon
  <2> QED
    BY <2>1, <2>3, <2>4, Zenon
<1>8. [i \in 1..n |-> Xor(b[at + i], b[at - 3 + ((i - 1) % 4)])] = [i \in 1..n |-> text[i]]
  BY <1>7, Zenon
<1>9. [i \in 1..n |-> text[i]] = text
  BY <1>1
<1> QED
  BY <1>1, <1>2, <1>5, <1>6, <1>8, <1>9, Zenon DEF Unmasks

\* The size a server reads in a header, and where it finds the payload.
Sized(h, op, n) ==
    /\ h \in Seq(Nat) /\ Len(h) >= 2 /\ h[1] = 128 + op
    /\ \/ h[2] = 254 /\ Len(h) = 4 /\ h[3] * 256 + h[4] = n
       \/ h[2] = 255 /\ Len(h) = 10
          /\ ((h[7] * 256 + h[8]) * 256 + h[9]) * 256 + h[10] = n
       \/ h[2] # 254 /\ h[2] # 255 /\ Len(h) = 2 /\ h[2] - 128 = n

\* A number in front of a sequence.
FirstAnd(h, x, t) ==
    /\ h \in Seq(Nat) /\ Len(h) = Len(t) + 1 /\ h[1] = x
    /\ \A i \in 1..Len(t) : h[i + 1] = t[i]

LEMMA OneBefore ==
    ASSUME NEW x \in Nat, NEW t \in Seq(Nat)
    PROVE  FirstAnd(<<x>> \o t, x, t)
<1>1. <<x>> \in Seq(Nat) /\ Len(<<x>>) = 1 /\ <<x>>[1] = x
  OBVIOUS
<1>2. PICK s : s = <<x>>
  BY Zenon
<1>3. PICK h : h = s \o t
  BY Zenon
<1>4. /\ h \in Seq(Nat) /\ Len(h) = 1 + Len(t)
      /\ \A i \in 1..1 + Len(t) : h[i] = IF i <= 1 THEN s[i] ELSE t[i - 1]
  BY <1>1, <1>2, <1>3, ConcatProperties
<1>5. Len(t) \in Nat
  OBVIOUS
<1>6. h[1] = x
  BY <1>1, <1>2, <1>4, <1>5
<1>7. \A i \in 1..Len(t) : h[i + 1] = t[i]
  <2> SUFFICES ASSUME NEW i \in 1..Len(t) PROVE h[i + 1] = t[i]
    OBVIOUS
  <2>1. i + 1 \in 1..1 + Len(t) /\ ~(i + 1 <= 1) /\ (i + 1) - 1 = i
    BY <1>5
  <2> QED
    BY <1>4, <2>1
<1>8. Len(h) = Len(t) + 1
  BY <1>4, <1>5
<1> QED
  BY <1>2, <1>3, <1>4, <1>6, <1>7, <1>8, Zenon DEF FirstAnd

\* A server reads the size that was written.
LEMMA SizedIs ==
    ASSUME NEW op \in Nat, NEW n \in Nat
    PROVE  Sized(<<128 + op>> \o SizeBytes(n), op, n)
<1>1. PICK x \in Nat : x = 128 + op
  OBVIOUS
<1>2. PICK t, h : t = SizeBytes(n) /\ h = <<x>> \o t
  BY Zenon
<1>3. ASSUME t \in Seq(Nat)
      PROVE  /\ h \in Seq(Nat) /\ Len(h) = Len(t) + 1 /\ h[1] = x
             /\ \A i \in 1..Len(t) : h[i + 1] = t[i]
  <2>1. FirstAnd(h, x, t)
    BY <1>2, <1>3, OneBefore, Zenon
  <2> QED
    BY <2>1, Zenon DEF FirstAnd
<1>4. CASE n <= PayloadSizeBasic /\ SizeBytes(n) = InBasic(n)
  <2>1. PICK y \in Nat : y = 128 + n /\ y # 254 /\ y # 255 /\ y - 128 = n
    BY <1>4 DEF PayloadSizeBasic
  <2>2. t = <<y>>
    BY <1>2, <1>4, <2>1, Zenon DEF InBasic
  <2>3. t \in Seq(Nat) /\ Len(t) = 1 /\ t[1] = y
    BY <2>1, <2>2
  <2>4. h \in Seq(Nat) /\ Len(h) = 2 /\ h[1] = x /\ h[2] = y
    BY <1>3, <2>3
  <2> QED
    BY <1>1, <1>2, <2>1, <2>4 DEF Sized
<1>5. CASE SizeBytes(n) = InTwo(n)
  <2>1. PICK q, r \in Nat : q = n \div 256 /\ r = n % 256 /\ q * 256 + r = n
    BY SMTT(30)
  <2>2. t = <<254, q, r>>
    BY <1>2, <1>5, <2>1, Zenon DEF InTwo
  <2>3. t \in Seq(Nat) /\ Len(t) = 3 /\ t[1] = 254 /\ t[2] = q /\ t[3] = r
    BY <2>1, <2>2
  <2>4. h \in Seq(Nat) /\ Len(h) = 4 /\ h[1] = x /\ h[2] = 254 /\ h[3] = q /\ h[4] = r
    BY <1>3, <2>3
  <2> QED
    BY <1>1, <1>2, <2>1, <2>4 DEF Sized
<1>6. CASE SizeBytes(n) = InEight(n)
  <2>1. PICK a, b, c, d \in Nat :
          /\ a = n \div 16777216 /\ b = (n \div 65536) % 256
          /\ c = (n \div 256) % 256 /\ d = n % 256
          /\ ((a * 256 + b) * 256 + c) * 256 + d = n
    BY SMTT(30)
  <2>2. t = <<255, 0, 0, 0, 0, a, b, c, d>>
    BY <1>2, <1>6, <2>1, SMTT(30) DEF InEight
  <2>3. t \in Seq(Nat)
    BY <2>1, <2>2
  <2>4. Len(t) = 9 /\ t[1] = 255 /\ t[6] = a /\ t[7] = b /\ t[8] = c /\ t[9] = d
    BY <2>2
  <2>5. h \in Seq(Nat) /\ Len(h) = 10 /\ h[1] = x
    BY <1>3, <2>3, <2>4
  <2>6. h[2] = 255 /\ h[7] = a /\ h[8] = b /\ h[9] = c /\ h[10] = d
    BY <1>3, <2>3, <2>4
  <2> QED
    <3>1. h[1] = 128 + op /\ Len(h) >= 2
      BY <1>1, <2>5
    <3>4. ((a * 256 + b) * 256 + c) * 256 + d = n
      BY <2>1, SMT
    <3>2. ((h[7] * 256 + h[8]) * 256 + h[9]) * 256 + h[10] = n
      BY <2>6, <3>4, Zenon
    <3>3. Sized(h, op, n)
      BY <2>5, <2>6, <3>1, <3>2, Zenon DEF Sized
    <3> QED
      BY <1>1, <1>2, <3>3, Zenon
<1> QED
  BY <1>4, <1>5, <1>6, SizeBytesAre, Zenon

\* What is decoded of size bytes behind the header.
DecodedAs(op, at, size, b) ==
    LET payload == [i \in 1..size |-> Xor(b[at + i], b[at - 3 + ((i - 1) % 4)])]
    IN [op |-> op,
        payload |-> IF op = CLOSE THEN <<payload[1] * 256 + payload[2]>> ELSE payload]

\* A server that decodes a frame sent to it finds what has been sent.
LEMMA PreparedDecoded ==
    ASSUME NEW op \in {TEXT, BINARY, CLOSE, PONG}, NEW text \in Seq(Byte),
           NEW key \in MaskKeys
    PROVE  Decoded(Prepared(op, text, key))
             = [op |-> op,
                payload |-> IF op = CLOSE THEN <<text[1] * 256 + text[2]>> ELSE text]
<1>1. key \in [1..4 -> 0..255]
  BY KeysAssumption, Zenon
<1>2. PICK n \in Nat : n = Len(text)
  OBVIOUS
<1>3. PICK h : h = <<128 + op>> \o SizeBytes(n)
  BY Zenon
<1>4. Sized(h, op, n) /\ op \in Nat
  <2>1. op \in Nat
    BY DEF TEXT, BINARY, CLOSE, PONG
  <2> QED
    BY <1>3, <2>1, SizedIs, Zenon
<1>5. PICK b : b = Prepared(op, text, key)
  BY Zenon
<1>6. b = (h \o key) \o MaskedCopy(text, key)
  BY <1>2, <1>3, <1>5, HeaderSized, Zenon DEF Prepared
<1>7. PICK at : at = Len(h) + 4
  BY Zenon
<1>8. h \in Seq(Nat) /\ Len(h) >= 2 /\ h[1] = 128 + op
  BY <1>4, Zenon DEF Sized
<1>9. /\ \A j \in 1..Len(h) : b[j] = h[j]
      /\ [i \in 1..n |-> Xor(b[at + i], b[at - 3 + ((i - 1) % 4)])] = text
  <2>1. Unmasks(b, h, at, text)
    BY <1>1, <1>6, <1>7, <1>8, Unmasked, Zenon
  <2> QED
    BY <1>2, <2>1, Zenon DEF Unmasks
<1>10. 1 \in 1..Len(h) /\ 2 \in 1..Len(h)
  BY <1>8
<1>11. b[1] = h[1] /\ b[2] = h[2] /\ b[1] - 128 = op
  <2>1. b[1] = h[1] /\ b[2] = h[2]
    BY <1>9, <1>10, Zenon
  <2>2. \A x, y \in Nat : x = 128 + y => x - 128 = y
    OBVIOUS
  <2>3. 128 + op \in Nat
    BY <1>4
  <2> QED
    BY <1>4, <1>8, <2>1, <2>2, <2>3, Zenon
<1>12. /\ at = CASE b[2] = 254 -> 8 [] b[2] = 255 -> 14 [] OTHER -> 6
       /\ n = CASE b[2] = 254 -> b[3] * 256 + b[4]
                [] b[2] = 255 -> ((b[7] * 256 + b[8]) * 256 + b[9]) * 256 + b[10]
                [] OTHER      -> b[2] - 128
  <2>1. CASE h[2] = 254 /\ Len(h) = 4 /\ h[3] * 256 + h[4] = n
    <3>1. b[3] = h[3] /\ b[4] = h[4]
      BY <1>9, <2>1
    <3> QED
      BY <1>7, <1>11, <2>1, <3>1
  <2>2. CASE /\ h[2] = 255 /\ Len(h) = 10
             /\ ((h[7] * 256 + h[8]) * 256 + h[9]) * 256 + h[10] = n
    <3>1. b[7] = h[7] /\ b[8] = h[8] /\ b[9] = h[9] /\ b[10] = h[10]
      BY <1>9, <2>2
    <3> QED
      BY <1>7, <1>11, <2>2, <3>1
  <2>3. CASE h[2] # 254 /\ h[2] # 255 /\ Len(h) = 2 /\ h[2] - 128 = n
    BY <1>7, <1>11, <2>3
  <2> QED
    BY <1>4, <2>1, <2>2, <2>3, Zenon DEF Sized
<1>13. Decoded(b) = [op |-> op,
                     payload |-> IF op = CLOSE THEN <<text[1] * 256 + text[2]>> ELSE text]
  <2>1. Decoded(b)
          = DecodedAs(b[1] - 128,
                      CASE b[2] = 254 -> 8 [] b[2] = 255 -> 14 [] OTHER -> 6,
                      CASE b[2] = 254 -> b[3] * 256 + b[4]
                        [] b[2] = 255 -> ((b[7] * 256 + b[8]) * 256 + b[9]) * 256 + b[10]
                        [] OTHER      -> b[2] - 128, b)
    BY Zenon DEF Decoded, DecodedAs
  <2>2. Decoded(b) = DecodedAs(op, at, n, b)
    BY <1>11, <1>12, <2>1, Zenon
  <2> QED
    BY <1>9, <2>2, Zenon DEF DecodedAs
<1> QED
  BY <1>5, <1>13, Zenon

\* The code of a close frame.
LEMMA CloseDecoded ==
    ASSUME NEW code \in Nat, 1000 <= code, code <= 4999, code # no_status,
           NEW reason \in Seq(Byte), NEW key \in MaskKeys
    PROVE  Decoded(Prepared(CLOSE, ClosePayload(code, reason), key)) = Frames!CloseAnswer(code)
<1>1. PICK x, y \in Nat : x = code \div 256 /\ y = code % 256 /\ x * 256 + y = code
                          /\ x \in Byte /\ y \in Byte
  BY DEF Byte
<1>2. PICK c : c = ClosePayload(code, reason)
  OBVIOUS
<1>3. c = <<x, y>> \o reason
  BY <1>1, <1>2 DEF ClosePayload
<1>4. <<x, y>> \in Seq(Byte) /\ Len(<<x, y>>) = 2
  BY <1>1
<1>5. c \in Seq(Byte) /\ c[1] = x /\ c[2] = y
  BY <1>3, <1>4, ConcatProperties
<1>6. CLOSE \in {TEXT, BINARY, CLOSE, PONG}
  OBVIOUS
<1>7. Decoded(Prepared(CLOSE, c, key)) = [op |-> CLOSE, payload |-> <<c[1] * 256 + c[2]>>]
  BY <1>5, <1>6, PreparedDecoded
<1>8. c[1] * 256 + c[2] = code
  BY <1>1, <1>5
<1>9. Frames!CloseAnswer(code) = [op |-> CLOSE, payload |-> <<code>>]
  BY DEF Frames!CloseAnswer, Frames!Close, CLOSE
<1> QED
  BY <1>2, <1>7, <1>8, <1>9

\* A function with one value more is the sequence with it appended.
Grows(a, b, n, y) ==
    /\ a = [i \in 1..n |-> a[i]] /\ b = [i \in 1..n + 1 |-> b[i]]
    /\ \A i \in 1..n : b[i] = a[i]
    /\ b[n + 1] = y

LEMMA AppendIs ==
    ASSUME NEW n \in Nat, NEW a, NEW b, NEW y, Grows(a, b, n, y)
    PROVE  b = Append(a, y)
<1>0. /\ a = [i \in 1..n |-> a[i]] /\ b = [i \in 1..n + 1 |-> b[i]]
      /\ \A i \in 1..n : b[i] = a[i]
      /\ b[n + 1] = y
  BY Zenon DEF Grows
<1>1. PICK S : S = {a[i] : i \in 1..n} \cup {y}
  BY Zenon
<1>2. \A i \in 1..n : a[i] \in S
  BY <1>1
<1>3. \A i \in 1..n + 1 : b[i] \in S
  <2> SUFFICES ASSUME NEW i \in 1..n + 1 PROVE b[i] \in S
    OBVIOUS
  <2>1. i \in 1..n \/ i = n + 1
    OBVIOUS
  <2>2. y \in S
    BY <1>1, Zenon
  <2> QED
    BY <1>0, <1>2, <2>1, <2>2, Zenon
<1>4. a \in Seq(S) /\ Len(a) = n
  BY <1>0, <1>2
<1>5. b \in Seq(S) /\ Len(b) = n + 1
  BY <1>0, <1>3
<1>6. PICK c : c = Append(a, y)
  BY Zenon
<1>7. /\ c \in Seq(S) /\ Len(c) = n + 1 /\ \A i \in 1..n : c[i] = a[i]
      /\ c[n + 1] = y
  BY <1>1, <1>4, <1>6, AppendProperties
<1>8. \A i \in 1..n + 1 : b[i] = c[i]
  <2> SUFFICES ASSUME NEW i \in 1..n + 1 PROVE b[i] = c[i]
    OBVIOUS
  <2>1. i \in 1..n \/ i = n + 1
    OBVIOUS
  <2> QED
    BY <1>0, <1>7, <2>1, Zenon
<1> QED
  BY <1>5, <1>6, <1>7, <1>8, SeqEqual

\* What a server decodes of the frames that have been sent.
Answers == [i \in DOMAIN sent |-> Decoded(sent[i])]

\* One frame more is one answer more, and the others stay.
LEMMA AnswersGrow ==
    ASSUME sent \in Seq(Range(sent)), NEW x, sent' = Append(sent, x)
    PROVE  Answers' = Append(Answers, Decoded(x))
<1>1. PICK n \in Nat : n = Len(sent)
  OBVIOUS
<1>2. PICK s, t, S : s = sent /\ t = sent' /\ S = Range(sent)
  BY Zenon
<1>3. PICK a, b : a = Answers /\ b = Answers'
  BY Zenon
<1>4. s \in Seq(S) /\ n = Len(s) /\ t = Append(s, x)
  BY <1>1, <1>2, Zenon
<1>5. /\ DOMAIN s = 1..n /\ DOMAIN t = 1..n + 1 /\ t[n + 1] = x
      /\ \A i \in 1..n : t[i] = s[i]
  BY <1>4
<1>6. a = [i \in 1..n |-> Decoded(s[i])]
  BY <1>2, <1>3, <1>5, Zenon DEF Answers
<1>7. b = [i \in 1..n + 1 |-> Decoded(t[i])]
  BY <1>2, <1>3, <1>5, Zenon DEF Answers
<1>8. \A i \in 1..n : i \in 1..n + 1
  BY <1>1
<1>9. n + 1 \in 1..n + 1
  BY <1>1
<1>10. /\ \A i \in 1..n : b[i] = a[i]
       /\ b[n + 1] = Decoded(x)
  BY <1>5, <1>6, <1>7, <1>8, <1>9, Zenon
<1>11. PICK y : y = Decoded(x)
  BY Zenon
<1>12. b = Append(a, y)
  <2>1. DOMAIN a = 1..n /\ DOMAIN b = 1..n + 1
    BY <1>6, <1>7, Zenon
  <2>2. a = [i \in 1..n |-> a[i]]
    BY <1>6, <2>1, Zenon
  <2>3. b = [i \in 1..n + 1 |-> b[i]]
    BY <1>7, <2>1, Zenon
  <2>4. \A i \in 1..n : b[i] = a[i]
    BY <1>10, Zenon
  <2>5. b[n + 1] = y
    BY <1>10, <1>11, Zenon
  <2>6. Grows(a, b, n, y)
    BY <2>2, <2>3, <2>4, <2>5, Zenon DEF Grows
  <2> QED
    BY <1>1, <2>6, AppendIs, Zenon
<1> QED
  BY <1>3, <1>11, <1>12

\* Frames that are sent one behind the other begin as they did.
LEMMA PrefixGrows ==
    ASSUME NEW S, NEW a \in Seq(S), NEW x, NEW b, b = Append(a, x)
    PROVE  /\ Len(b) = Len(a) + 1 /\ Frames!IsPrefix(a, b) /\ Frames!Last(b) = x
<1>1. PICK n \in Nat : n = Len(a)
  OBVIOUS
<1>2. PICK T : T = S \cup {x}
  BY Zenon
<1>3. a \in Seq(T) /\ x \in T
  BY <1>2
<1>4. b \in Seq(T) /\ Len(b) = n + 1 /\ b[n + 1] = x /\ \A i \in 1..n : b[i] = a[i]
  BY <1>1, <1>3
<1>5. SubSeq(a, 1, n) = SubSeq(b, 1, n)
  <2>1. /\ SubSeq(a, 1, n) \in Seq(T) /\ Len(SubSeq(a, 1, n)) = n
        /\ \A i \in 1..n : SubSeq(a, 1, n)[i] = a[i]
    BY <1>1, <1>3
  <2>2. /\ SubSeq(b, 1, n) \in Seq(T) /\ Len(SubSeq(b, 1, n)) = n
        /\ \A i \in 1..n : SubSeq(b, 1, n)[i] = b[i]
    BY <1>1, <1>4
  <2>3. PICK u, v : u = SubSeq(a, 1, n) /\ v = SubSeq(b, 1, n)
    BY Zenon
  <2>4. u \in Seq(T) /\ v \in Seq(T) /\ Len(u) = Len(v) /\ \A i \in 1..Len(u) : u[i] = v[i]
    BY <1>4, <2>1, <2>2, <2>3
  <2> QED
    BY <2>3, <2>4, SeqEqual
<1>6. n <= n + 1
  OBVIOUS
<1> QED
  BY <1>1, <1>4, <1>5, <1>6, Zenon DEF Frames!IsPrefix, Frames!Last

\* They are a sequence.
LEMMA AnswersType == sent \in Seq(Range(sent)) => Answers \in Seq(Range(Answers))
<1> SUFFICES ASSUME sent \in Seq(Range(sent)) PROVE Answers \in Seq(Range(Answers))
  OBVIOUS
<1>1. PICK n \in Nat : n = Len(sent)
  OBVIOUS
<1>2. DOMAIN sent = 1..n
  BY <1>1
<1>3. Answers = [i \in 1..n |-> Decoded(sent[i])]
  BY <1>2, Zenon DEF Answers
<1>4. PICK a : a = Answers
  BY Zenon
<1>5. DOMAIN a = 1..n /\ a = [i \in 1..n |-> a[i]]
  BY <1>3, <1>4, Zenon
<1>6. \A i \in 1..n : a[i] \in Range(a)
  BY <1>5 DEF Range
<1>7. a \in Seq(Range(a))
  BY <1>5, <1>6
<1> QED
  BY <1>4, <1>7

\* The codes an endpoint may send.
LEMMA SendableIs ==
    ASSUME NEW code \in Nat
    PROVE  /\ Frames!Sendable(code) <=> ~(ReservedCode(code) \/ InvalidCode(code))
           /\ Frames!Sendable(code) => 1000 <= code /\ code <= 4999 /\ code # 1005
<1>1. Frames!Sendable(code)
        <=> /\ code \in 1000..4999 /\ code \notin 1016..2999
            /\ code # 1004 /\ code # 1005 /\ code # 1006 /\ code # 1015
  BY DEF Frames!Sendable
<1>2. ~(ReservedCode(code) \/ InvalidCode(code))
        <=> /\ ~(code <= 999) /\ ~(code >= 5000) /\ code \notin 1016..2999
            /\ code # 1004 /\ code # 1005 /\ code # 1006 /\ code # 1015
  BY DEF ReservedCode, InvalidCode
<1>3. code \in 1000..4999 <=> 1000 <= code /\ code <= 4999
  OBVIOUS
<1>4. (1000 <= code <=> ~(code <= 999)) /\ (code <= 4999 <=> ~(code >= 5000))
  OBVIOUS
<1> QED
  BY <1>1, <1>2, <1>3, <1>4

\* The client judges a close frame as FrameSession does.
LEMMA CloseJudged ==
    ASSUME NEW c \in Seq(Byte)
    PROVE  /\ CloseIsBad(c) <=> ~Frames!GoodClose(c)
           /\ CloseCodeOf(c) = Frames!AckCode(c)
           /\ CloseCodeOf(c) \in Nat /\ 1000 <= CloseCodeOf(c) /\ CloseCodeOf(c) <= 4999
           /\ CloseCodeOf(c) # no_status
           /\ CloseReasonOf(c) \in Seq(Byte)
<1>1. PICK n \in Nat : n = Len(c)
  OBVIOUS
<1>2. PICK r : r = SubSeq(c, 3, n)
  BY Zenon
<1>3. r \in Seq(Byte)
  <2>1. \A i \in 3..n : c[i] \in Byte
    BY <1>1
  <2>2. n \in Int /\ 3 \in Int
    BY <1>1
  <2> QED
    BY <1>1, <1>2, <2>1, <2>2, SubSeqProperties
<1>4. PICK good \in BOOLEAN : good <=> Frames!WellFormed(r)
  BY Zenon
<1>5. Validate(Reason(c)) <=> good
  <2>1. Reason(c) = r
    BY <1>1, <1>2, Zenon DEF Reason
  <2> QED
    BY <1>3, <1>4, <2>1, TextJudged, Zenon DEF Validate
<1>6. PICK code : code = c[1] * 256 + c[2]
  BY Zenon
<1>7. PICK empty, gc, can \in BOOLEAN :
        /\ empty <=> c = <<>>
        /\ gc <=> Frames!GoodClose(c)
        /\ can <=> Frames!Sendable(code)
  BY Zenon
<1>8. PICK x, y, ack : x = ExtractCode(c) /\ y = CloseCodeOf(c) /\ ack = Frames!AckCode(c)
  BY Zenon
<1>9. /\ gc <=> empty \/ (n > 1 /\ can /\ good)
      /\ ack = IF ~gc THEN 1002 ELSE IF empty THEN 1000 ELSE code
  <2>1. Frames!GoodClose(c) <=> \/ c = <<>>
                                \/ n > 1 /\ Frames!Sendable(code) /\ Frames!WellFormed(r)
    BY <1>1, <1>2, <1>6, Zenon DEF Frames!GoodClose, Frames!CodeIn
  <2>3. PICK bad, plain : bad = 1002 /\ plain = 1000
    OBVIOUS
  <2>2. Frames!AckCode(c) = IF ~Frames!GoodClose(c) THEN bad
                            ELSE IF c = <<>> THEN plain ELSE code
    BY <1>6, <2>3, SMT DEF Frames!AckCode, Frames!CodeIn
  <2> QED
    <3>1. gc <=> empty \/ (n > 1 /\ can /\ good)
      BY <1>4, <1>7, <2>1, Zenon
    <3>2. ack = IF ~gc THEN bad ELSE IF empty THEN plain ELSE code
      BY <1>7, <1>8, <2>2, Zenon
    <3> QED
      BY <2>3, <3>1, <3>2, SMT
<1>10. /\ CloseIsBad(c) <=> x = 0 \/ ~good
       /\ y = IF x = 0 \/ ~good THEN 1002 ELSE IF x = 1005 THEN 1000 ELSE x
  <2>1. protocol_error = 1002 /\ no_status = 1005 /\ normal = 1000
    BY DEF protocol_error, no_status, normal
  <2>2. CloseCodeOf(c) = IF x = 0 \/ ~Validate(Reason(c)) THEN 1002
                         ELSE IF x = 1005 THEN 1000 ELSE x
    BY <1>8, <2>1, SMT DEF CloseCodeOf
  <2> QED
    BY <1>5, <1>8, <2>2, SMT DEF CloseIsBad
<1>15. empty <=> n = 0
  BY <1>1, <1>7
<1>16. ASSUME (x = 0 \/ ~good) <=> ~gc, y = ack, y \in Nat, 1000 <= y, y <= 4999, y # 1005
       PROVE  /\ CloseIsBad(c) <=> ~Frames!GoodClose(c)
              /\ CloseCodeOf(c) = Frames!AckCode(c)
              /\ CloseCodeOf(c) \in Nat /\ 1000 <= CloseCodeOf(c) /\ CloseCodeOf(c) <= 4999
              /\ CloseCodeOf(c) # no_status
  <2>1. no_status = 1005
    BY DEF no_status
  <2> QED
    BY <1>7, <1>8, <1>10, <1>16, <2>1, SMT
<1>11. CloseReasonOf(c) \in Seq(Byte)
  <2>1. Text(0) \in Seq(Byte) /\ Text(1) \in Seq(Byte)
    BY DEF Text, Byte
  <2>2. Reason(c) \in Seq(Byte)
    BY <1>1, <1>2, <1>3, Zenon DEF Reason
  <2> QED
    BY <2>1, <2>2 DEF CloseReasonOf
<1>12. CASE n = 0
  <2>1. x = 1005
    <3>1. Len(c) = 0
      BY <1>1, <1>12, Zenon
    <3> QED
      BY <1>8, <3>1 DEF ExtractCode, no_status
  <2>2. good
    <3>1. r = <<>>
      BY <1>1, <1>2, <1>12
    <3>2. Validate(<<>>)
      <4>1. <<>> \in Seq(Byte) /\ SubSeq(<<>>, 1, 0) = <<>>
        BY PartsNone
      <4>2. StateAt(<<>>, 0) = Accept
        BY <4>1, StatesRun
      <4> QED
        BY <4>1, <4>2, Zenon DEF StateAt, Validate
    <3>3. Reason(c) = r
      BY <1>1, <1>2, Zenon DEF Reason
    <3> QED
      BY <1>5, <3>1, <3>2, <3>3, Zenon
  <2>3. y = 1000 /\ ack = 1000 /\ gc
    BY <1>9, <1>10, <1>12, <1>15, <2>1, <2>2
  <2> QED
    BY <1>11, <1>16, <2>1, <2>2, <2>3
<1>13. CASE n = 1
  <2>1. x = 0
    <3>1. Len(c) = 1
      BY <1>1, <1>13, Zenon
    <3> QED
      BY <1>8, <3>1 DEF ExtractCode
  <2>2. ~gc /\ y = 1002 /\ ack = 1002
    BY <1>9, <1>10, <1>13, <1>15, <2>1
  <2> QED
    BY <1>11, <1>16, <2>1, <2>2
<1>14. CASE n > 1
  <2>1. code \in Nat
    <3>1. 1 \in 1..n /\ 2 \in 1..n
      BY <1>14
    <3>2. PICK u, v : u = c[1] /\ v = c[2]
      BY Zenon
    <3>3. u \in Byte /\ v \in Byte
      BY <1>1, <3>1, <3>2
    <3>4. u * 256 + v \in Nat
      BY <3>3 DEF Byte
    <3> QED
      BY <1>6, <3>2, <3>4, SMT
  <2>2. PICK refused \in BOOLEAN : refused <=> ReservedCode(code) \/ InvalidCode(code)
    BY Zenon
  <2>3. x = IF refused THEN 0 ELSE code
    <3>1. Len(c) # 0 /\ Len(c) # 1
      BY <1>1, <1>14
    <3>2. x = IF ReservedCode(code) \/ InvalidCode(code) THEN 0 ELSE code
      BY <1>6, <1>8, <3>1, Zenon DEF ExtractCode
    <3> QED
      BY <2>2, <3>2, Zenon
  <2>4. (can <=> ~refused) /\ (can => 1000 <= code /\ code <= 4999 /\ code # 1005)
    BY <1>7, <2>1, <2>2, SendableIs, SMT
  <2>5. (x = 0 \/ ~good) <=> ~gc
    BY <1>9, <1>14, <1>15, <2>3, <2>4
  <2>6. y = ack /\ y \in Nat /\ 1000 <= y /\ y <= 4999 /\ y # 1005
    BY <1>9, <1>10, <1>14, <1>15, <2>1, <2>3, <2>4
  <2> QED
    BY <1>11, <1>16, <2>5, <2>6, SMT
<1> QED
  BY <1>1, <1>12, <1>13, <1>14

-----------------------------------------------------------------------------
(* The steps of FrameSession.                                              *)

\* The session faces frame f, with the message of open begun.
Faces(i, f, open) ==
    /\ i \in Nat /\ i < Len(frames) /\ HandledFrames = i
    /\ f = frames[i + 1] /\ open = Frames!OpenPieces(i)
    /\ link \in {"open", "closing"} /\ reading

LEMMA FacesIs ==
    ASSUME NEW i, NEW f, NEW open, Faces(i, f, open)
    PROVE  /\ Frames!Hears
           /\ Frames!Following = f /\ Frames!OpenNow = open
           /\ HandledFrames + 1 = i + 1
BY Zenon DEF Faces, Frames!Hears, Frames!Following, Frames!OpenNow

\* What no step of the client changes, and what it changes when it only sends.
Quiet == frames' = frames /\ reading' = reading /\ delivered' = delivered

\* The steps of FrameSession, from what the client does to its variables.
LEMMA DataStep ==
    ASSUME NEW i, NEW f, NEW open, Faces(i, f, open), HandledFrames' = i + 1,
           ~Frames!Control(f), Frames!Fault(f, open) = 0,
           delivered' = IF link = "open" /\ f.fin
                        THEN Append(delivered, [op |-> Append(open, f)[1].op,
                                                payload |-> Frames!Payload(Append(open, f))])
                        ELSE delivered,
           frames' = frames, link' = link, reading' = reading, sent' = sent
    PROVE  Frames!HandleData
<1>1. /\ Frames!Hears /\ Frames!Following = f /\ Frames!OpenNow = open
      /\ HandledFrames + 1 = i + 1
  BY FacesIs
<1>2. Answers' = Answers
  BY Zenon DEF Answers
<1> QED
  BY <1>1, <1>2, Zenon DEF Frames!HandleData, Answers

LEMMA PingPongStep ==
    ASSUME NEW i, NEW f, NEW open, Faces(i, f, open), HandledFrames' = i + 1,
           f.op \in {PING, PONG}, Frames!Fault(f, open) = 0,
           Answers' = IF f.op = PING /\ link = "open"
                      THEN Append(Answers, [op |-> PONG, payload |-> f.payload])
                      ELSE Answers,
           link' = link, Quiet
    PROVE  Frames!HandlePingPong
<1>1. /\ Frames!Hears /\ Frames!Following = f /\ Frames!OpenNow = open
      /\ HandledFrames + 1 = i + 1
  BY FacesIs
<1>2. PING = Frames!Ping /\ PONG = 10
  BY DEF PING, PONG, Frames!Ping
<1> QED
  BY <1>1, <1>2, Zenon DEF Frames!HandlePingPong, Answers, Quiet

LEMMA CloseStep ==
    ASSUME NEW i, NEW f, NEW open, Faces(i, f, open), HandledFrames' = i + 1,
           f.op = CLOSE, Frames!Fault(f, open) = 0,
           Answers' = IF link = "open" \/ ~Frames!GoodClose(f.payload)
                      THEN Append(Answers, Frames!CloseAnswer(Frames!AckCode(f.payload)))
                      ELSE Answers,
           link' = "closing", Quiet
    PROVE  Frames!HandleClose
<1>1. /\ Frames!Hears /\ Frames!Following = f /\ Frames!OpenNow = open
      /\ HandledFrames + 1 = i + 1
  BY FacesIs
<1>2. CLOSE = Frames!Close
  BY DEF CLOSE, Frames!Close
<1> QED
  BY <1>1, <1>2, Zenon DEF Frames!HandleClose, Answers, Quiet

LEMMA FaultStep ==
    ASSUME NEW i, NEW f, NEW open, Faces(i, f, open), HandledFrames' = HandledFrames,
           Frames!Fault(f, open) # 0, reading' = FALSE,
           IF link = "open"
           THEN /\ link' = "closing"
                /\ Answers' = Append(Answers, Frames!CloseAnswer(Frames!Fault(f, open)))
           ELSE link' = "closed" /\ Answers' = Answers,
           frames' = frames, delivered' = delivered
    PROVE  Frames!HandleFault
<1>1. Frames!Hears /\ Frames!Following = f /\ Frames!OpenNow = open
  BY FacesIs
<1> QED
  BY <1>1, Zenon DEF Frames!HandleFault, Answers

LEMMA SaysStep ==
    ASSUME link = "open", sent \in Seq(Range(sent)), NEW x,
           Answers' = Append(Answers, x),
           \/ /\ x.op \in {1, 2} /\ (x.op = 1 => Frames!WellFormed(x.payload))
              /\ link' = link
           \/ /\ x.op = Frames!Close /\ Frames!Sendable(x.payload[1])
              /\ link' = "closing",
           HandledFrames' = HandledFrames, Quiet
    PROVE  Frames!Says
<1>1. PICK a, b : a = Answers /\ b = Answers'
  BY Zenon
<1>2. b = Append(a, x) /\ a \in Seq(Range(a))
  BY <1>1, AnswersType, Zenon
<1>3. Len(b) = Len(a) + 1 /\ Frames!IsPrefix(a, b) /\ Frames!Last(b) = x
  BY <1>2, PrefixGrows
<1>4. /\ Len(Answers') = Len(Answers) + 1 /\ Frames!IsPrefix(Answers, Answers')
      /\ Frames!Last(Answers') = x
  BY <1>1, <1>3, Zenon
<1> QED
  BY <1>4, Zenon DEF Frames!Says, Answers, Quiet

\* Steps FrameSession does not see.
LEMMA SessionStays ==
    ASSUME frames' = frames, HandledFrames' = HandledFrames, link' = link,
           reading' = reading,
           delivered' = delivered, sent' = sent
    PROVE  UNCHANGED Frames!sessionVars
<1>1. Answers' = Answers
  BY Zenon DEF Answers
<1> QED
  BY <1>1 DEF Frames!sessionVars, Answers

-----------------------------------------------------------------------------
(* The steps of WireRead as steps of FrameSession.                         *)

\* The fault of the frame ahead.
LEMMA FaultHere ==
    ASSUME NEW i \in Nat
    PROVE  FaultOf(i + 1) = Frames!Fault(frames[i + 1], Frames!OpenPieces(i))
<1>1. (i + 1) - 1 = i
  OBVIOUS
<1> QED
  BY <1>1, Zenon DEF FaultOf

\* A frame sent is an answer more.
LEMMA AnswerSent ==
    ASSUME WireTypeOK, NEW x, sent' = Append(sent, x), NEW y, y = Decoded(x)
    PROVE  Answers' = Append(Answers, y)
<1>1. sent \in Seq(Range(sent))
  BY DEF WireTypeOK
<1> QED
  BY <1>1, AnswersGrow, Zenon

\* The codes a close frame may carry.
Carried(code) == code \in Nat /\ 1000 <= code /\ code <= 4999 /\ code # no_status

\* A close frame that is sent answers with its code.
LEMMA CloseSent ==
    ASSUME WireTypeOK, NEW code, Carried(code),
           NEW reason \in Seq(Byte), NEW ack, SendClose(code, reason, ack)
    PROVE  link' = "closing" /\ Answers' = Append(Answers, Frames!CloseAnswer(code))
<1>1. PICK key \in MaskKeys : sent' = Append(sent, Prepared(CLOSE, ClosePayload(code, reason), key))
                              /\ link' = "closing"
  BY Zenon DEF SendClose
<1>2. Decoded(Prepared(CLOSE, ClosePayload(code, reason), key)) = Frames!CloseAnswer(code)
  BY CloseDecoded DEF Carried
<1> QED
  BY <1>1, <1>2, AnswerSent, Zenon

\* The session faces the frame behind which the processor stands.
LEMMA FacesWhere ==
    ASSUME Given, WireTypeOK, link \in {"open", "closing"}, reading,
           NEW i, StandsBehind(i), i < Len(frames)
    PROVE  Faces(i, frames[i + 1], Frames!OpenPieces(i))
<1>1. p \in Nat
  BY DEF WireTypeOK
<1>2. HandledFrames = i
  BY <1>1, HandledIs
<1>3. i \in Nat
  <2>1. Len(frames) \in Nat
    BY DEF Given, InputIs
  <2> QED
    BY <2>1 DEF StandsBehind
<1> QED
  BY <1>2, <1>3 DEF Faces

\* A turn of the processor is none of the session, or takes a piece.
LEMMA FrameTurnMaps ==
    ASSUME HandshakeInv, HandshakeInv', FrameInv, FrameTurn
    PROVE  Frames!HandleData \/ UNCHANGED Frames!sessionVars
<1>1. /\ ServerStill /\ frames' = frames /\ link' = link /\ reading' = reading
      /\ reading
      /\ delivered' = delivered /\ sent' = sent
  BY DEF FrameTurn, ServerStill, serverVars, linkVars
<1>2. WireTypeOK /\ Given /\ p \in Nat /\ p' \in Nat
  <2>1. WireTypeOK /\ WireTypeOK'
    BY DEF HandshakeInv
  <2>2. p \in Nat /\ p' \in Nat
    BY <2>1 DEF WireTypeOK
  <2> QED
    BY <2>1, <2>2, FrameInvGiven
<1>3. Given'
  BY <1>1, <1>2, GivenStays DEF ServerStill
<1>4. PICK i : Where(i) /\ (Where(i)' \/ (Reset(i, frames[i + 1]) /\ Where(i + 1)'))
  BY FrameTurnMoves
<1>5. link \in {"open", "closing"} /\ StandsBehind(i)
  BY <1>4, FrameTurnMoves DEF Where
<1>6. HandledFrames = i
  BY <1>2, <1>5, HandledIs
<1>7. CASE Where(i)'
  <2>1. StandsBehind(i)'
    BY <1>7 DEF Where
  <2>2. HandledFrames' = i
    BY <1>2, <1>3, <2>1, HandledThen
  <2> QED
    BY <1>1, <1>6, <2>2, SessionStays
<1>8. CASE Reset(i, frames[i + 1]) /\ Where(i + 1)'
  <2>1. StandsBehind(i + 1)'
    BY <1>8 DEF Where
  <2>2. HandledFrames' = i + 1
    BY <1>2, <1>3, <2>1, HandledThen
  <2>3. PICK f, open : f = frames[i + 1] /\ open = Frames!OpenPieces(i)
    BY Zenon
  <2>4. i < Len(frames) /\ FaultOf(i + 1) = 0 /\ ~Frames!Control(f) /\ ~f.fin
    BY <1>8, <2>3, Zenon DEF Reset
  <2>5. Faces(i, f, open)
    BY <1>1, <1>2, <1>5, <2>3, <2>4, FacesWhere
  <2>6. Frames!Fault(f, open) = 0
    <3>1. i \in Nat
      BY <2>5 DEF Faces
    <3> QED
      BY <2>3, <2>4, <3>1, FaultHere, Zenon
  <2> QED
    BY <1>1, <2>2, <2>4, <2>5, <2>6, DataStep
<1> QED
  BY <1>4, <1>7, <1>8

\* An error of the processor is the fault of the frame it is in.
LEMMA ConsumeFailsMaps ==
    ASSUME HandshakeInv, FrameInv, ConsumeFails
    PROVE  Frames!HandleFault
<1>1. /\ consumeError # 0 /\ reading /\ reading' = FALSE
      /\ UNCHANGED <<serverVars, p, procVars>>
      /\ frames' = frames /\ frameEnds' = frameEnds /\ p' = p /\ basic' = basic
      /\ delivered' = delivered
      /\ IF link = "open" THEN SendClose(consumeError, Text(consumeError), FALSE)
         ELSE link' = "closed" /\ sent' = sent
  BY DEF ConsumeFails, serverVars, procVars
<1>2. WireTypeOK /\ Given
  BY FrameInvGiven DEF HandshakeInv
<1>3. link \in {"open", "closing"}
  BY <1>1 DEF HandshakeInv, WireTypeOK, ProcTypeOK, LinkFollowsAnswer
<1>4. PICK i \in 0..Len(frames) : Where(i)
  BY <1>2, <1>3, Stands
<1>5. StandsBehind(i) /\ i < Len(frames) /\ consumeError = FaultOf(i + 1)
  BY <1>1, <1>4 DEF Where, OnCourse, HasFailed
<1>6. PICK f, open : f = frames[i + 1] /\ open = Frames!OpenPieces(i)
  BY Zenon
<1>7. Faces(i, f, open)
  BY <1>1, <1>2, <1>3, <1>5, <1>6, FacesWhere
<1>8. PICK code : code = Frames!Fault(f, open)
  BY Zenon
<1>9. consumeError = code
  <2>1. i \in Nat
    BY <1>7 DEF Faces
  <2> QED
    BY <1>5, <1>6, <1>8, <2>1, FaultHere, Zenon
<1>10. Carried(code)
  <2>1. code \in {1002, 1011, 1009, 1007}
    BY <1>1, <1>8, <1>9 DEF Frames!Fault
  <2> QED
    BY <2>1 DEF no_status, Carried
<1>11. HandledFrames' = HandledFrames
  BY <1>1, Zenon DEF HandledFrames
<1>12. IF link = "open"
       THEN link' = "closing" /\ Answers' = Append(Answers, Frames!CloseAnswer(code))
       ELSE link' = "closed" /\ Answers' = Answers
  <2>1. CASE link = "open"
    <3>1. SendClose(code, Text(code), FALSE)
      BY <1>1, <1>9, <2>1, Zenon
    <3>2. Text(code) \in Seq(Byte)
      <4>1. 97 + (code % 26) \in Byte
        BY <1>10 DEF Byte, Carried
      <4> QED
        BY <4>1 DEF Text
    <3> QED
      BY <1>2, <1>10, <2>1, <3>1, <3>2, CloseSent, Zenon
  <2>2. CASE link # "open"
    BY <1>1, <2>2 DEF Answers
  <2> QED
    BY <2>1, <2>2
<1> QED
  BY <1>1, <1>7, <1>8, <1>9, <1>11, <1>12, FaultStep

\* Taking a message that is ready deals with the frame that ends it.
LEMMA DispatchMaps ==
    ASSUME HandshakeInv, FrameInv, Dispatch
    PROVE  Frames!HandleData \/ Frames!HandlePingPong \/ Frames!HandleClose
<1>1. /\ ServerStill /\ frames' = frames /\ p' = p /\ reading /\ procState = "READY"
      /\ Deliver \/ AnswerPing \/ TakePong \/ AnswerClose
  BY DEF Dispatch, ServerStill, serverVars, GetMessage
<1>2. WireTypeOK /\ Given /\ p \in Nat /\ p' \in Nat
  <2>1. WireTypeOK
    BY DEF HandshakeInv
  <2>2. p \in Nat /\ p' \in Nat
    BY <1>1, <2>1 DEF WireTypeOK
  <2> QED
    BY <2>1, <2>2, FrameInvGiven
<1>3. Given'
  BY <1>1, <1>2, GivenStays DEF ServerStill
<1>4. PICK i : Where(i) /\ OnCourse(i) /\ Where(i + 1)'
  BY DispatchMoves
<1>5. link \in {"open", "closing"} /\ StandsBehind(i) /\ StandsBehind(i + 1)'
  BY <1>4, DispatchMoves DEF Where
<1>6. HandledFrames' = i + 1
  BY <1>2, <1>3, <1>5, HandledThen
<1>7. PICK f, open : f = frames[i + 1] /\ open = Frames!OpenPieces(i)
  BY Zenon
<1>8. WholeReady(i, f, open)
  BY <1>1, <1>2, <1>4, <1>5, <1>7, ReadyIs
<1>9. Faces(i, f, open)
  <2>1. i < Len(frames)
    BY <1>8, Zenon DEF WholeReady
  <2> QED
    BY <1>1, <1>2, <1>5, <1>7, <2>1, FacesWhere
<1>10. /\ Frames!Fault(f, open) = 0 /\ f.fin /\ f.payload \in Seq(Byte)
       /\ IsControl(ReadyMessage.op) <=> Frames!Control(f)
       /\ ReadyMessage.op = IF Frames!Control(f) THEN f.op ELSE Append(open, f)[1].op
       /\ ReadyMessage.payload = IF Frames!Control(f) THEN f.payload
                                 ELSE Frames!Payload(Append(open, f))
  <2>1. f \in WireFrame
    BY <1>8, Zenon DEF WholeReady
  <2>2. f.payload \in Seq(Byte)
    BY <2>1 DEF WireFrame, Byte
  <2> QED
    BY <1>8, <2>2, Zenon DEF WholeReady
<1>11. PICK m, y : m = ReadyMessage.op /\ y = ReadyMessage.payload
  BY Zenon
<1>12. CASE Deliver
  <2>1. ~IsControl(m) /\ link' = link /\ reading' = reading /\ sent' = sent
        /\ delivered' = IF link # "open" THEN delivered
                        ELSE Append(delivered, [op |-> m, payload |-> y])
    BY <1>11, <1>12 DEF Deliver, linkVars
  <2>2. ~Frames!Control(f)
    BY <1>10, <1>11, <2>1, Zenon
  <2>3. m = Append(open, f)[1].op /\ y = Frames!Payload(Append(open, f))
    BY <1>10, <1>11, <2>2, Zenon
  <2>4. delivered' = IF link = "open" /\ f.fin
                     THEN Append(delivered, [op |-> Append(open, f)[1].op,
                                             payload |-> Frames!Payload(Append(open, f))])
                     ELSE delivered
    BY <1>10, <2>1, <2>3, Zenon
  <2> QED
    BY <1>1, <1>6, <1>9, <1>10, <2>1, <2>2, <2>4, DataStep, Zenon
<1>13. ASSUME m \in {PING, PONG, CLOSE}
       PROVE  Frames!Control(f) /\ f.op = m /\ f.payload = y
  <2>1. IsControl(m)
    BY <1>13 DEF PING, PONG, CLOSE, IsControl
  <2> QED
    BY <1>10, <1>11, <2>1, Zenon
<1>14. CASE AnswerPing
  <2>1. m = PING /\ Quiet /\ link' = link
        /\ IF link = "open"
           THEN \E key \in MaskKeys : sent' = Append(sent, Prepared(PONG, y, key))
           ELSE sent' = sent
    BY <1>1, <1>11, <1>14, Zenon DEF AnswerPing, linkVars, Quiet
  <2>2. f.op = PING /\ f.payload = y
    BY <1>13, <2>1
  <2>3. Answers' = IF f.op = PING /\ link = "open"
                   THEN Append(Answers, [op |-> PONG, payload |-> f.payload])
                   ELSE Answers
    <3>1. CASE link = "open"
      <4>1. PICK key \in MaskKeys : sent' = Append(sent, Prepared(PONG, y, key))
        BY <2>1, <3>1
      <4>2. y \in Seq(Byte) /\ PONG \in {TEXT, BINARY, CLOSE, PONG} /\ PONG # CLOSE
        BY <1>10, <2>2 DEF PONG, CLOSE
      <4>3. Decoded(Prepared(PONG, y, key)) = [op |-> PONG, payload |-> y]
        BY <4>2, PreparedDecoded
      <4>4. Answers' = Append(Answers, [op |-> PONG, payload |-> y])
        BY <1>2, <4>1, <4>3, AnswerSent, Zenon
      <4> QED
        BY <2>2, <3>1, <4>4, Zenon
    <3>2. CASE link # "open"
      BY <2>1, <3>2, Zenon DEF Answers
    <3> QED
      BY <3>1, <3>2, Zenon
  <2> QED
    BY <1>6, <1>9, <1>10, <2>1, <2>2, <2>3, PingPongStep
<1>15. CASE TakePong
  <2>1. m = PONG /\ Quiet /\ link' = link /\ sent' = sent
    BY <1>1, <1>11, <1>15 DEF TakePong, linkVars, Quiet
  <2>2. f.op = PONG
    BY <1>13, <2>1
  <2>3. PING # PONG
    BY DEF PING, PONG
  <2>4. Answers' = IF f.op = PING /\ link = "open"
                   THEN Append(Answers, [op |-> PONG, payload |-> f.payload])
                   ELSE Answers
    BY <2>1, <2>2, <2>3, Zenon DEF Answers
  <2> QED
    BY <1>6, <1>9, <1>10, <2>1, <2>2, <2>4, PingPongStep
<1>16. CASE AnswerClose
  <2>1. m = CLOSE /\ Quiet
        /\ IF link = "open" \/ CloseIsBad(y)
           THEN SendClose(CloseCodeOf(y), CloseReasonOf(y), TRUE)
           ELSE link' = link /\ sent' = sent
    BY <1>1, <1>11, <1>16, Zenon DEF AnswerClose, Quiet
  <2>2. f.op = CLOSE /\ f.payload = y /\ y \in Seq(Byte)
    BY <1>10, <1>13, <2>1
  <2>3. /\ CloseIsBad(y) <=> ~Frames!GoodClose(y)
        /\ CloseCodeOf(y) = Frames!AckCode(y)
        /\ Carried(CloseCodeOf(y)) /\ CloseReasonOf(y) \in Seq(Byte)
    BY <2>2, CloseJudged DEF Carried
  <2>4. /\ link' = "closing"
        /\ Answers' = IF link = "open" \/ ~Frames!GoodClose(y)
                      THEN Append(Answers, Frames!CloseAnswer(Frames!AckCode(y)))
                      ELSE Answers
    <3>1. CASE link = "open" \/ CloseIsBad(y)
      <4>1. SendClose(CloseCodeOf(y), CloseReasonOf(y), TRUE)
        BY <2>1, <3>1
      <4>2. /\ link' = "closing"
            /\ Answers' = Append(Answers, Frames!CloseAnswer(CloseCodeOf(y)))
        BY <1>2, <2>3, <4>1, CloseSent, Zenon
      <4> QED
        BY <2>3, <3>1, <4>2, Zenon
    <3>2. CASE ~(link = "open" \/ CloseIsBad(y))
      <4>1. link' = link /\ sent' = sent
        BY <2>1, <3>2, Zenon
      <4>2. Answers' = Answers
        BY <4>1, Zenon DEF Answers
      <4> QED
        BY <1>5, <2>3, <3>2, <4>1, <4>2
    <3> QED
      BY <3>1, <3>2, Zenon
  <2> QED
    BY <1>6, <1>9, <1>10, <2>1, <2>2, <2>4, CloseStep
<1> QED
  BY <1>1, <1>12, <1>14, <1>15, <1>16

\* What the program sends or closes with is said; text that is refused is not.
LEMMA SendMaps ==
    ASSUME HandshakeInv, FrameInv, Send \/ Close
    PROVE  Frames!Says \/ UNCHANGED Frames!sessionVars
<1>1. /\ frames' = frames /\ frameEnds' = frameEnds /\ p' = p /\ basic' = basic
      /\ reading' = reading /\ delivered' = delivered
      /\ link = "open" /\ program # <<>> /\ program' = Tail(program)
  BY DEF Send, Close, serverVars, procVars, linkVars
<1>2. HandledFrames' = HandledFrames /\ Quiet
  BY <1>1, Zenon DEF HandledFrames, Quiet
<1>3. WireTypeOK /\ sent \in Seq(Range(sent))
  BY DEF HandshakeInv, WireTypeOK
<1>4. PICK call : call = Head(program)
  BY Zenon
<1>5. CallFits(call)
  BY <1>1, <1>4, CallsStay DEF FrameInv
<1>6. CASE Send
  <2>1. /\ call.op # CLOSE /\ link' = link
        /\ IF DataFrameRefused(call.op, call.payload) THEN sent' = sent
           ELSE \E key \in MaskKeys : sent' = Append(sent, Prepared(call.op, call.payload, key))
    <3>1. /\ Head(program).op # CLOSE /\ link' = link
          /\ IF DataFrameRefused(Head(program).op, Head(program).payload)
             THEN sent' = sent
             ELSE \E key \in MaskKeys :
                    sent' = Append(sent, Prepared(Head(program).op, Head(program).payload, key))
      BY <1>6 DEF Send, linkVars
    <3> QED
      BY <1>4, <3>1, Zenon
  <2>2. call.op \in {TEXT, BINARY} /\ call.payload \in Seq(Byte)
    BY <1>5, <2>1, Zenon DEF CallFits, Byte
  <2>3. PICK op, y : op = call.op /\ y = call.payload
    BY Zenon
  <2>4. CASE DataFrameRefused(op, y)
    <3>1. sent' = sent
      BY <2>1, <2>3, <2>4, Zenon
    <3> QED
      BY <1>1, <1>2, <2>1, <3>1, SessionStays
  <2>5. CASE ~DataFrameRefused(op, y)
    <3>1. PICK key \in MaskKeys : sent' = Append(sent, Prepared(op, y, key))
      BY <2>1, <2>3, <2>5
    <3>2. /\ op \in {TEXT, BINARY, CLOSE, PONG} /\ op # CLOSE /\ op \in {1, 2}
          /\ y \in Seq(Byte)
      BY <2>2, <2>3 DEF TEXT, BINARY, CLOSE
    <3>3. PICK x : x = [op |-> op, payload |-> y]
      BY Zenon
    <3>4. Decoded(Prepared(op, y, key)) = x
      BY <3>2, <3>3, PreparedDecoded
    <3>5. Answers' = Append(Answers, x)
      BY <1>3, <3>1, <3>4, AnswerSent, Zenon
    <3>6. x.op = 1 => Frames!WellFormed(x.payload)
      <4>1. op = 1 => Validate(y)
        BY <2>5 DEF DataFrameRefused, TEXT
      <4>2. Validate(y) <=> Frames!WellFormed(y)
        BY <3>2, TextJudged DEF Validate
      <4>3. x.op = op /\ x.payload = y
        BY <3>3
      <4> QED
        BY <4>1, <4>2, <4>3, Zenon
    <3>7. x.op \in {1, 2}
      BY <3>2, <3>3
    <3> QED
      BY <1>1, <1>2, <1>3, <2>1, <3>5, <3>6, <3>7, SaysStep
  <2> QED
    BY <2>4, <2>5
<1>7. CASE Close
  <2>1. call.op = CLOSE /\ SendClose(call.code, <<>>, FALSE)
    BY <1>4, <1>7, Zenon DEF Close
  <2>2. PICK code : code = call.code
    BY Zenon
  <2>3. code \in Nat /\ ~ReservedCode(code) /\ ~InvalidCode(code)
    <3>1. CLOSE \notin {TEXT, BINARY}
      BY DEF CLOSE, TEXT, BINARY
    <3>2. \/ call.op \in {TEXT, BINARY}
          \/ call.op = CLOSE /\ call.code \in Nat
             /\ ~ReservedCode(call.code) /\ ~InvalidCode(call.code)
      BY <1>5, Zenon DEF CallFits
    <3> QED
      BY <2>1, <2>2, <3>1, <3>2, Zenon
  <2>4. Frames!Sendable(code) /\ Carried(code)
    BY <2>3, SendableIs DEF Carried, no_status
  <2>5. <<>> \in Seq(Byte)
    OBVIOUS
  <2>6. link' = "closing" /\ Answers' = Append(Answers, Frames!CloseAnswer(code))
    BY <1>3, <2>1, <2>2, <2>4, <2>5, CloseSent, Zenon
  <2>7. PICK x : x = Frames!CloseAnswer(code)
    BY Zenon
  <2>8. x.op = Frames!Close /\ x.payload[1] = code
    BY <2>7 DEF Frames!CloseAnswer
  <2> QED
    BY <1>1, <1>2, <1>3, <2>4, <2>6, <2>7, <2>8, SaysStep, Zenon
<1> QED
  BY <1>6, <1>7

\* Before the connection opens the session has handled nothing.
LEMMA BeginsUnhandled ==
    ASSUME FrameInv, WireTypeOK, link = "connecting"
    PROVE  HandledFrames = 0
<1>1. Given /\ p \in Nat
  BY FrameInvGiven DEF WireTypeOK
<1>2. p <= EndOf(0) /\ basic = <<>>
  BY DEF FrameInv, NotBegun
<1> QED
  BY <1>1, <1>2, NothingHandled

LEMMA UnhandledNow ==
    FrameInv /\ WireTypeOK /\ link = "connecting" => HandledFrames = 0
BY BeginsUnhandled

LEMMA UnhandledThen ==
    FrameInv' /\ WireTypeOK' /\ link' = "connecting" => HandledFrames' = 0
<1>1. (FrameInv /\ WireTypeOK /\ link = "connecting" => HandledFrames = 0)'
  BY UnhandledNow, PTL
<1> QED
  BY <1>1

\* The session begins with the client.
LEMMA SessionBegins == WireInit /\ Orderly => Frames!SessionInit
<1> SUFFICES ASSUME WireInit, Orderly PROVE Frames!SessionInit
  OBVIOUS
<1>1. link = "connecting" /\ reading = TRUE /\ delivered = <<>> /\ sent = <<>>
  BY DEF WireInit
<1>2. FrameInv /\ WireTypeOK
  BY FrameInvInit, InitHandshakeInv DEF HandshakeInv
<1>3. HandledFrames = 0
  BY <1>1, <1>2, BeginsUnhandled
<1>4. Answers = <<>>
  <2>1. DOMAIN sent = {}
    BY <1>1
  <2> QED
    BY <2>1, SMT DEF Answers
<1> QED
  BY <1>1, <1>3, <1>4, Zenon DEF Frames!SessionInit, Answers

\* Every step of the client is one of the session, or none that it sees.
LEMMA StepMaps ==
    ASSUME HandshakeInv, HandshakeInv', FrameInv, FrameInv', [WireNext]_wireVars
    PROVE  [Frames!SessionNext]_(Frames!sessionVars)
<1> USE DEF Frames!SessionNext
<1>1. WireTypeOK /\ WireTypeOK'
  BY DEF HandshakeInv
<1>2. ASSUME UNCHANGED <<serverVars, p, procVars, linkVars, delivered, sent>>
      PROVE  UNCHANGED Frames!sessionVars
  <2>1. /\ frames' = frames /\ link' = link /\ reading' = reading
        /\ delivered' = delivered /\ sent' = sent
        /\ frameEnds' = frameEnds /\ p' = p /\ basic' = basic
    BY <1>2 DEF serverVars, procVars, linkVars
  <2>2. HandledFrames' = HandledFrames
    BY <2>1, Zenon DEF HandledFrames
  <2> QED
    BY <2>1, <2>2, SessionStays
<1>3. CASE \E n \in 1..Len(input) - lim : Read(n)
  BY <1>2, <1>3 DEF Read
<1>4. CASE ReadResponse
  <2>1. /\ link = "connecting" /\ link' = link /\ frames' = frames /\ reading' = reading
        /\ delivered' = delivered /\ sent' = sent
    BY <1>4 DEF ReadResponse, linkVars
  <2>2. HandledFrames = 0 /\ HandledFrames' = 0
    BY <1>1, <2>1, UnhandledNow, UnhandledThen
  <2>3. HandledFrames' = HandledFrames
    BY <2>2
  <2> QED
    BY <2>1, <2>3, SessionStays
<1>5. CASE ResponseFails
  <2>1. /\ link = "connecting" /\ link' = "closed" /\ reading' = FALSE
        /\ frames' = frames /\ delivered' = delivered /\ sent' = sent
        /\ frameEnds' = frameEnds /\ p' = p /\ basic' = basic
    BY <1>5 DEF ResponseFails, Terminate, serverVars, procVars
  <2>2. HandledFrames' = HandledFrames
    BY <2>1, Zenon DEF HandledFrames
  <2>3. Answers' = Answers
    BY <2>1, Zenon DEF Answers
  <2>4. Frames!Refused
    BY <2>1, <2>2, <2>3 DEF Frames!Refused, Answers
  <2> QED
    BY <2>4
<1>6. CASE Opens
  <2>1. /\ link = "connecting" /\ link' = "open" /\ reading' = reading
        /\ frames' = frames /\ delivered' = delivered /\ sent' = sent
        /\ frameEnds' = frameEnds /\ p' = p /\ basic' = basic
    BY <1>6 DEF Opens, serverVars, procVars
  <2>2. HandledFrames' = HandledFrames
    BY <2>1, Zenon DEF HandledFrames
  <2>3. Answers' = Answers
    BY <2>1, Zenon DEF Answers
  <2>4. Frames!Open
    BY <2>1, <2>2, <2>3 DEF Frames!Open, Answers
  <2> QED
    BY <2>4
<1>7. CASE FrameTurn
  <2>1. Frames!HandleData \/ UNCHANGED Frames!sessionVars
    BY <1>7, FrameTurnMaps
  <2> QED
    BY <2>1
<1>8. CASE ConsumeFails
  <2>1. Frames!HandleFault
    BY <1>8, ConsumeFailsMaps
  <2> QED
    BY <2>1
<1>9. CASE Dispatch
  <2>1. Frames!HandleData \/ Frames!HandlePingPong \/ Frames!HandleClose
    BY <1>9, DispatchMaps
  <2> QED
    BY <2>1
<1>10. CASE Send \/ Close
  <2>1. Frames!Says \/ UNCHANGED Frames!sessionVars
    BY <1>10, SendMaps
  <2> QED
    BY <2>1
<1>11. CASE UNCHANGED wireVars
  BY <1>2, <1>11 DEF wireVars
<1> QED
  BY <1>3, <1>4, <1>5, <1>6, <1>7, <1>8, <1>9, <1>10, <1>11 DEF WireNext

\* However the reads cut the bytes, the client delivers the messages, answers
\* the pings and closes and finds the faults of FrameSession, one whole frame
\* after the other, and what it sends decodes to just these answers.
THEOREM FramesAreHandledWhole == WireSpec /\ Orderly => ImplementsFrameSession
<1>1. WireInit /\ Orderly => Frames!SessionInit
  BY SessionBegins
<1>2. /\ HandshakeInv /\ HandshakeInv' /\ FrameInv /\ FrameInv' /\ [WireNext]_wireVars
      => [Frames!SessionNext]_(Frames!sessionVars)
  BY StepMaps
<1> QED
  BY <1>1, <1>2, HandshakeInvariance, FrameInvariance, PTL
     DEF WireSpec, ImplementsFrameSession, Frames!SessionSpec
=============================================================================
