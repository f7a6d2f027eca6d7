---------------------------- MODULE CodecProofs ----------------------------
(***************************************************************************)
(* Proofs about the two codecs a message goes through, for strings of any  *)
(* length: base64_encode and base64_decode are base64 by bits, and the     *)
(* validator's tables are the definition of UTF-8.                         *)
(***************************************************************************)
EXTENDS Base64, Utf8, FiniteSetTheorems, FunctionTheorems, SequenceTheorems, TLAPS

-----------------------------------------------------------------------------
(* Induction.  A set of numbers stands for what is proved of its elements. *)

\* A set with 0 that is closed under the successor holds every number: were n
\* missing, the successor would map its finitely many elements up to n one to
\* one into those but 0.
LEMMA SetInduction ==
    ASSUME NEW S, 0 \in S, \A i \in Nat : i \in S => i + 1 \in S,
           NEW n \in Nat
    PROVE  n \in S
<1> SUFFICES ASSUME n \notin S PROVE FALSE
  OBVIOUS
<1> DEFINE T == S \cap (0..n)
           f == [i \in T |-> i + 1]
<1>1. IsFiniteSet(T)
  <2>1. IsFiniteSet(0..n)
    BY FS_Interval
  <2> QED
    BY <2>1, FS_Intersection
<1>2. f \in [T -> T \ {0}]
  <2> SUFFICES ASSUME NEW i \in T PROVE i + 1 \in T \ {0}
    OBVIOUS
  <2>1. i \in Nat /\ i <= n /\ i # n
    OBVIOUS
  <2> QED
    BY <2>1
<1>3. \A i, j \in T : f[i] = f[j] => i = j
  OBVIOUS
<1>4. f \in Injection(T, T \ {0})
  BY <1>2, <1>3, Fun_IsInj
<1>5. /\ IsFiniteSet(T \ {0})
      /\ Cardinality(T \ {0}) = Cardinality(T) - 1
  <2>1. 0 \in T
    OBVIOUS
  <2> QED
    BY <1>1, <2>1, FS_RemoveElement
<1>6. Cardinality(T) <= Cardinality(T \ {0})
  BY <1>4, <1>5, FS_Injection
<1>7. Cardinality(T) \in Nat
  BY <1>1, FS_CardinalityType
<1> QED
  BY <1>5, <1>6, <1>7

-----------------------------------------------------------------------------
(* Base64: what is encoded is decoded to itself.                           *)

\* A digit of base 64 is found where it was taken from.
LEMMA SymbolHasValue ==
    ASSUME NEW v \in 0..63
    PROVE  /\ Symbol(v) \in Byte
           /\ Value(Symbol(v)) = v
           /\ IsBase64(Symbol(v))
           /\ Symbol(v) # Pad
<1>1. CASE v \in 0..25
  BY <1>1 DEF Symbol, Value, IsBase64, Pad, Byte
<1>2. CASE v \in 26..51
  BY <1>2 DEF Symbol, Value, IsBase64, Pad, Byte
<1>3. CASE v \in 52..61
  BY <1>3 DEF Symbol, Value, IsBase64, Pad, Byte
<1>4. CASE v = 62
  BY <1>4 DEF Symbol, Value, IsBase64, Pad, Byte
<1>5. CASE v = 63
  BY <1>5 DEF Symbol, Value, IsBase64, Pad, Byte
<1> QED BY <1>1, <1>2, <1>3, <1>4, <1>5

\* Four digits hold three bytes.
LEMMA QuartetHoldsTriple ==
    ASSUME NEW b1 \in Byte, NEW b2 \in Byte, NEW b3 \in Byte
    PROVE  /\ \A k \in 1..4 : Quartet(<<b1, b2, b3>>)[k] \in 0..63
           /\ Triple(Quartet(<<b1, b2, b3>>)) = <<b1, b2, b3>>
<1> DEFINE q == Quartet(<<b1, b2, b3>>)
<1> DEFINE q1 == q[1]
<1> DEFINE q2 == q[2]
<1> DEFINE q3 == q[3]
<1> DEFINE q4 == q[4]
<1>1. /\ q1 = b1 \div 4
      /\ q2 = (b1 % 4) * 16 + b2 \div 16
      /\ q3 = (b2 % 16) * 4 + b3 \div 64
      /\ q4 = b3 % 64
  BY DEF Quartet
<1>2. PICK x1 \in 0..63, y1 \in 0..3 : b1 = 4 * x1 + y1
  <2>1. /\ b1 \div 4 \in 0..63 /\ b1 % 4 \in 0..3
        /\ b1 = 4 * (b1 \div 4) + (b1 % 4)
    BY DEF Byte
  <2> QED BY <2>1
<1>3. PICK x2 \in 0..15, y2 \in 0..15 : b2 = 16 * x2 + y2
  <2>1. /\ b2 \div 16 \in 0..15 /\ b2 % 16 \in 0..15
        /\ b2 = 16 * (b2 \div 16) + (b2 % 16)
    BY DEF Byte
  <2> QED BY <2>1
<1>4. PICK x3 \in 0..3, y3 \in 0..63 : b3 = 64 * x3 + y3
  <2>1. /\ b3 \div 64 \in 0..3 /\ b3 % 64 \in 0..63
        /\ b3 = 64 * (b3 \div 64) + (b3 % 64)
    BY DEF Byte
  <2> QED BY <2>1
<1> HIDE DEF q1, q2, q3, q4
<1>5. q1 = x1 /\ q2 = 16 * y1 + x2 /\ q3 = 4 * y2 + x3 /\ q4 = y3
  <2>1. b1 \div 4 = x1 /\ b1 % 4 = y1
    BY <1>2
  <2>2. b2 \div 16 = x2 /\ b2 % 16 = y2
    BY <1>3
  <2>3. b3 \div 64 = x3 /\ b3 % 64 = y3
    BY <1>4
  <2> QED BY <1>1, <2>1, <2>2, <2>3
<1>6. q1 \in 0..63 /\ q2 \in 0..63 /\ q3 \in 0..63 /\ q4 \in 0..63
  BY <1>5
<1>7. /\ (q2 \div 16) % 4 = y1 /\ q2 % 16 = x2
      /\ (q3 \div 4) % 16 = y2 /\ q3 % 4 = x3
  BY <1>5
<1>8. /\ (q1 * 4 + ((q2 \div 16) % 4)) % 256 = b1
      /\ ((q2 % 16) * 16 + ((q3 \div 4) % 16)) % 256 = b2
      /\ ((q3 % 4) * 64 + q4) % 256 = b3
  BY <1>2, <1>3, <1>4, <1>5, <1>7
<1> QED BY <1>6, <1>8 DEF Triple, q1, q2, q3, q4

\* The number of digits, and of bytes again, of a string of n bytes.
LEMMA LengthsFit ==
    ASSUME NEW n \in Nat
    PROVE  /\ Significant(n) \in Nat /\ EncodedLength(n) \in Nat
           /\ Significant(n) <= EncodedLength(n)
           /\ DecodedLength(Significant(n)) = n
<1>1. PICK g \in Nat, r \in 0..2 : n = 3 * g + r
  <2>1. n \div 3 \in Nat /\ n % 3 \in 0..2 /\ n = 3 * (n \div 3) + (n % 3)
    OBVIOUS
  <2> QED BY <2>1
<1>2. CASE r = 0
  <2>1. Significant(n) = 4 * g /\ EncodedLength(n) = 4 * g
    BY <1>1, <1>2 DEF Significant, EncodedLength
  <2>2. (4 * g) \div 4 = g /\ (4 * g) % 4 = 0
    BY <1>1
  <2> QED BY <1>1, <1>2, <2>1, <2>2 DEF DecodedLength
<1>3. CASE r = 1
  <2>1. Significant(n) = 4 * g + 2 /\ EncodedLength(n) = 4 * g + 4
    BY <1>1, <1>3 DEF Significant, EncodedLength
  <2>2. (4 * g + 2) \div 4 = g /\ (4 * g + 2) % 4 = 2
    BY <1>1
  <2> QED BY <1>1, <1>3, <2>1, <2>2 DEF DecodedLength
<1>4. CASE r = 2
  <2>1. Significant(n) = 4 * g + 3 /\ EncodedLength(n) = 4 * g + 4
    BY <1>1, <1>4 DEF Significant, EncodedLength
  <2>2. (4 * g + 3) \div 4 = g /\ (4 * g + 3) % 4 = 3
    BY <1>1
  <2> QED BY <1>1, <1>4, <2>1, <2>2 DEF DecodedLength
<1> QED BY <1>1, <1>2, <1>3, <1>4

\* The digits of every group are digits.
LEMMA GroupDigits ==
    ASSUME NEW s \in Seq(Byte), NEW g \in Nat
    PROVE  /\ \A k \in 1..4 : Quartet(BytesAt(s, g))[k] \in 0..63
           /\ Triple(Quartet(BytesAt(s, g))) = BytesAt(s, g)
           /\ BytesAt(s, g)[1] \in Byte /\ BytesAt(s, g)[2] \in Byte
           /\ BytesAt(s, g)[3] \in Byte
<1> DEFINE b == BytesAt(s, g)
<1>1. b[1] \in Byte /\ b[2] \in Byte /\ b[3] \in Byte
  <2>1. Len(s) \in Nat /\ \A i \in 1..Len(s) : s[i] \in Byte
    OBVIOUS
  <2>2. \A k \in 1..3 : b[k] = IF 3 * g + k <= Len(s) THEN s[3 * g + k] ELSE 0
    BY DEF BytesAt
  <2>3. \A k \in 1..3 : 3 * g + k <= Len(s) => 3 * g + k \in 1..Len(s)
    BY <2>1
  <2>4. 0 \in Byte
    BY DEF Byte
  <2>5. \A k \in 1..3 : b[k] \in Byte
    BY <2>1, <2>2, <2>3, <2>4
  <2> QED BY <2>5
<1>2. b = <<b[1], b[2], b[3]>>
  BY DEF BytesAt
<1>3. /\ \A k \in 1..4 : Quartet(<<b[1], b[2], b[3]>>)[k] \in 0..63
      /\ Triple(Quartet(<<b[1], b[2], b[3]>>)) = <<b[1], b[2], b[3]>>
  BY <1>1, QuartetHoldsTriple
<1> QED BY <1>1, <1>2, <1>3

\* Every character in front of the padding is the symbol of its digit.
LEMMA EncodedCharacters ==
    ASSUME NEW s \in Seq(Byte)
    PROVE  /\ Encode(s) \in Seq(Nat)
           /\ Len(Encode(s)) = EncodedLength(Len(s))
           /\ \A m \in 1..Significant(Len(s)) :
                LET d == Quartet(BytesAt(s, (m - 1) \div 4))[((m - 1) % 4) + 1]
                IN /\ Encode(s)[m] # Pad
                   /\ IsBase64(Encode(s)[m])
                   /\ Value(Encode(s)[m]) = d
           /\ \A m \in 1..EncodedLength(Len(s)) :
                m > Significant(Len(s)) => Encode(s)[m] = Pad
<1> DEFINE n == Len(s)
<1> DEFINE d(m) == Quartet(BytesAt(s, (m - 1) \div 4))[((m - 1) % 4) + 1]
<1>1. /\ Significant(n) \in Nat /\ EncodedLength(n) \in Nat
      /\ Significant(n) <= EncodedLength(n)
  BY LengthsFit
<1>2. \A m \in Nat \ {0} : d(m) \in 0..63
  <2> TAKE m \in Nat \ {0}
  <2>1. (m - 1) \div 4 \in Nat /\ ((m - 1) % 4) + 1 \in 1..4
    OBVIOUS
  <2> QED BY <2>1, GroupDigits
<1>3. \A m \in Nat \ {0} : /\ Symbol(d(m)) \in Byte /\ Symbol(d(m)) # Pad
                           /\ Value(Symbol(d(m))) = d(m) /\ IsBase64(Symbol(d(m)))
  BY <1>2, SymbolHasValue
<1> HIDE DEF d
<1>4. Encode(s) = [m \in 1..EncodedLength(n) |->
                     IF m <= Significant(n) THEN Symbol(d(m)) ELSE Pad]
  BY DEF Encode, d
<1>5. \A m \in 1..EncodedLength(n) : Encode(s)[m] \in Nat
  <2> TAKE m \in 1..EncodedLength(n)
  <2>1. m \in Nat \ {0}
    BY <1>1
  <2>2. Symbol(d(m)) \in Nat /\ Pad \in Nat
    <3>1. Symbol(d(m)) \in Byte
      BY <1>3, <2>1
    <3>2. /\ \A x \in Byte : x \in Nat
          /\ Pad \in Nat
      BY DEF Byte, Pad
    <3> QED BY <3>1, <3>2
  <2> QED BY <1>4, <2>2
<1>6. Encode(s) \in Seq(Nat) /\ Len(Encode(s)) = EncodedLength(n)
  BY <1>1, <1>4, <1>5
<1>7. \A m \in 1..Significant(n) : Encode(s)[m] = Symbol(d(m)) /\ m \in Nat \ {0}
  BY <1>1, <1>4
<1>8. \A m \in 1..EncodedLength(n) : m > Significant(n) => Encode(s)[m] = Pad
  BY <1>1, <1>4
<1> QED BY <1>3, <1>6, <1>7, <1>8 DEF d

\* base64_decode takes all digits, and none of the padding.
LEMMA AllDigitsTaken ==
    ASSUME NEW s \in Seq(Byte)
    PROVE  Taken64(Encode(s)) = Significant(Len(s))
<1> DEFINE t == Encode(s)
<1> DEFINE w == Significant(Len(s))
<1> DEFINE Stops(n) == /\ \A k \in 1..n : t[k] # Pad /\ IsBase64(t[k])
                       /\ n < Len(t) => t[n + 1] = Pad \/ ~IsBase64(t[n + 1])
<1>1. /\ t \in Seq(Nat) /\ Len(t) = EncodedLength(Len(s))
      /\ w \in Nat /\ EncodedLength(Len(s)) \in Nat /\ w <= Len(t)
      /\ \A m \in 1..w : t[m] # Pad /\ IsBase64(t[m])
      /\ \A m \in 1..Len(t) : m > w => t[m] = Pad
  <2>1. Len(s) \in Nat
    OBVIOUS
  <2>2. w \in Nat /\ EncodedLength(Len(s)) \in Nat /\ w <= EncodedLength(Len(s))
    BY <2>1, LengthsFit
  <2>3. t \in Seq(Nat) /\ Len(t) = EncodedLength(Len(s))
    BY EncodedCharacters
  <2>4. \A m \in 1..w : t[m] # Pad /\ IsBase64(t[m])
    BY EncodedCharacters
  <2>5. \A m \in 1..EncodedLength(Len(s)) : m > w => t[m] = Pad
    BY EncodedCharacters
  <2> QED BY <2>2, <2>3, <2>4, <2>5
<1> HIDE DEF t, w
<1>2. w \in 0..Len(t) /\ Stops(w)
  BY <1>1
<1>3. ASSUME NEW n \in 0..Len(t), Stops(n)
      PROVE  n = w
  BY <1>1, <1>3
<1>4. Taken64(t) = CHOOSE n \in 0..Len(t) : Stops(n)
  BY DEF Taken64
<1> HIDE DEF Stops
<1>5. Taken64(t) \in 0..Len(t) /\ Stops(Taken64(t))
  BY <1>2, <1>4
<1> QED BY <1>3, <1>5 DEF t, w

\* Decoding what was encoded gives it back, whatever the length and whatever
\* the bytes: the two functions of base64.hpp fit together.
THEOREM DecodeInvertsEncode ==
    ASSUME NEW s \in Seq(Byte)
    PROVE  Decode64(Encode(s)) = s
<1> DEFINE t == Encode(s)
<1> DEFINE n == Len(s)
<1> DEFINE w == Significant(n)
<1>1. Taken64(t) = w /\ w \in Nat /\ DecodedLength(w) = n /\ n \in Nat
  <2>1. n \in Nat
    OBVIOUS
  <2>2. Taken64(t) = w
    BY AllDigitsTaken
  <2> QED BY <2>1, <2>2, LengthsFit
<1>2. ASSUME NEW m \in 1..n
      PROVE  Triple(ValuesAt(t, w, (m - 1) \div 3))[((m - 1) % 3) + 1] = s[m]
  <2>1. PICK g \in Nat, j \in 1..3 : m = 3 * g + j
    <3>1. /\ (m - 1) \div 3 \in Nat /\ ((m - 1) % 3) + 1 \in 1..3
          /\ m = 3 * ((m - 1) \div 3) + (((m - 1) % 3) + 1)
      OBVIOUS
    <3> QED BY <3>1
  <2>2. (m - 1) \div 3 = g /\ ((m - 1) % 3) + 1 = j
    BY <2>1
  <2> DEFINE b == BytesAt(s, g)
  <2> DEFINE q == Quartet(b)
  <2> DEFINE v == ValuesAt(t, w, g)
  <2>3. \A k \in 1..(j + 1) : 4 * g + k \in 1..w
    BY <1>1, <2>1 DEF Significant
  <2>4. \A k \in 1..4 : 4 * g + k \in 1..w => v[k] = q[k]
    <3> TAKE k \in 1..4
    <3> HAVE 4 * g + k \in 1..w
    <3>1. (4 * g + k - 1) \div 4 = g /\ ((4 * g + k - 1) % 4) + 1 = k
      OBVIOUS
    <3>2. \A i \in 1..w :
            Value(t[i]) = Quartet(BytesAt(s, (i - 1) \div 4))[((i - 1) % 4) + 1]
      BY EncodedCharacters
    <3>3. Value(t[4 * g + k])
            = Quartet(BytesAt(s, (4 * g + k - 1) \div 4))[((4 * g + k - 1) % 4) + 1]
      BY <3>2
    <3>4. Value(t[4 * g + k]) = q[k]
      BY <3>1, <3>3
    <3>5. 4 * g + k <= w
      BY <1>1
    <3> QED BY <3>4, <3>5 DEF ValuesAt
  <2>5. Triple(q) = b /\ b[j] = s[m]
    <3>1. Triple(q) = b
      BY GroupDigits
    <3>2. b[j] = s[m]
      BY <2>1 DEF BytesAt
    <3> QED BY <3>1, <3>2
  <2> HIDE DEF b, q, v, w, t, n
  <2>6. \A k \in 1..(j + 1) : v[k] = q[k]
    <3> TAKE k \in 1..(j + 1)
    <3>1. k \in 1..4
      BY <2>1
    <3>2. 4 * g + k \in 1..w
      BY <2>3
    <3> QED BY ONLY <3>1, <3>2, <2>4
  <2>7. Triple(v)[j] = Triple(q)[j]
    <3>1. CASE j = 1
      BY <2>6, <3>1 DEF Triple
    <3>2. CASE j = 2
      BY <2>6, <3>2 DEF Triple
    <3>3. CASE j = 3
      BY <2>6, <3>3 DEF Triple
    <3> QED BY <3>1, <3>2, <3>3
  <2> QED BY <2>2, <2>5, <2>7 DEF v
<1>3. Decode64(t) = [m \in 1..n |->
                       Triple(ValuesAt(t, w, (m - 1) \div 3))[((m - 1) % 3) + 1]]
  BY <1>1 DEF Decode64
<1>4. Decode64(t) = [m \in 1..n |-> s[m]]
  BY <1>2, <1>3
<1> QED BY <1>4

-----------------------------------------------------------------------------
(* Groups of bytes and strings of bits.                                    *)

\* A byte is the sum of its bits.
LEMMA BitsOfByte ==
    ASSUME NEW b \in 0..255
    PROVE  \E x \in [0..7 -> 0..1] :
              /\ b = 128 * x[0] + 64 * x[1] + 32 * x[2] + 16 * x[3] + 8 * x[4]
                     + 4 * x[5] + 2 * x[6] + x[7]
              /\ \A k \in 0..7 : (b \div Pow2(7 - k)) % 2 = x[k]
<1> DEFINE x == [k \in 0..7 |-> (b \div Pow2(7 - k)) % 2]
<1>1. /\ Pow2(7 - 0) = 128 /\ Pow2(7 - 1) = 64 /\ Pow2(7 - 2) = 32
      /\ Pow2(7 - 3) = 16 /\ Pow2(7 - 4) = 8 /\ Pow2(7 - 5) = 4
      /\ Pow2(7 - 6) = 2 /\ Pow2(7 - 7) = 1
  BY DEF Pow2
<1>2. /\ x[0] = (b \div 128) % 2 /\ x[1] = (b \div 64) % 2
      /\ x[2] = (b \div 32) % 2 /\ x[3] = (b \div 16) % 2
      /\ x[4] = (b \div 8) % 2 /\ x[5] = (b \div 4) % 2
      /\ x[6] = (b \div 2) % 2 /\ x[7] = (b \div 1) % 2
  BY <1>1
<1>3. \A k \in 0..7 : k = 0 \/ k = 1 \/ k = 2 \/ k = 3 \/ k = 4 \/ k = 5
                      \/ k = 6 \/ k = 7
  OBVIOUS
<1>4. \A k \in 0..7 : (b \div Pow2(7 - k)) % 2 \in 0..1
  <2> TAKE k \in 0..7
  <2>1. Pow2(7 - k) \in {1, 2, 4, 8, 16, 32, 64, 128}
    BY <1>1, <1>3
  <2> QED
    BY <2>1
<1>5. x \in [0..7 -> 0..1]
  BY <1>4
<1>6. b = 128 * x[0] + 64 * x[1] + 32 * x[2] + 16 * x[3] + 8 * x[4]
          + 4 * x[5] + 2 * x[6] + x[7]
  <2> HIDE DEF x
  <2> QED
    BY <1>2
<1> QED
  BY <1>5, <1>6

\* A digit is the sum of its bits.
LEMMA BitsOfDigit ==
    ASSUME NEW v \in 0..63
    PROVE  \E x \in [0..5 -> 0..1] :
              /\ v = 32 * x[0] + 16 * x[1] + 8 * x[2] + 4 * x[3] + 2 * x[4] + x[5]
              /\ \A k \in 0..5 : (v \div Pow2(5 - k)) % 2 = x[k]
<1> DEFINE x == [k \in 0..5 |-> (v \div Pow2(5 - k)) % 2]
<1>1. /\ Pow2(5 - 0) = 32 /\ Pow2(5 - 1) = 16 /\ Pow2(5 - 2) = 8
      /\ Pow2(5 - 3) = 4 /\ Pow2(5 - 4) = 2 /\ Pow2(5 - 5) = 1
  BY DEF Pow2
<1>2. /\ x[0] = (v \div 32) % 2 /\ x[1] = (v \div 16) % 2
      /\ x[2] = (v \div 8) % 2 /\ x[3] = (v \div 4) % 2
      /\ x[4] = (v \div 2) % 2 /\ x[5] = (v \div 1) % 2
  BY <1>1
<1>3. \A k \in 0..5 : k = 0 \/ k = 1 \/ k = 2 \/ k = 3 \/ k = 4 \/ k = 5
  OBVIOUS
<1>4. \A k \in 0..5 : (v \div Pow2(5 - k)) % 2 \in 0..1
  <2> TAKE k \in 0..5
  <2>1. Pow2(5 - k) \in {1, 2, 4, 8, 16, 32}
    BY <1>1, <1>3
  <2> QED
    BY <2>1
<1>5. x \in [0..5 -> 0..1]
  BY <1>4
<1>6. v = 32 * x[0] + 16 * x[1] + 8 * x[2] + 4 * x[3] + 2 * x[4] + x[5]
  <2> HIDE DEF x
  <2> QED
    BY <1>2
<1> QED
  BY <1>5, <1>6

\* Six bits from bit u on, as a number, and eight.
SixAt(units, w, u) ==
    32 * BitAt(units, w, u) + 16 * BitAt(units, w, u + 1)
    + 8 * BitAt(units, w, u + 2) + 4 * BitAt(units, w, u + 3)
    + 2 * BitAt(units, w, u + 4) + BitAt(units, w, u + 5)
EightAt(units, w, u) ==
    128 * BitAt(units, w, u) + 64 * BitAt(units, w, u + 1)
    + 32 * BitAt(units, w, u + 2) + 16 * BitAt(units, w, u + 3)
    + 8 * BitAt(units, w, u + 4) + 4 * BitAt(units, w, u + 5)
    + 2 * BitAt(units, w, u + 6) + BitAt(units, w, u + 7)

\* Four digits are the bits of three bytes, six at a time.
LEMMA QuartetIsBits ==
    ASSUME NEW b, b[1] \in Byte, b[2] \in Byte, b[3] \in Byte, NEW k \in 0..3
    PROVE  Quartet(b)[k + 1] = SixAt(b, 8, 6 * k)
<1>1. PICK x \in [0..7 -> 0..1] :
         /\ b[1] = 128 * x[0] + 64 * x[1] + 32 * x[2] + 16 * x[3] + 8 * x[4]
                   + 4 * x[5] + 2 * x[6] + x[7]
         /\ \A j \in 0..7 : (b[1] \div Pow2(7 - j)) % 2 = x[j]
  BY BitsOfByte DEF Byte
<1>2. PICK y \in [0..7 -> 0..1] :
         /\ b[2] = 128 * y[0] + 64 * y[1] + 32 * y[2] + 16 * y[3] + 8 * y[4]
                   + 4 * y[5] + 2 * y[6] + y[7]
         /\ \A j \in 0..7 : (b[2] \div Pow2(7 - j)) % 2 = y[j]
  BY BitsOfByte DEF Byte
<1>3. PICK z \in [0..7 -> 0..1] :
         /\ b[3] = 128 * z[0] + 64 * z[1] + 32 * z[2] + 16 * z[3] + 8 * z[4]
                   + 4 * z[5] + 2 * z[6] + z[7]
         /\ \A j \in 0..7 : (b[3] \div Pow2(7 - j)) % 2 = z[j]
  BY BitsOfByte DEF Byte
<1>4. \A j \in 0..7 : BitAt(b, 8, j) = x[j]
  <2> TAKE j \in 0..7
  <2>1. j \div 8 + 1 = 1 /\ 8 - 1 - (j % 8) = 7 - j
    OBVIOUS
  <2> QED
    BY <1>1, <2>1 DEF BitAt
<1>5. \A j \in 0..7 : BitAt(b, 8, j + 8) = y[j]
  <2> TAKE j \in 0..7
  <2>1. (j + 8) \div 8 + 1 = 2 /\ 8 - 1 - ((j + 8) % 8) = 7 - j
    OBVIOUS
  <2> QED
    BY <1>2, <2>1 DEF BitAt
<1>6. \A j \in 0..7 : BitAt(b, 8, j + 16) = z[j]
  <2> TAKE j \in 0..7
  <2>1. (j + 16) \div 8 + 1 = 3 /\ 8 - 1 - ((j + 16) % 8) = 7 - j
    OBVIOUS
  <2> QED
    BY <1>3, <2>1 DEF BitAt
<1>7. CASE k = 0
  <2>1. SixAt(b, 8, 6 * k) = 32 * x[0] + 16 * x[1] + 8 * x[2] + 4 * x[3]
                             + 2 * x[4] + x[5]
    BY <1>4, <1>7 DEF SixAt
  <2>2. Quartet(b)[k + 1] = b[1] \div 4
    BY <1>7 DEF Quartet
  <2> QED
    BY <1>1, <2>1, <2>2
<1>8. CASE k = 1
  <2>1. SixAt(b, 8, 6 * k) = 32 * x[6] + 16 * x[7] + 8 * y[0] + 4 * y[1]
                             + 2 * y[2] + y[3]
    <3>1. /\ 6 * k = 6 /\ 6 * k + 1 = 7 /\ 6 * k + 2 = 0 + 8
          /\ 6 * k + 3 = 1 + 8 /\ 6 * k + 4 = 2 + 8 /\ 6 * k + 5 = 3 + 8
      BY <1>8
    <3> QED
      BY <1>4, <1>5, <3>1 DEF SixAt
  <2>2. Quartet(b)[k + 1] = (b[1] % 4) * 16 + b[2] \div 16
    BY <1>8 DEF Quartet
  <2>3. b[1] % 4 = 2 * x[6] + x[7]
    BY <1>1
  <2>4. b[2] \div 16 = 8 * y[0] + 4 * y[1] + 2 * y[2] + y[3]
    BY <1>2
  <2> QED
    BY <2>1, <2>2, <2>3, <2>4
<1>9. CASE k = 2
  <2>1. SixAt(b, 8, 6 * k) = 32 * y[4] + 16 * y[5] + 8 * y[6] + 4 * y[7]
                             + 2 * z[0] + z[1]
    <3>1. /\ 6 * k = 4 + 8 /\ 6 * k + 1 = 5 + 8 /\ 6 * k + 2 = 6 + 8
          /\ 6 * k + 3 = 7 + 8 /\ 6 * k + 4 = 0 + 16 /\ 6 * k + 5 = 1 + 16
      BY <1>9
    <3> QED
      BY <1>5, <1>6, <3>1 DEF SixAt
  <2>2. Quartet(b)[k + 1] = (b[2] % 16) * 4 + b[3] \div 64
    BY <1>9 DEF Quartet
  <2>3. b[2] % 16 = 8 * y[4] + 4 * y[5] + 2 * y[6] + y[7]
    BY <1>2
  <2>4. b[3] \div 64 = 2 * z[0] + z[1]
    BY <1>3
  <2> QED
    BY <2>1, <2>2, <2>3, <2>4
<1>10. CASE k = 3
  <2>1. SixAt(b, 8, 6 * k) = 32 * z[2] + 16 * z[3] + 8 * z[4] + 4 * z[5]
                             + 2 * z[6] + z[7]
    <3>1. /\ 6 * k = 2 + 16 /\ 6 * k + 1 = 3 + 16 /\ 6 * k + 2 = 4 + 16
          /\ 6 * k + 3 = 5 + 16 /\ 6 * k + 4 = 6 + 16 /\ 6 * k + 5 = 7 + 16
      BY <1>10
    <3> QED
      BY <1>6, <3>1 DEF SixAt
  <2>2. Quartet(b)[k + 1] = b[3] % 64
    BY <1>10 DEF Quartet
  <2> QED
    BY <1>3, <2>1, <2>2
<1> QED
  BY <1>7, <1>8, <1>9, <1>10

\* Three bytes are the bits of four digits, eight at a time.  A byte needs no
\* more digits than the two it lies in.
LEMMA TripleIsBits ==
    ASSUME NEW q, NEW k \in 0..2, q[k + 1] \in 0..63, q[k + 2] \in 0..63
    PROVE  Triple(q)[k + 1] = EightAt(q, 6, 8 * k)
<1>1. PICK x \in [0..5 -> 0..1] :
         /\ q[k + 1] = 32 * x[0] + 16 * x[1] + 8 * x[2] + 4 * x[3] + 2 * x[4] + x[5]
         /\ \A j \in 0..5 : (q[k + 1] \div Pow2(5 - j)) % 2 = x[j]
  BY BitsOfDigit
<1>2. PICK y \in [0..5 -> 0..1] :
         /\ q[k + 2] = 32 * y[0] + 16 * y[1] + 8 * y[2] + 4 * y[3] + 2 * y[4] + y[5]
         /\ \A j \in 0..5 : (q[k + 2] \div Pow2(5 - j)) % 2 = y[j]
  BY BitsOfDigit
<1>3. \A j \in 0..5 : BitAt(q, 6, j + 6 * k) = x[j]
  <2> TAKE j \in 0..5
  <2>1. (j + 6 * k) \div 6 + 1 = k + 1 /\ 6 - 1 - ((j + 6 * k) % 6) = 5 - j
    OBVIOUS
  <2> QED
    BY <1>1, <2>1 DEF BitAt
<1>4. \A j \in 0..5 : BitAt(q, 6, j + 6 * (k + 1)) = y[j]
  <2> TAKE j \in 0..5
  <2>1. /\ (j + 6 * (k + 1)) \div 6 + 1 = k + 2
        /\ 6 - 1 - ((j + 6 * (k + 1)) % 6) = 5 - j
    OBVIOUS
  <2> QED
    BY <1>2, <2>1 DEF BitAt
<1>5. CASE k = 0
  <2>1. EightAt(q, 6, 8 * k) = 128 * x[0] + 64 * x[1] + 32 * x[2] + 16 * x[3]
                               + 8 * x[4] + 4 * x[5] + 2 * y[0] + y[1]
    <3>1. /\ 8 * k = 0 + 6 * k /\ 8 * k + 1 = 1 + 6 * k /\ 8 * k + 2 = 2 + 6 * k
          /\ 8 * k + 3 = 3 + 6 * k /\ 8 * k + 4 = 4 + 6 * k
          /\ 8 * k + 5 = 5 + 6 * k
          /\ 8 * k + 6 = 0 + 6 * (k + 1) /\ 8 * k + 7 = 1 + 6 * (k + 1)
      BY <1>5
    <3> QED
      BY <1>3, <1>4, <3>1 DEF EightAt
  <2>2. Triple(q)[k + 1] = (q[1] * 4 + ((q[2] \div 16) % 4)) % 256
    BY <1>5 DEF Triple
  <2>3. (q[2] \div 16) % 4 = 2 * y[0] + y[1]
    BY <1>2, <1>5
  <2> QED
    BY <1>1, <1>5, <2>1, <2>2, <2>3
<1>6. CASE k = 1
  <2>1. EightAt(q, 6, 8 * k) = 128 * x[2] + 64 * x[3] + 32 * x[4] + 16 * x[5]
                               + 8 * y[0] + 4 * y[1] + 2 * y[2] + y[3]
    <3>1. /\ 8 * k = 2 + 6 * k /\ 8 * k + 1 = 3 + 6 * k /\ 8 * k + 2 = 4 + 6 * k
          /\ 8 * k + 3 = 5 + 6 * k
          /\ 8 * k + 4 = 0 + 6 * (k + 1) /\ 8 * k + 5 = 1 + 6 * (k + 1)
          /\ 8 * k + 6 = 2 + 6 * (k + 1) /\ 8 * k + 7 = 3 + 6 * (k + 1)
      BY <1>6
    <3> QED
      BY <1>3, <1>4, <3>1 DEF EightAt
  <2>2. Triple(q)[k + 1] = ((q[2] % 16) * 16 + ((q[3] \div 4) % 16)) % 256
    BY <1>6 DEF Triple
  <2>3. q[2] % 16 = 8 * x[2] + 4 * x[3] + 2 * x[4] + x[5]
    BY <1>1, <1>6
  <2>4. (q[3] \div 4) % 16 = 8 * y[0] + 4 * y[1] + 2 * y[2] + y[3]
    BY <1>2, <1>6
  <2> QED
    BY <2>1, <2>2, <2>3, <2>4
<1>7. CASE k = 2
  <2>1. EightAt(q, 6, 8 * k) = 128 * x[4] + 64 * x[5] + 32 * y[0] + 16 * y[1]
                               + 8 * y[2] + 4 * y[3] + 2 * y[4] + y[5]
    <3>1. /\ 8 * k = 4 + 6 * k /\ 8 * k + 1 = 5 + 6 * k
          /\ 8 * k + 2 = 0 + 6 * (k + 1) /\ 8 * k + 3 = 1 + 6 * (k + 1)
          /\ 8 * k + 4 = 2 + 6 * (k + 1) /\ 8 * k + 5 = 3 + 6 * (k + 1)
          /\ 8 * k + 6 = 4 + 6 * (k + 1) /\ 8 * k + 7 = 5 + 6 * (k + 1)
      BY <1>7
    <3> QED
      BY <1>3, <1>4, <3>1 DEF EightAt
  <2>2. Triple(q)[k + 1] = ((q[3] % 4) * 64 + q[4]) % 256
    BY <1>7 DEF Triple
  <2>3. q[3] % 4 = 2 * x[4] + x[5]
    BY <1>1, <1>7
  <2>4. q[4] = 32 * y[0] + 16 * y[1] + 8 * y[2] + 4 * y[3] + 2 * y[4] + y[5]
    BY <1>2, <1>7
  <2> QED
    BY <2>1, <2>2, <2>3, <2>4
<1> QED
  BY <1>5, <1>6, <1>7

\* The bits of the g-th group of bytes are those of the string, and zeros
\* behind its end.
LEMMA BitsOfGroup ==
    ASSUME NEW s \in Seq(Byte), NEW g \in Nat, NEW u \in 0..23
    PROVE  BitAt(BytesAt(s, g), 8, u)
             = IF 24 * g + u < 8 * Len(s) THEN BitAt(s, 8, 24 * g + u) ELSE 0
<1> DEFINE n == Len(s)
<1>1. PICK c \in 0..2, j \in 0..7 : u = 8 * c + j
  <2>1. u \div 8 \in 0..2 /\ u % 8 \in 0..7 /\ u = 8 * (u \div 8) + (u % 8)
    OBVIOUS
  <2> QED
    BY <2>1
<1>2. u \div 8 + 1 = c + 1 /\ u % 8 = j
  BY <1>1
<1>3. (24 * g + u) \div 8 + 1 = 3 * g + (c + 1) /\ (24 * g + u) % 8 = j
  <2>1. 24 * g + u = 8 * (3 * g + c) + j
    BY <1>1
  <2>2. 3 * g + c \in Nat
    OBVIOUS
  <2> HIDE DEF n
  <2> QED
    BY <2>1, <2>2
<1>4. n \in Nat /\ (24 * g + u < 8 * n <=> 3 * g + (c + 1) <= n)
  <2>1. n \in Nat
    OBVIOUS
  <2> HIDE DEF n
  <2> QED
    BY <1>1, <2>1
<1>5. BytesAt(s, g)[c + 1] = IF 3 * g + (c + 1) <= n THEN s[3 * g + (c + 1)] ELSE 0
  BY DEF BytesAt
<1>6. (0 \div Pow2(8 - 1 - j)) % 2 = 0
  <2>1. Pow2(8 - 1 - j) \in {1, 2, 4, 8, 16, 32, 64, 128}
    BY DEF Pow2
  <2> QED
    BY <2>1
<1> HIDE DEF n
<1> QED
  BY <1>2, <1>3, <1>4, <1>5, <1>6 DEF BitAt, n

\* base64_encode, which works on groups of three bytes, writes the string's
\* bits six at a time, with zeros behind the last and padding to a multiple of
\* four characters.
THEOREM EncodeIsExact ==
    ASSUME NEW s \in Seq(Byte)
    PROVE  Encode(s) = RefEncode64(s)
<1> DEFINE n == Len(s)
           bit(i) == IF i < 8 * n THEN BitAt(s, 8, i) ELSE 0
           digits == (8 * n + 5) \div 6
           number(m) == 32 * bit(6 * m) + 16 * bit(6 * m + 1)
                        + 8 * bit(6 * m + 2) + 4 * bit(6 * m + 3)
                        + 2 * bit(6 * m + 4) + bit(6 * m + 5)
           d(m) == Quartet(BytesAt(s, (m - 1) \div 4))[((m - 1) % 4) + 1]
<1>1. n \in Nat
  OBVIOUS
<1>2. RefEncode64(s)
        = [m \in 1..(digits + ((4 - (digits % 4)) % 4)) |->
             IF m <= digits THEN Symbol(number(m - 1)) ELSE Pad]
  BY DEF RefEncode64
<1>3. Encode(s) = [m \in 1..EncodedLength(n) |->
                     IF m <= Significant(n) THEN Symbol(d(m)) ELSE Pad]
  BY DEF Encode
<1>4. ASSUME NEW m \in Nat \ {0}
      PROVE  d(m) = number(m - 1)
  <2> DEFINE g == (m - 1) \div 4
             k == (m - 1) % 4
             b == BytesAt(s, g)
  <2>1. g \in Nat /\ k \in 0..3 /\ m - 1 = 4 * g + k
    OBVIOUS
  <2>2. b[1] \in Byte /\ b[2] \in Byte /\ b[3] \in Byte
    BY <2>1, GroupDigits
  <2>3. d(m) = SixAt(b, 8, 6 * k)
    BY <2>1, <2>2, QuartetIsBits
  <2> HIDE DEF g, k, b, n
  <2>4. \A j \in 0..5 : BitAt(b, 8, 6 * k + j) = bit(6 * (m - 1) + j)
    <3> TAKE j \in 0..5
    <3>1. 6 * k + j \in 0..23 /\ 24 * g + (6 * k + j) = 6 * (m - 1) + j
      BY <2>1
    <3> QED
      BY <2>1, <3>1, BitsOfGroup DEF b, n
  <2> HIDE DEF bit
  <2>5. /\ BitAt(b, 8, 6 * k + 0) = bit(6 * (m - 1) + 0)
        /\ BitAt(b, 8, 6 * k + 1) = bit(6 * (m - 1) + 1)
        /\ BitAt(b, 8, 6 * k + 2) = bit(6 * (m - 1) + 2)
        /\ BitAt(b, 8, 6 * k + 3) = bit(6 * (m - 1) + 3)
        /\ BitAt(b, 8, 6 * k + 4) = bit(6 * (m - 1) + 4)
        /\ BitAt(b, 8, 6 * k + 5) = bit(6 * (m - 1) + 5)
    BY <2>4
  <2>6. 6 * k + 0 = 6 * k /\ 6 * (m - 1) + 0 = 6 * (m - 1)
    BY <2>1
  <2> QED
    BY <2>3, <2>5, <2>6 DEF SixAt
<1>5. /\ digits = Significant(n)
      /\ digits + ((4 - (digits % 4)) % 4) = EncodedLength(n)
      /\ EncodedLength(n) \in Nat
  <2> HIDE DEF n
  <2>1. PICK g \in Nat, r \in 0..2 : n = 3 * g + r
    <3>1. n \div 3 \in Nat /\ n % 3 \in 0..2 /\ n = 3 * (n \div 3) + (n % 3)
      BY <1>1
    <3> QED
      BY <3>1
  <2>2. CASE r = 0
    <3>1. digits = 4 * g /\ Significant(n) = 4 * g /\ EncodedLength(n) = 4 * g
      BY <2>1, <2>2 DEF Significant, EncodedLength
    <3>2. (4 * g) % 4 = 0 /\ 4 * g \in Nat
      OBVIOUS
    <3> QED
      BY <3>1, <3>2
  <2>3. CASE r = 1
    <3>1. /\ digits = 4 * g + 2 /\ Significant(n) = 4 * g + 2
          /\ EncodedLength(n) = 4 * g + 4
      BY <2>1, <2>3 DEF Significant, EncodedLength
    <3>2. (4 * g + 2) % 4 = 2 /\ 4 * g + 2 + 2 = 4 * g + 4 /\ 4 * g + 4 \in Nat
      OBVIOUS
    <3> QED
      BY <3>1, <3>2
  <2>4. CASE r = 2
    <3>1. /\ digits = 4 * g + 3 /\ Significant(n) = 4 * g + 3
          /\ EncodedLength(n) = 4 * g + 4
      BY <2>1, <2>4 DEF Significant, EncodedLength
    <3>2. (4 * g + 3) % 4 = 3 /\ 4 * g + 3 + 1 = 4 * g + 4 /\ 4 * g + 4 \in Nat
      OBVIOUS
    <3> QED
      BY <3>1, <3>2
  <2> QED
    BY <2>2, <2>3, <2>4
<1> HIDE DEF d, number, digits, n
<1>6. \A m \in 1..EncodedLength(n) : d(m) = number(m - 1)
  BY <1>4, <1>5
<1> QED
  BY <1>2, <1>3, <1>5, <1>6

\* The characters base64_decode takes are the digits of base 64.
LEMMA SymbolsAreDigits ==
    ASSUME NEW c \in Nat
    PROVE  /\ (\E v \in 0..63 : Symbol(v) = c) <=> c # Pad /\ IsBase64(c)
           /\ c # Pad /\ IsBase64(c) =>
                /\ Value(c) \in 0..63
                /\ (CHOOSE v \in 0..63 : Symbol(v) = c) = Value(c)
<1>1. ASSUME NEW v \in 0..63, Symbol(v) = c
      PROVE  c # Pad /\ IsBase64(c) /\ v = Value(c)
  BY <1>1, SymbolHasValue
<1>2. ASSUME c # Pad, IsBase64(c)
      PROVE  Value(c) \in 0..63 /\ Symbol(Value(c)) = c
  <2>1. CASE c \in 65..90
    <3>1. Value(c) = c - 65
      BY <2>1 DEF Value
    <3> QED
      BY <2>1, <3>1 DEF Symbol
  <2>2. CASE c \in 97..122
    <3>1. Value(c) = c - 71
      BY <2>2 DEF Value
    <3> QED
      BY <2>2, <3>1 DEF Symbol
  <2>3. CASE c \in 48..57
    <3>1. Value(c) = c + 4
      BY <2>3 DEF Value
    <3> QED
      BY <2>3, <3>1 DEF Symbol
  <2>4. CASE c = 43
    BY <2>4 DEF Value, Symbol
  <2>5. CASE c = 47
    BY <2>5 DEF Value, Symbol
  <2>6. c = 43 \/ c = 47 \/ c \in 48..57 \/ c \in 65..90 \/ c \in 97..122
    BY <1>2 DEF IsBase64
  <2> QED
    BY <2>1, <2>2, <2>3, <2>4, <2>5, <2>6
<1> QED
  BY <1>1, <1>2

\* The decoding loop stops somewhere, and in one place only.
LEMMA LoopStops ==
    ASSUME NEW t \in Seq(Nat)
    PROVE  LET Stops(n) == /\ \A k \in 1..n : t[k] # Pad /\ IsBase64(t[k])
                           /\ n < Len(t) => t[n + 1] = Pad \/ ~IsBase64(t[n + 1])
           IN /\ Taken64(t) \in 0..Len(t) /\ Stops(Taken64(t))
              /\ \A n \in 0..Len(t) : Stops(n) => n = Taken64(t)
<1> DEFINE Stops(n) == /\ \A k \in 1..n : t[k] # Pad /\ IsBase64(t[k])
                       /\ n < Len(t) => t[n + 1] = Pad \/ ~IsBase64(t[n + 1])
<1>1. Len(t) \in Nat
  OBVIOUS
<1>2. \E n \in 0..Len(t) : Stops(n)
  <2> SUFFICES ASSUME \A n \in 0..Len(t) : ~Stops(n)
               PROVE  FALSE
    OBVIOUS
  <2> DEFINE Taken == {n \in Nat : n <= Len(t) =>
                         \A k \in 1..n : t[k] # Pad /\ IsBase64(t[k])}
  <2>1. 0 \in Taken
    OBVIOUS
  <2>2. ASSUME NEW n \in Nat, n \in Taken
        PROVE  n + 1 \in Taken
    <3> SUFFICES ASSUME n + 1 <= Len(t), NEW k \in 1..(n + 1)
                 PROVE  t[k] # Pad /\ IsBase64(t[k])
      OBVIOUS
    <3>1. n \in 0..Len(t) /\ n < Len(t) /\ ~Stops(n)
      <4> HIDE DEF Stops
      <4> QED
        BY <1>1
    <3>2. \A j \in 1..n : t[j] # Pad /\ IsBase64(t[j])
      BY <2>2, <3>1
    <3>3. t[n + 1] # Pad /\ IsBase64(t[n + 1])
      BY <3>1, <3>2
    <3>4. k = n + 1 \/ k \in 1..n
      OBVIOUS
    <3> QED
      BY <3>2, <3>3, <3>4
  <2>3. Len(t) \in Taken
    <3> HIDE DEF Taken
    <3> QED
      BY <1>1, <2>1, <2>2, SetInduction
  <2>4. Stops(Len(t)) /\ Len(t) \in 0..Len(t)
    BY <1>1, <2>3
  <2> QED
    BY <2>4
<1>3. Taken64(t) = CHOOSE n \in 0..Len(t) : Stops(n)
  BY DEF Taken64
<1> HIDE DEF Stops
<1>4. Taken64(t) \in 0..Len(t) /\ Stops(Taken64(t))
  BY <1>2, <1>3
<1>5. ASSUME NEW m \in 0..Len(t), NEW n \in 0..Len(t), Stops(m), Stops(n), m < n
      PROVE  FALSE
  <2>1. m + 1 \in 1..n /\ m < Len(t)
    BY <1>1, <1>5
  <2> QED
    BY <1>5, <2>1 DEF Stops
<1>6. ASSUME NEW n \in 0..Len(t), Stops(n)
      PROVE  n = Taken64(t)
  <2>1. n < Taken64(t) \/ Taken64(t) < n \/ n = Taken64(t)
    BY <1>1, <1>4
  <2> QED
    BY <1>4, <1>5, <1>6, <2>1
<1> QED
  BY <1>4, <1>6 DEF Stops

\* The digits of the definition are the values the loop has taken.
LEMMA DigitsAreTaken ==
    ASSUME NEW t \in Seq(Nat)
    PROVE  RefDigits(t) = [k \in 1..Taken64(t) |-> Value(t[k])]
<1> DEFINE w == Taken64(t)
           IsDigit(c) == \E v \in 0..63 : Symbol(v) = c
           ends == {n \in 0..Len(t) : \A k \in 1..n : IsDigit(t[k])}
           last == CHOOSE n \in ends : \A m \in ends : m <= n
<1>1. RefDigits(t) = [k \in 1..last |-> CHOOSE v \in 0..63 : Symbol(v) = t[k]]
  BY DEF RefDigits
<1>2. Len(t) \in Nat /\ \A k \in 1..Len(t) : t[k] \in Nat
  OBVIOUS
<1>3. /\ w \in 0..Len(t)
      /\ \A k \in 1..w : t[k] # Pad /\ IsBase64(t[k])
      /\ w < Len(t) => t[w + 1] = Pad \/ ~IsBase64(t[w + 1])
  BY LoopStops
<1>4. \A k \in 1..Len(t) : IsDigit(t[k]) <=> t[k] # Pad /\ IsBase64(t[k])
  BY <1>2, SymbolsAreDigits
<1> HIDE DEF w, IsDigit
<1>5. w \in ends
  BY <1>2, <1>3, <1>4
<1>6. ASSUME NEW m \in ends
      PROVE  m <= w
  <2> SUFFICES ASSUME w < m PROVE FALSE
    BY <1>2, <1>3
  <2>1. w + 1 \in 1..m /\ w + 1 \in 1..Len(t) /\ w < Len(t)
    BY <1>2, <1>3
  <2>2. IsDigit(t[w + 1])
    BY <2>1
  <2> QED
    BY <1>3, <1>4, <2>1, <2>2
<1>7. \A n \in ends : n \in Nat
  BY <1>2
<1> HIDE DEF ends
<1>8. last = w
  <2>1. \A n \in ends : (\A m \in ends : m <= n) => n = w
    BY <1>5, <1>6, <1>7
  <2> QED
    BY <1>5, <1>6, <2>1
<1> HIDE DEF last
<1>9. ASSUME NEW k \in 1..w
      PROVE  (CHOOSE v \in 0..63 : Symbol(v) = t[k]) = Value(t[k])
  <2>1. t[k] \in Nat /\ t[k] # Pad /\ IsBase64(t[k])
    BY <1>2, <1>3
  <2> QED
    BY <2>1, SymbolsAreDigits
<1> QED
  BY <1>1, <1>8, <1>9 DEF w

\* base64_decode, which works on groups of four characters, reads the bits of
\* the digits in front of the first character that is none, eight at a time,
\* and drops those that are left over.
THEOREM DecodeIsExact ==
    ASSUME NEW t \in Seq(Nat)
    PROVE  Decode64(t) = RefDecode64(t)
<1> DEFINE w == Taken64(t)
           d == RefDigits(t)
<1>1. /\ Len(t) \in Nat /\ w \in 0..Len(t)
      /\ \A k \in 1..w : t[k] \in Nat /\ t[k] # Pad /\ IsBase64(t[k])
  <2>1. Len(t) \in Nat /\ \A k \in 1..Len(t) : t[k] \in Nat
    OBVIOUS
  <2>2. w \in 0..Len(t) /\ \A k \in 1..w : t[k] # Pad /\ IsBase64(t[k])
    BY LoopStops
  <2> HIDE DEF w
  <2> QED
    BY <2>1, <2>2
<1>2. d = [k \in 1..w |-> Value(t[k])]
  BY DigitsAreTaken
<1>3. \A k \in 1..w : Value(t[k]) \in 0..63
  BY <1>1, SymbolsAreDigits
<1>4. w \in Nat /\ Len(d) = w /\ \A k \in 1..w : d[k] = Value(t[k])
  <2> HIDE DEF w, d
  <2>1. w \in Nat
    BY <1>1
  <2> QED
    BY <1>2, <2>1
<1> HIDE DEF w, d
<1>5. DecodedLength(w) = (6 * w) \div 8
  <2>1. PICK g \in Nat, r \in 0..3 : w = 4 * g + r
    <3>1. w \div 4 \in Nat /\ w % 4 \in 0..3 /\ w = 4 * (w \div 4) + (w % 4)
      BY <1>4
    <3> QED
      BY <3>1
  <2>2. w \div 4 = g /\ w % 4 = r
    BY <2>1
  <2>3. (6 * w) \div 8 = 3 * g + (IF r = 0 THEN 0 ELSE r - 1)
    BY <2>1
  <2> QED
    BY <2>2, <2>3 DEF DecodedLength
<1> DEFINE bit(m, k) == BitAt(d, 6, 8 * (m - 1) + k) * Pow2(7 - k)
           byte(m) == bit(m, 0) + bit(m, 1) + bit(m, 2) + bit(m, 3) + bit(m, 4)
                      + bit(m, 5) + bit(m, 6) + bit(m, 7)
           v(m) == ValuesAt(t, w, (m - 1) \div 3)
<1>6. RefDecode64(t) = [m \in 1..((6 * w) \div 8) |-> byte(m)]
  BY <1>4 DEF RefDecode64, d
<1>7. Decode64(t) = [m \in 1..DecodedLength(w) |->
                       Triple(v(m))[((m - 1) % 3) + 1]]
  BY DEF Decode64, w
<1>8. ASSUME NEW m \in 1..((6 * w) \div 8)
      PROVE  Triple(v(m))[((m - 1) % 3) + 1] = byte(m)
  <2> DEFINE g == (m - 1) \div 3
             k == (m - 1) % 3
             q == ValuesAt(t, w, g)
  <2>1. g \in Nat /\ k \in 0..2 /\ m = 3 * g + k + 1
    BY <1>4
  <2> HIDE DEF g, k
  <2>2. 4 * g + (k + 1) \in 1..w /\ 4 * g + (k + 2) \in 1..w
    BY <1>4, <2>1
  <2>3. q[k + 1] = d[4 * g + (k + 1)] /\ q[k + 2] = d[4 * g + (k + 2)]
    <3>1. k + 1 \in 1..4 /\ k + 2 \in 1..4
      BY <2>1
    <3> QED
      BY <1>4, <2>2, <3>1 DEF ValuesAt
  <2>4. q[k + 1] \in 0..63 /\ q[k + 2] \in 0..63
    BY <1>3, <1>4, <2>2, <2>3
  <2> HIDE DEF q
  <2>5. Triple(q)[k + 1] = EightAt(q, 6, 8 * k)
    BY <2>1, <2>4, TripleIsBits
  <2>6. \A j \in 0..7 : /\ BitAt(q, 6, 8 * k + j) = BitAt(d, 6, 8 * (m - 1) + j)
                        /\ BitAt(d, 6, 8 * (m - 1) + j) \in Int
    <3> TAKE j \in 0..7
    <3>1. 8 * (m - 1) + j = 6 * (4 * g) + (8 * k + j)
      BY <2>1
    <3>2. PICK e \in 0..1, r \in 0..5 : 8 * k + j = 6 * (k + e) + r
      <4>1. CASE 2 * k + j < 6
        <5>1. 8 * k + j = 6 * (k + 0) + (2 * k + j) /\ 2 * k + j \in 0..5
          BY <2>1, <4>1
        <5> QED
          BY <5>1
      <4>2. CASE 2 * k + j >= 6
        <5>1. 8 * k + j = 6 * (k + 1) + (2 * k + j - 6) /\ 2 * k + j - 6 \in 0..5
          BY <2>1, <4>2
        <5> QED
          BY <5>1
      <4> QED
        BY <2>1, <4>1, <4>2
    <3>3. /\ (8 * k + j) \div 6 + 1 = k + e + 1 /\ (8 * k + j) % 6 = r
      BY <2>1, <3>2
    <3>4. /\ (8 * (m - 1) + j) \div 6 + 1 = 4 * g + (k + e + 1)
          /\ (8 * (m - 1) + j) % 6 = r
      <4>1. 8 * (m - 1) + j = 6 * (4 * g + k + e) + r
        BY <2>1, <3>1, <3>2
      <4>2. 4 * g + k + e \in Nat
        BY <2>1
      <4> QED
        BY <2>1, <4>1, <4>2
    <3>5. q[k + e + 1] = d[4 * g + (k + e + 1)]
      <4>1. CASE e = 0
        <5>1. k + e + 1 = k + 1
          BY <2>1, <4>1
        <5> QED
          BY <2>3, <5>1
      <4>2. CASE e = 1
        <5>1. k + e + 1 = k + 2
          BY <2>1, <4>2
        <5> QED
          BY <2>3, <5>1
      <4> QED
        BY <4>1, <4>2
    <3>6. q[k + e + 1] \in 0..63
      <4>1. k + e + 1 = k + 1 \/ k + e + 1 = k + 2
        BY <2>1
      <4> QED
        BY <2>4, <4>1
    <3>7. Pow2(6 - 1 - r) \in {1, 2, 4, 8, 16, 32}
      BY DEF Pow2
    <3>8. (q[k + e + 1] \div Pow2(6 - 1 - r)) % 2 \in Int
      <4>1. ASSUME NEW x \in 0..63, NEW p \in {1, 2, 4, 8, 16, 32}
            PROVE  (x \div p) % 2 \in Int
        BY <4>1
      <4> HIDE DEF q
      <4> QED
        BY <3>6, <3>7, <4>1
    <3> QED
      BY <3>3, <3>4, <3>5, <3>8 DEF BitAt
  <2>7. /\ Pow2(7 - 0) = 128 /\ Pow2(7 - 1) = 64 /\ Pow2(7 - 2) = 32
        /\ Pow2(7 - 3) = 16 /\ Pow2(7 - 4) = 8 /\ Pow2(7 - 5) = 4
        /\ Pow2(7 - 6) = 2 /\ Pow2(7 - 7) = 1
    BY DEF Pow2
  <2>8. byte(m) = EightAt(q, 6, 8 * k)
    <3>1. /\ BitAt(q, 6, 8 * k + 0) = BitAt(d, 6, 8 * (m - 1) + 0)
          /\ BitAt(q, 6, 8 * k + 1) = BitAt(d, 6, 8 * (m - 1) + 1)
          /\ BitAt(q, 6, 8 * k + 2) = BitAt(d, 6, 8 * (m - 1) + 2)
          /\ BitAt(q, 6, 8 * k + 3) = BitAt(d, 6, 8 * (m - 1) + 3)
          /\ BitAt(q, 6, 8 * k + 4) = BitAt(d, 6, 8 * (m - 1) + 4)
          /\ BitAt(q, 6, 8 * k + 5) = BitAt(d, 6, 8 * (m - 1) + 5)
          /\ BitAt(q, 6, 8 * k + 6) = BitAt(d, 6, 8 * (m - 1) + 6)
          /\ BitAt(q, 6, 8 * k + 7) = BitAt(d, 6, 8 * (m - 1) + 7)
      BY <2>6
    <3>2. 8 * k + 0 = 8 * k
      BY <2>1
    <3>3. \A j \in 0..7 : BitAt(d, 6, 8 * (m - 1) + j) \in Int
      BY <2>6
    <3>4. byte(m) = 128 * BitAt(d, 6, 8 * (m - 1) + 0)
                    + 64 * BitAt(d, 6, 8 * (m - 1) + 1)
                    + 32 * BitAt(d, 6, 8 * (m - 1) + 2)
                    + 16 * BitAt(d, 6, 8 * (m - 1) + 3)
                    + 8 * BitAt(d, 6, 8 * (m - 1) + 4)
                    + 4 * BitAt(d, 6, 8 * (m - 1) + 5)
                    + 2 * BitAt(d, 6, 8 * (m - 1) + 6)
                    + BitAt(d, 6, 8 * (m - 1) + 7)
      BY <2>7, <3>3
    <3> HIDE DEF byte
    <3> QED
      BY <3>1, <3>2, <3>4 DEF EightAt
  <2> QED
    BY <2>1, <2>5, <2>8 DEF q, g, k
<1> HIDE DEF byte, v
<1> QED
  BY <1>5, <1>6, <1>7, <1>8

-----------------------------------------------------------------------------
(* The validator's run over a string, and the definition of its characters. *)

DecoderState == 0..8

LEMMA DecodeType ==
    ASSUME NEW s \in DecoderState, NEW b \in Byte
    PROVE  Decode(s, b) \in DecoderState
<1>1. ByteClass(b) \in 0..11
  BY DEF ByteClass, Byte
<1>2. CASE s = Accept
  BY <1>1, <1>2 DEF Decode, Lead, DecoderState
<1>3. CASE s # Accept
  <2>1. After[s] \in DecoderState
    BY <1>3 DEF After, DecoderState, Accept
  <2> QED
    BY <1>3, <2>1 DEF Decode, Reject, DecoderState
<1> QED
  BY <1>2, <1>3

\* The validator takes one byte after the other: the states it goes through.
LEMMA RunDefined ==
    ASSUME NEW s, NEW bytes \in Seq(Byte)
    PROVE  \E run : /\ run[0] = s
                    /\ \A k \in 1..Len(bytes) :
                          run[k] = Decode(run[k - 1], bytes[k])
                    /\ DecodeAll(s, bytes) = run[Len(bytes)]
<1> DEFINE n == Len(bytes)
           Step(f, S) == Decode(f[S \ {Max(S)}], bytes[Max(S)])
           Body(f, S) == IF S = {} THEN s ELSE Step(f, S)
           D == SUBSET (1..n)
           Defined(f, k) == \A S \in D : S \subseteq 1..k => f[S] = Body(f, S)
           Upto == {k \in Nat : \E f : /\ DOMAIN f = D
                                       /\ f = [S \in D |-> f[S]]
                                       /\ Defined(f, k)}
<1>1. n \in Nat /\ DOMAIN bytes = 1..n
  OBVIOUS
<1>2. DecodeAll(s, bytes)
        = (CHOOSE f : f = [S \in SUBSET (DOMAIN bytes) |-> Body(f, S)])[DOMAIN bytes]
  BY Zenon DEF DecodeAll, FoldLeft, MapThenFoldSet
<1>3. ASSUME NEW S \in D, NEW k \in Nat, S \subseteq 1..k, k \in S
      PROVE  Max(S) = k
  <2>1. \A y \in S : k >= y
    BY <1>3
  <2>2. \A x \in S : (\A y \in S : x >= y) => x = k
    BY <1>3, <2>1
  <2>3. Max(S) = k
    BY <1>3, <2>1, <2>2 DEF Max
  <2> QED
    BY <1>3, <2>3
<1> HIDE DEF Step
<1>4. 0 \in Upto
  <2> DEFINE f == [S \in D |-> s]
  <2>1. \A S \in D : S \subseteq 1..0 => S = {}
    OBVIOUS
  <2>2. DOMAIN f = D /\ f = [S \in D |-> f[S]] /\ Defined(f, 0)
    BY <2>1
  <2> HIDE DEF f, Defined
  <2> QED
    BY <2>2
<1>5. ASSUME NEW k \in Nat, k \in Upto
      PROVE  k + 1 \in Upto
  <2>1. PICK f : DOMAIN f = D /\ f = [S \in D |-> f[S]] /\ Defined(f, k)
    BY <1>5
  <2> DEFINE g == [S \in D |-> IF k + 1 \in S THEN Step(f, S) ELSE f[S]]
  <2>2. ASSUME NEW S \in D, S \subseteq 1..(k + 1)
        PROVE  g[S] = Body(g, S)
    <3>1. CASE k + 1 \in S
      <4>1. /\ Max(S) = k + 1 /\ S \ {k + 1} \in D
            /\ k + 1 \notin S \ {k + 1} /\ S # {}
        <5>1. k + 1 \in Nat
          OBVIOUS
        <5> QED
          BY <1>3, <2>2, <3>1, <5>1
      <4>2. g[S \ {Max(S)}] = f[S \ {Max(S)}]
        BY <4>1
      <4>3. Step(g, S) = Step(f, S)
        BY <4>2 DEF Step
      <4> QED
        BY <3>1, <4>1, <4>3
    <3>2. CASE k + 1 \notin S
      <4>1. S \subseteq 1..k /\ g[S] = f[S]
        BY <2>2, <3>2
      <4>2. f[S] = Body(f, S)
        BY <2>1, <4>1
      <4>3. S # {} => Step(g, S) = Step(f, S)
        <5>1. S \ {Max(S)} \in D /\ k + 1 \notin S \ {Max(S)}
          BY <3>2
        <5>2. g[S \ {Max(S)}] = f[S \ {Max(S)}]
          BY <5>1
        <5> QED
          BY <5>2 DEF Step
      <4> QED
        BY <4>1, <4>2, <4>3
    <3> QED
      BY <3>1, <3>2
  <2>3. DOMAIN g = D /\ g = [S \in D |-> g[S]] /\ Defined(g, k + 1)
    BY <2>2
  <2> HIDE DEF g, Defined
  <2> QED
    BY <2>3
<1>6. n \in Upto
  <2> HIDE DEF Upto
  <2> QED
    BY <1>1, <1>4, <1>5, SetInduction
<1>7. \E f : f = [S \in D |-> Body(f, S)]
  <2>1. PICK f : DOMAIN f = D /\ f = [S \in D |-> f[S]] /\ Defined(f, n)
    BY <1>6
  <2>2. \A S \in D : f[S] = Body(f, S)
    BY <2>1
  <2>3. f = [S \in D |-> Body(f, S)]
    BY <2>1, <2>2
  <2> QED
    BY <2>3
<1> DEFINE it == CHOOSE f : f = [S \in D |-> Body(f, S)]
<1>8. it = [S \in D |-> Body(it, S)]
  BY <1>7
<1>9. \A S \in D : it[S] = Body(it, S)
  BY <1>8
<1>10. DecodeAll(s, bytes) = it[1..n]
  BY <1>1, <1>2
<1> HIDE DEF it
<1> DEFINE run == [k \in 0..n |-> it[1..k]]
<1>11. run[0] = s
  <2>1. 1..0 = {} /\ 1..0 \in D
    OBVIOUS
  <2> QED
    BY <1>1, <1>9, <2>1
<1>12. ASSUME NEW k \in 1..n
       PROVE  run[k] = Decode(run[k - 1], bytes[k])
  <2>1. 1..k \in D /\ k \in 1..k /\ (1..k) \ {k} = 1..(k - 1) /\ k - 1 \in Nat
    BY <1>1
  <2>2. Max(1..k) = k
    <3>1. k \in Nat /\ 1..k \subseteq 1..k
      BY <1>1
    <3> QED
      BY <1>3, <2>1, <3>1
  <2>3. it[1..k] = Decode(it[1..(k - 1)], bytes[k])
    BY <1>9, <2>1, <2>2 DEF Step
  <2>4. run[k] = it[1..k] /\ run[k - 1] = it[1..(k - 1)]
    BY <1>1
  <2> QED
    BY <2>3, <2>4
<1> HIDE DEF run
<1>13. DecodeAll(s, bytes) = run[n]
  BY <1>1, <1>10 DEF run
<1> QED
  BY <1>11, <1>12, <1>13

\* The classes are ranges of bytes.
LEMMA Classes ==
    ASSUME NEW b \in Byte
    PROVE  /\ ByteClass(b) = 0 <=> b \in 0..127
           /\ ByteClass(b) = 1 <=> b \in 128..143
           /\ ByteClass(b) = 9 <=> b \in 144..159
           /\ ByteClass(b) = 7 <=> b \in 160..191
           /\ ByteClass(b) = 2 <=> b \in 194..223
           /\ ByteClass(b) = 10 <=> b = 224
           /\ ByteClass(b) = 4 <=> b = 237
           /\ ByteClass(b) = 3 <=> b \in 225..239 \ {237}
           /\ ByteClass(b) = 11 <=> b = 240
           /\ ByteClass(b) = 6 <=> b \in 241..243
           /\ ByteClass(b) = 5 <=> b = 244
           /\ ByteClass(b) \in 0..11
<1> USE DEF Byte
<1>1. ByteClass(b) = 0 <=> b \in 0..127
  BY DEF ByteClass
<1>2. ByteClass(b) = 1 <=> b \in 128..143
  BY DEF ByteClass
<1>3. ByteClass(b) = 9 <=> b \in 144..159
  BY DEF ByteClass
<1>4. ByteClass(b) = 7 <=> b \in 160..191
  BY DEF ByteClass
<1>5. ByteClass(b) = 2 <=> b \in 194..223
  BY DEF ByteClass
<1>6. ByteClass(b) = 10 <=> b = 224
  BY DEF ByteClass
<1>7. ByteClass(b) = 4 <=> b = 237
  BY DEF ByteClass
<1>8. ByteClass(b) = 3 <=> b \in 225..239 \ {237}
  BY DEF ByteClass
<1>9. ByteClass(b) = 11 <=> b = 240
  BY DEF ByteClass
<1>10. ByteClass(b) = 6 <=> b \in 241..243
  BY DEF ByteClass
<1>11. ByteClass(b) = 5 <=> b = 244
  BY DEF ByteClass
<1>12. ByteClass(b) \in 0..11
  BY DEF ByteClass
<1> HIDE DEF Byte
<1> QED
  BY <1>1, <1>2, <1>3, <1>4, <1>5, <1>6, <1>7, <1>8, <1>9, <1>10, <1>11, <1>12

\* A byte that starts a character, and one that may follow.
LEMMA FirstByte ==
    ASSUME NEW b \in Byte
    PROVE  LET s == Decode(Accept, b)
           IN /\ s = Accept <=> b < 128
              /\ s = 2 <=> b \in 194..223
              /\ s = 3 <=> b \in 225..239 \ {237}
              /\ s = 4 <=> b = 224
              /\ s = 5 <=> b = 237
              /\ s = 6 <=> b = 240
              /\ s = 7 <=> b \in 241..243
              /\ s = 8 <=> b = 244
              /\ s \in DecoderState
<1> DEFINE k == ByteClass(b)
<1>1. k \in 0..11
  BY Classes
<1>2. Decode(Accept, b) = Lead[k + 1]
  BY DEF Decode
<1> HIDE DEF k
<1>3. /\ Lead[k + 1] = 0 <=> k = 0
      /\ Lead[k + 1] = 2 <=> k = 2
      /\ Lead[k + 1] = 3 <=> k = 3
      /\ Lead[k + 1] = 4 <=> k = 10
      /\ Lead[k + 1] = 5 <=> k = 4
      /\ Lead[k + 1] = 6 <=> k = 11
      /\ Lead[k + 1] = 7 <=> k = 6
      /\ Lead[k + 1] = 8 <=> k = 5
      /\ Lead[k + 1] \in 0..8
  BY <1>1 DEF Lead
<1> USE DEF k
<1>4. b < 128 <=> b \in 0..127
  BY DEF Byte
<1> QED
  BY <1>2, <1>3, <1>4, Classes DEF Accept, DecoderState

LEMMA NextByte ==
    ASSUME NEW b \in Byte
    PROVE  /\ ByteClass(b) \in Follow[2] <=> b \in 128..191
           /\ ByteClass(b) \in Follow[3] <=> b \in 128..191
           /\ ByteClass(b) \in Follow[4] <=> b \in 160..191
           /\ ByteClass(b) \in Follow[5] <=> b \in 128..159
           /\ ByteClass(b) \in Follow[6] <=> b \in 144..191
           /\ ByteClass(b) \in Follow[7] <=> b \in 128..191
           /\ ByteClass(b) \in Follow[8] <=> b \in 128..143
<1>1. /\ Follow[2] = {1, 7, 9} /\ Follow[3] = {1, 7, 9} /\ Follow[4] = {7}
      /\ Follow[5] = {1, 9} /\ Follow[6] = {7, 9} /\ Follow[7] = {1, 7, 9}
      /\ Follow[8] = {1}
  BY DEF Follow
<1>2. /\ ByteClass(b) = 1 <=> b \in 128..143
      /\ ByteClass(b) = 9 <=> b \in 144..159
      /\ ByteClass(b) = 7 <=> b \in 160..191
  BY Classes
<1> QED
  BY <1>1, <1>2 DEF Byte

\* What the table takes as a character of a given length.
LEMMA CharacterOfOne ==
    ASSUME NEW c \in Seq(Byte), Len(c) = 1
    PROVE  IsCharacter(c) <=> Decode(Accept, c[1]) = Accept
<1>1. IsCharacter(c) <=> c[1] < 128
  BY DEF IsCharacter
<1>2. c[1] \in Byte
  OBVIOUS
<1> QED
  BY <1>1, <1>2, FirstByte

LEMMA CharacterOfTwo ==
    ASSUME NEW c \in Seq(Byte), Len(c) = 2
    PROVE  IsCharacter(c) <=> /\ Decode(Accept, c[1]) = 2
                              /\ ByteClass(c[2]) \in Follow[2]
<1> DEFINE a == c[1]
           b == c[2]
<1>1. a \in Byte /\ b \in Byte
  <2>1. \A i \in 1..Len(c) : c[i] \in Byte
    BY ElementOfSeq
  <2> QED
    BY <2>1
<1>2. IsCharacter(c) <=>
         a \in 192..223 /\ b \in 128..191 /\ (a - 192) * 64 + (b - 128) >= 128
  BY DEF IsCharacter, Trails
<1> HIDE DEF a, b
<1>3. IsCharacter(c) <=> a \in 194..223 /\ b \in 128..191
  BY <1>1, <1>2 DEF Byte
<1>4. Decode(Accept, a) = 2 <=> a \in 194..223
  BY <1>1, FirstByte
<1>5. ByteClass(b) \in Follow[2] <=> b \in 128..191
  BY <1>1, NextByte
<1> QED
  BY <1>3, <1>4, <1>5 DEF a, b

LEMMA CharacterOfThree ==
    ASSUME NEW c \in Seq(Byte), Len(c) = 3
    PROVE  IsCharacter(c) <=>
              /\ Decode(Accept, c[1]) \in 3..5
              /\ ByteClass(c[2]) \in Follow[Decode(Accept, c[1])]
              /\ ByteClass(c[3]) \in Follow[2]
<1> DEFINE a == c[1]
           b == c[2]
           d == c[3]
           point == (a - 224) * 4096 + (b - 128) * 64 + (d - 128)
<1>1. a \in Byte /\ b \in Byte /\ d \in Byte
  <2>1. \A i \in 1..Len(c) : c[i] \in Byte
    BY ElementOfSeq
  <2> QED
    BY <2>1
<1>2. IsCharacter(c) <=>
         /\ a \in 224..239 /\ b \in 128..191 /\ d \in 128..191
         /\ point >= 2048 /\ ~(55296 <= point /\ point <= 57343)
  BY DEF IsCharacter, Trails
<1> HIDE DEF a, b, d
<1>3. ASSUME a \in 224..239, b \in 128..191, d \in 128..191
      PROVE  /\ point >= 2048 <=> (a = 224 => b >= 160)
             /\ ~(55296 <= point /\ point <= 57343) <=> (a = 237 => b < 160)
  BY <1>3
<1> HIDE DEF point
<1>4. IsCharacter(c) <=>
         \/ a \in 225..239 \ {237} /\ b \in 128..191 /\ d \in 128..191
         \/ a = 224 /\ b \in 160..191 /\ d \in 128..191
         \/ a = 237 /\ b \in 128..159 /\ d \in 128..191
  BY <1>1, <1>2, <1>3 DEF Byte
<1> DEFINE s == Decode(Accept, a)
<1>5. /\ s = 3 <=> a \in 225..239 \ {237}
      /\ s = 4 <=> a = 224
      /\ s = 5 <=> a = 237
      /\ s \in DecoderState
  BY <1>1, FirstByte
<1>6. /\ ByteClass(b) \in Follow[3] <=> b \in 128..191
      /\ ByteClass(b) \in Follow[4] <=> b \in 160..191
      /\ ByteClass(b) \in Follow[5] <=> b \in 128..159
      /\ ByteClass(d) \in Follow[2] <=> d \in 128..191
  BY <1>1, NextByte
<1>7. s \in 3..5 <=> s = 3 \/ s = 4 \/ s = 5
  BY <1>5 DEF DecoderState
<1> HIDE DEF s
<1>8. IsCharacter(c) <=>
         s \in 3..5 /\ ByteClass(b) \in Follow[s] /\ ByteClass(d) \in Follow[2]
  <2>1. CASE s = 3
    <3>1. a \in 225..239 \ {237} /\ a # 224 /\ a # 237
      BY <1>5, <2>1
    <3> QED
      BY <1>4, <1>6, <1>7, <2>1, <3>1
  <2>2. CASE s = 4
    <3>1. a = 224 /\ a \notin 225..239 \ {237} /\ a # 237
      BY <1>5, <2>2
    <3> QED
      BY <1>4, <1>6, <1>7, <2>2, <3>1
  <2>3. CASE s = 5
    <3>1. a = 237 /\ a \notin 225..239 \ {237} /\ a # 224
      BY <1>5, <2>3
    <3> QED
      BY <1>4, <1>6, <1>7, <2>3, <3>1
  <2>4. CASE s \notin 3..5
    BY <1>4, <1>5, <1>7, <2>4
  <2> QED
    BY <1>7, <2>1, <2>2, <2>3, <2>4
<1> QED
  BY <1>8, Zenon DEF a, b, d, s

LEMMA CharacterOfFour ==
    ASSUME NEW c \in Seq(Byte), Len(c) = 4
    PROVE  IsCharacter(c) <=>
              /\ Decode(Accept, c[1]) \in 6..8
              /\ ByteClass(c[2]) \in Follow[Decode(Accept, c[1])]
              /\ ByteClass(c[3]) \in Follow[3]
              /\ ByteClass(c[4]) \in Follow[2]
<1> DEFINE a == c[1]
           b == c[2]
           d == c[3]
           e == c[4]
           point == (a - 240) * 262144 + (b - 128) * 4096 + (d - 128) * 64
                    + (e - 128)
<1>1. /\ a \in Byte /\ b \in Byte /\ d \in Byte /\ e \in Byte
  <2>1. \A i \in 1..Len(c) : c[i] \in Byte
    BY ElementOfSeq
  <2> QED
    BY <2>1
<1>2. IsCharacter(c) <=>
         /\ a \in 240..247 /\ b \in 128..191 /\ d \in 128..191 /\ e \in 128..191
         /\ 65536 <= point /\ point <= 1114111
  BY DEF IsCharacter, Trails
<1> HIDE DEF a, b, d, e
<1>3. ASSUME a \in 240..247, b \in 128..191, d \in 128..191, e \in 128..191
      PROVE  /\ point >= 65536 <=> (a = 240 => b >= 144)
             /\ point <= 1114111 <=> a <= 243 \/ (a = 244 /\ b < 144)
  BY <1>3
<1> HIDE DEF point
<1>4. IsCharacter(c) <=>
         \/ /\ a = 240 /\ b \in 144..191
            /\ d \in 128..191 /\ e \in 128..191
         \/ /\ a \in 241..243 /\ b \in 128..191
            /\ d \in 128..191 /\ e \in 128..191
         \/ /\ a = 244 /\ b \in 128..143
            /\ d \in 128..191 /\ e \in 128..191
  BY <1>1, <1>2, <1>3 DEF Byte
<1> DEFINE s == Decode(Accept, a)
<1>5. /\ s = 6 <=> a = 240
      /\ s = 7 <=> a \in 241..243
      /\ s = 8 <=> a = 244
      /\ s \in DecoderState
  BY <1>1, FirstByte
<1>6. /\ ByteClass(b) \in Follow[6] <=> b \in 144..191
      /\ ByteClass(b) \in Follow[7] <=> b \in 128..191
      /\ ByteClass(b) \in Follow[8] <=> b \in 128..143
      /\ ByteClass(d) \in Follow[3] <=> d \in 128..191
      /\ ByteClass(e) \in Follow[2] <=> e \in 128..191
  BY <1>1, NextByte
<1>7. s \in 6..8 <=> s = 6 \/ s = 7 \/ s = 8
  BY <1>5 DEF DecoderState
<1> HIDE DEF s
<1>8. IsCharacter(c) <=>
         /\ s \in 6..8 /\ ByteClass(b) \in Follow[s]
         /\ ByteClass(d) \in Follow[3] /\ ByteClass(e) \in Follow[2]
  <2>1. CASE s = 6
    <3>1. a = 240 /\ a \notin 241..243 /\ a # 244
      BY <1>5, <2>1
    <3> QED
      BY <1>4, <1>6, <1>7, <2>1, <3>1
  <2>2. CASE s = 7
    <3>1. a \in 241..243 /\ a # 240 /\ a # 244
      BY <1>5, <2>2
    <3> QED
      BY <1>4, <1>6, <1>7, <2>2, <3>1
  <2>3. CASE s = 8
    <3>1. a = 244 /\ a # 240 /\ a \notin 241..243
      BY <1>5, <2>3
    <3> QED
      BY <1>4, <1>6, <1>7, <2>3, <3>1
  <2>4. CASE s \notin 6..8
    BY <1>4, <1>5, <1>7, <2>4
  <2> QED
    BY <1>7, <2>1, <2>2, <2>3, <2>4
<1> QED
  BY <1>8, Zenon DEF a, b, d, e, s

\* The definition of characters does define, the last bytes first, from which
\* positions on bytes are characters.
LEMMA FromDefined ==
    ASSUME NEW bytes \in Seq(Byte)
    PROVE  \E from : /\ \A i \in 1..(Len(bytes) + 1) :
                           from[i] <=>
                             \/ i = Len(bytes) + 1
                             \/ \E m \in 1..4 :
                                  /\ i + m <= Len(bytes) + 1
                                  /\ IsCharacter(SubSeq(bytes, i, i + m - 1))
                                  /\ from[i + m]
                     /\ WellFormed(bytes) <=> from[1]
<1> DEFINE n == Len(bytes)
           D == 1..(n + 1)
           Char(i, m) == IsCharacter(SubSeq(bytes, i, i + m - 1))
           Body(f, i) == \/ i = n + 1
                         \/ \E m \in 1..4 : /\ i + m <= n + 1
                                            /\ Char(i, m)
                                            /\ f[i + m]
           Defined(f, k) == \A i \in D : i >= n + 2 - k => f[i] = Body(f, i)
           Upto == {k \in Nat : \E f \in [D -> BOOLEAN] : Defined(f, k)}
<1>1. n \in Nat
  OBVIOUS
<1>2. WellFormed(bytes) <=> (CHOOSE f : f = [i \in D |-> Body(f, i)])[1]
  BY Zenon DEF WellFormed
<1> HIDE DEF n, Char
<1>3. 0 \in Upto
  <2>1. [i \in D |-> TRUE] \in [D -> BOOLEAN]
    OBVIOUS
  <2>2. \A i \in D : ~(i >= n + 2 - 0)
    BY <1>1
  <2>3. Defined([i \in D |-> TRUE], 0)
    BY <2>2
  <2> HIDE DEF Defined
  <2> QED
    BY <2>1, <2>3
<1>4. ASSUME NEW k \in Nat, k \in Upto
      PROVE  k + 1 \in Upto
  <2>1. PICK f \in [D -> BOOLEAN] : Defined(f, k)
    BY <1>4
  <2> DEFINE at == n + 1 - k
             g == [i \in D |-> IF i = at THEN Body(f, at) ELSE f[i]]
  <2>2. g \in [D -> BOOLEAN]
    <3>1. Body(f, at) \in BOOLEAN
      OBVIOUS
    <3>2. \A i \in D : f[i] \in BOOLEAN
      BY <2>1
    <3> HIDE DEF Body
    <3> QED
      BY <3>1, <3>2
  <2>3. ASSUME NEW i \in D, i >= at
        PROVE  Body(g, i) = Body(f, i)
    <3>1. \A m \in 1..4 : i + m <= n + 1 => i + m \in D /\ i + m # at
      BY <1>1, <2>3
    <3>2. \A m \in 1..4 : i + m <= n + 1 => g[i + m] = f[i + m]
      BY <3>1
    <3> HIDE DEF g
    <3> QED
      BY <3>2
  <2>4. ASSUME NEW i \in D, i >= n + 2 - (k + 1)
        PROVE  g[i] = Body(g, i)
    <3>1. i >= at /\ (i = at \/ i >= n + 2 - k)
      BY <1>1, <2>4
    <3>2. g[i] = Body(f, i)
      <4>1. CASE i = at
        BY <4>1
      <4>2. CASE i # at
        <5>1. f[i] = Body(f, i)
          BY <2>1, <3>1, <4>2
        <5>2. g[i] = f[i]
          BY <4>2
        <5> QED
          BY <5>1, <5>2
      <4> QED
        BY <4>1, <4>2
    <3>3. Body(g, i) = Body(f, i)
      BY <2>3, <3>1
    <3> HIDE DEF g, Body
    <3> QED
      BY <3>2, <3>3
  <2>5. Defined(g, k + 1)
    <3> HIDE DEF g, Body
    <3> QED
      BY <2>4
  <2> HIDE DEF g, Defined
  <2> QED
    BY <2>2, <2>5
<1>5. n + 1 \in Upto
  <2> HIDE DEF Upto
  <2> QED
    BY <1>1, <1>3, <1>4, SetInduction
<1>6. PICK f \in [D -> BOOLEAN] : \A i \in D : f[i] = Body(f, i)
  <2>1. PICK f \in [D -> BOOLEAN] : Defined(f, n + 1)
    BY <1>5
  <2>2. \A i \in D : i >= n + 2 - (n + 1)
    BY <1>1
  <2> HIDE DEF Body
  <2> QED
    BY <2>1, <2>2
<1> HIDE DEF Body
<1>7. f = [i \in D |-> Body(f, i)]
  BY <1>6
<1> DEFINE from == CHOOSE h : h = [i \in D |-> Body(h, i)]
<1>8. from = [i \in D |-> Body(from, i)]
  BY <1>7, Zenon
<1>9. \A i \in D : from[i] = Body(from, i)
  BY <1>8
<1>10. WellFormed(bytes) <=> from[1]
  BY <1>2
<1> HIDE DEF from
<1> QED
  BY <1>9, <1>10, Zenon DEF Body, Char, n

\* What the bytes from position i on must be for the validator to accept them
\* from state s on, W saying from which positions on they are characters.
Rest2(W, t, s, i) ==
    i \in 1..Len(t) /\ ByteClass(t[i]) \in Follow[s] /\ W[i + 1]
Rest3(W, t, s, i) ==
    i \in 1..Len(t) /\ ByteClass(t[i]) \in Follow[s] /\ Rest2(W, t, 2, i + 1)
Rest4(W, t, s, i) ==
    i \in 1..Len(t) /\ ByteClass(t[i]) \in Follow[s] /\ Rest3(W, t, 3, i + 1)
Ahead(W, t, s, i) ==
    \/ s = Accept /\ W[i]
    \/ s = 2 /\ Rest2(W, t, s, i)
    \/ s \in 3..5 /\ Rest3(W, t, s, i)
    \/ s \in 6..8 /\ Rest4(W, t, s, i)

\* W is what FromDefined describes.
Characters(W, t) ==
    \A i \in 1..(Len(t) + 1) :
        W[i] <=> \/ i = Len(t) + 1
                 \/ \E m \in 1..4 : /\ i + m <= Len(t) + 1
                                    /\ IsCharacter(SubSeq(t, i, i + m - 1))
                                    /\ W[i + m]

\* A character at position i, read off the table.
LEMMA CharacterAt ==
    ASSUME NEW t \in Seq(Byte), NEW i \in 1..Len(t), NEW m \in 1..4,
           i + m <= Len(t) + 1
    PROVE  LET c == SubSeq(t, i, i + m - 1)
               s == Decode(Accept, t[i])
           IN /\ m = 1 => (IsCharacter(c) <=> s = Accept)
              /\ m = 2 => (IsCharacter(c) <=>
                             s = 2 /\ ByteClass(t[i + 1]) \in Follow[2])
              /\ m = 3 => (IsCharacter(c) <=>
                             /\ s \in 3..5
                             /\ ByteClass(t[i + 1]) \in Follow[s]
                             /\ ByteClass(t[i + 2]) \in Follow[2])
              /\ m = 4 => (IsCharacter(c) <=>
                             /\ s \in 6..8
                             /\ ByteClass(t[i + 1]) \in Follow[s]
                             /\ ByteClass(t[i + 2]) \in Follow[3]
                             /\ ByteClass(t[i + 3]) \in Follow[2])
<1> DEFINE c == SubSeq(t, i, i + m - 1)
           s == Decode(Accept, t[i])
<1>1. Len(t) \in Nat
  OBVIOUS
<1>2. c \in Seq(Byte) /\ Len(c) = m
  BY <1>1
<1>3. \A j \in 1..m : c[j] = t[i + j - 1]
  BY <1>1
<1> HIDE DEF c
<1>4. m = 1 => (IsCharacter(c) <=> s = Accept)
  <2> SUFFICES ASSUME m = 1 PROVE IsCharacter(c) <=> s = Accept
    OBVIOUS
  <2>1. c[1] = t[i]
    BY <1>3
  <2> QED
    BY <1>2, <2>1, CharacterOfOne
<1>5. m = 2 => (IsCharacter(c) <=>
                  s = 2 /\ ByteClass(t[i + 1]) \in Follow[2])
  <2> SUFFICES ASSUME m = 2
               PROVE  IsCharacter(c) <=>
                        s = 2 /\ ByteClass(t[i + 1]) \in Follow[2]
    OBVIOUS
  <2>1. c[1] = t[i] /\ c[2] = t[i + 1]
    BY <1>3
  <2> QED
    BY <1>2, <2>1, CharacterOfTwo
<1>6. m = 3 => (IsCharacter(c) <=>
                  /\ s \in 3..5
                  /\ ByteClass(t[i + 1]) \in Follow[s]
                  /\ ByteClass(t[i + 2]) \in Follow[2])
  <2> SUFFICES ASSUME m = 3
               PROVE  IsCharacter(c) <=>
                        /\ s \in 3..5
                        /\ ByteClass(t[i + 1]) \in Follow[s]
                        /\ ByteClass(t[i + 2]) \in Follow[2]
    OBVIOUS
  <2>1. c[1] = t[i] /\ c[2] = t[i + 1] /\ c[3] = t[i + 2]
    BY <1>3
  <2> QED
    BY <1>2, <2>1, CharacterOfThree
<1>7. m = 4 => (IsCharacter(c) <=>
                  /\ s \in 6..8
                  /\ ByteClass(t[i + 1]) \in Follow[s]
                  /\ ByteClass(t[i + 2]) \in Follow[3]
                  /\ ByteClass(t[i + 3]) \in Follow[2])
  <2> SUFFICES ASSUME m = 4
               PROVE  IsCharacter(c) <=>
                        /\ s \in 6..8
                        /\ ByteClass(t[i + 1]) \in Follow[s]
                        /\ ByteClass(t[i + 2]) \in Follow[3]
                        /\ ByteClass(t[i + 3]) \in Follow[2]
    OBVIOUS
  <2>1. c[1] = t[i] /\ c[2] = t[i + 1] /\ c[3] = t[i + 2] /\ c[4] = t[i + 3]
    BY <1>3
  <2> QED
    BY <1>2, <2>1, CharacterOfFour
<1> QED
  BY <1>4, <1>5, <1>6, <1>7 DEF c

\* Taking the byte at position i leads from what is ahead of it to what is
\* ahead of the next.
LEMMA AheadOfNext ==
    ASSUME NEW t \in Seq(Byte), NEW W, Characters(W, t),
           NEW i \in 1..Len(t), NEW s \in DecoderState
    PROVE  Ahead(W, t, s, i) <=> Ahead(W, t, Decode(s, t[i]), i + 1)
<1>1. /\ Len(t) \in Nat /\ i \in Nat /\ t[i] \in Byte
      /\ i + 1 \in Nat /\ i + 2 \in Nat
  OBVIOUS
<1>2. CASE s = Accept
  <2> DEFINE r == Decode(Accept, t[i])
  <2>1. r \in DecoderState
    BY <1>1, FirstByte
  <2>2. W[i] <=> \E m \in 1..4 : /\ i + m <= Len(t) + 1
                                 /\ IsCharacter(SubSeq(t, i, i + m - 1))
                                 /\ W[i + m]
    <3>1. i \in 1..(Len(t) + 1) /\ i # Len(t) + 1
      BY <1>1
    <3> QED
      BY <3>1 DEF Characters
  <2> DEFINE One == r = Accept /\ W[i + 1]
             Two == i + 2 <= Len(t) + 1 /\ W[i + 2]
                    /\ r = 2 /\ ByteClass(t[i + 1]) \in Follow[2]
             Three == /\ i + 3 <= Len(t) + 1 /\ W[i + 3]
                      /\ r \in 3..5
                      /\ ByteClass(t[i + 1]) \in Follow[r]
                      /\ ByteClass(t[i + 2]) \in Follow[2]
             Four == /\ i + 4 <= Len(t) + 1 /\ W[i + 4]
                     /\ r \in 6..8
                     /\ ByteClass(t[i + 1]) \in Follow[r]
                     /\ ByteClass(t[i + 2]) \in Follow[3]
                     /\ ByteClass(t[i + 3]) \in Follow[2]
  <2>3. W[i] <=> One \/ Two \/ Three \/ Four
    <3> DEFINE Is(m) == /\ i + m <= Len(t) + 1
                        /\ IsCharacter(SubSeq(t, i, i + m - 1))
                        /\ W[i + m]
    <3>1. Is(1) <=> One
      <4>1. 1 \in 1..4 /\ i + 1 <= Len(t) + 1
        BY <1>1
      <4>2. IsCharacter(SubSeq(t, i, i + 1 - 1)) <=> r = Accept
        BY <4>1, CharacterAt
      <4> QED
        BY <4>1, <4>2
    <3>2. Is(2) <=> Two
      <4>1. 2 \in 1..4
        OBVIOUS
      <4>2. i + 2 <= Len(t) + 1 =>
              (IsCharacter(SubSeq(t, i, i + 2 - 1)) <=>
                 r = 2 /\ ByteClass(t[i + 1]) \in Follow[2])
        BY <4>1, CharacterAt
      <4> QED
        BY <4>2
    <3>3. Is(3) <=> Three
      <4>1. 3 \in 1..4
        OBVIOUS
      <4>2. i + 3 <= Len(t) + 1 =>
              (IsCharacter(SubSeq(t, i, i + 3 - 1)) <=>
                 /\ r \in 3..5
                 /\ ByteClass(t[i + 1]) \in Follow[r]
                 /\ ByteClass(t[i + 2]) \in Follow[2])
        BY <4>1, CharacterAt
      <4> QED
        BY <4>2
    <3>4. Is(4) <=> Four
      <4>1. 4 \in 1..4
        OBVIOUS
      <4>2. i + 4 <= Len(t) + 1 =>
              (IsCharacter(SubSeq(t, i, i + 4 - 1)) <=>
                 /\ r \in 6..8
                 /\ ByteClass(t[i + 1]) \in Follow[r]
                 /\ ByteClass(t[i + 2]) \in Follow[3]
                 /\ ByteClass(t[i + 3]) \in Follow[2])
        BY <4>1, CharacterAt
      <4> QED
        BY <4>2
    <3>5. W[i] <=> \E m \in 1..4 : Is(m)
      BY <2>2
    <3>6. (\E m \in 1..4 : Is(m)) <=> Is(1) \/ Is(2) \/ Is(3) \/ Is(4)
      <4> HIDE DEF Is
      <4> QED
        OBVIOUS
    <3> HIDE DEF Is, One, Two, Three, Four
    <3> QED
      BY <3>1, <3>2, <3>3, <3>4, <3>5, <3>6
  <2> HIDE DEF r
  <2>4. One <=> r = Accept /\ W[i + 1]
    OBVIOUS
  <2>5. Two <=> r = 2 /\ Rest2(W, t, 2, i + 1)
    BY <1>1 DEF Rest2
  <2>6. Three <=> r \in 3..5 /\ Rest3(W, t, r, i + 1)
    BY <1>1 DEF Rest2, Rest3
  <2>7. Four <=> r \in 6..8 /\ Rest4(W, t, r, i + 1)
    BY <1>1 DEF Rest2, Rest3, Rest4
  <2> HIDE DEF One, Two, Three, Four
  <2>8. W[i] <=> Ahead(W, t, r, i + 1)
    BY <2>3, <2>4, <2>5, <2>6, <2>7 DEF Ahead
  <2>9. Ahead(W, t, s, i) <=> W[i]
    BY <1>2 DEF Ahead, Accept
  <2> QED
    BY <1>2, <2>8, <2>9 DEF r
<1>3. CASE s = Reject
  <2>1. Decode(s, t[i]) = Reject
    BY <1>3 DEF Decode, Follow, After, Accept, Reject
  <2> QED
    BY <1>3, <2>1 DEF Ahead, Accept, Reject
<1>4. CASE s \notin {Accept, Reject}
  <2> DEFINE follows == ByteClass(t[i]) \in Follow[s]
  <2>1. /\ follows => Decode(s, t[i]) = After[s]
        /\ ~follows => Decode(s, t[i]) = Reject
    BY <1>4 DEF Decode
  <2>2. ~Ahead(W, t, Reject, i + 1)
    BY DEF Ahead, Accept, Reject
  <2>3. ~follows => ~Ahead(W, t, s, i)
    BY <1>4 DEF Ahead, Rest2, Rest3, Rest4, Accept
  <2>4. follows => (Ahead(W, t, s, i) <=> Ahead(W, t, After[s], i + 1))
    <3> SUFFICES ASSUME follows
                 PROVE  Ahead(W, t, s, i) <=> Ahead(W, t, After[s], i + 1)
      OBVIOUS
    <3>1. CASE s = 2
      <4>1. After[s] = Accept
        BY <3>1 DEF After, Accept
      <4>2. Ahead(W, t, s, i) <=> W[i + 1]
        BY <3>1 DEF Ahead, Rest2, Accept
      <4>3. Ahead(W, t, Accept, i + 1) <=> W[i + 1]
        BY DEF Ahead, Accept
      <4> QED
        BY <4>1, <4>2, <4>3
    <3>2. CASE s \in 3..5
      <4>1. After[s] = 2
        BY <3>2 DEF After
      <4>2. Ahead(W, t, s, i) <=> Rest2(W, t, 2, i + 1)
        BY <3>2 DEF Ahead, Rest3, Accept
      <4>3. Ahead(W, t, 2, i + 1) <=> Rest2(W, t, 2, i + 1)
        BY DEF Ahead, Accept
      <4> QED
        BY <4>1, <4>2, <4>3
    <3>3. CASE s \in 6..8
      <4>1. After[s] = 3
        BY <3>3 DEF After
      <4>2. Ahead(W, t, s, i) <=> Rest3(W, t, 3, i + 1)
        BY <3>3 DEF Ahead, Rest4, Accept
      <4>3. Ahead(W, t, 3, i + 1) <=> Rest3(W, t, 3, i + 1)
        BY DEF Ahead, Accept
      <4> QED
        BY <4>1, <4>2, <4>3
    <3>4. s = 2 \/ s \in 3..5 \/ s \in 6..8
      BY <1>4 DEF DecoderState, Accept, Reject
    <3> QED
      BY <3>1, <3>2, <3>3, <3>4
  <2> QED
    BY <2>1, <2>2, <2>3, <2>4
<1> QED
  BY <1>2, <1>3, <1>4

\* The validator accepts exactly the strings that are characters, whatever
\* their length: its two tables are the definition of UTF-8.
THEOREM ValidatorIsExact ==
    ASSUME NEW bytes \in Seq(Byte)
    PROVE  Validate(bytes) <=> WellFormed(bytes)
<1> DEFINE n == Len(bytes)
<1>1. n \in Nat /\ \A i \in 1..n : bytes[i] \in Byte
  OBVIOUS
<1>2. PICK W : Characters(W, bytes) /\ (WellFormed(bytes) <=> W[1])
  BY FromDefined DEF Characters
<1>3. PICK run : /\ run[0] = Accept
                 /\ \A k \in 1..n : run[k] = Decode(run[k - 1], bytes[k])
                 /\ DecodeAll(Accept, bytes) = run[n]
  BY RunDefined
<1> DEFINE Same == {k \in Nat : k <= n => /\ run[k] \in DecoderState
                                          /\ Ahead(W, bytes, run[k], k + 1) <=> W[1]}
<1>4. 0 \in Same
  <2>1. Ahead(W, bytes, Accept, 1) <=> W[1]
    BY DEF Ahead, Accept
  <2>2. Accept \in DecoderState
    BY DEF Accept, DecoderState
  <2> QED
    BY <1>3, <2>1, <2>2
<1>5. ASSUME NEW k \in Nat, k \in Same
      PROVE  k + 1 \in Same
  <2> SUFFICES ASSUME k + 1 <= n
               PROVE  /\ run[k + 1] \in DecoderState
                      /\ Ahead(W, bytes, run[k + 1], k + 1 + 1) <=> W[1]
    OBVIOUS
  <2>1. k <= n /\ k + 1 \in 1..n /\ (k + 1) - 1 = k
    BY <1>1
  <2>2. run[k] \in DecoderState /\ (Ahead(W, bytes, run[k], k + 1) <=> W[1])
    BY <1>5, <2>1
  <2>3. run[k + 1] = Decode(run[k], bytes[k + 1])
    BY <1>3, <2>1
  <2>4. run[k + 1] \in DecoderState
    BY <1>1, <2>1, <2>2, <2>3, DecodeType
  <2>5. Ahead(W, bytes, run[k], k + 1) <=> Ahead(W, bytes, run[k + 1], k + 1 + 1)
    BY <1>2, <2>1, <2>2, <2>3, AheadOfNext
  <2> QED
    BY <2>2, <2>4, <2>5
<1>6. n \in Same
  <2> HIDE DEF Same
  <2> QED
    BY <1>1, <1>4, <1>5, SetInduction
<1>7. run[n] \in DecoderState /\ (Ahead(W, bytes, run[n], n + 1) <=> W[1])
  BY <1>1, <1>6
<1>8. Ahead(W, bytes, run[n], n + 1) <=> run[n] = Accept
  <2>1. n + 1 \notin 1..n
    BY <1>1
  <2>2. W[n + 1]
    BY <1>1, <1>2 DEF Characters
  <2> QED
    BY <2>1, <2>2 DEF Ahead, Rest2, Rest3, Rest4
<1> QED
  BY <1>2, <1>3, <1>7, <1>8 DEF Validate

\* A text that comes in two pieces ends in the state it ends in as a whole,
\* wherever it is cut: between characters or inside one.
THEOREM PiecesAddUp ==
    ASSUME NEW s, NEW a \in Seq(Byte), NEW b \in Seq(Byte)
    PROVE  DecodeAll(s, a \o b) = DecodeAll(DecodeAll(s, a), b)
<1> DEFINE m == Len(a)
           n == Len(b)
           t == a \o b
<1>1. /\ m \in Nat /\ n \in Nat /\ t \in Seq(Byte) /\ Len(t) = m + n
      /\ \A k \in 1..m : t[k] = a[k]
      /\ \A k \in 1..n : t[m + k] = b[k]
  BY ConcatProperties
<1>2. PICK first : /\ first[0] = s
                   /\ \A k \in 1..m : first[k] = Decode(first[k - 1], a[k])
                   /\ DecodeAll(s, a) = first[m]
  BY RunDefined
<1>3. PICK second : /\ second[0] = first[m]
                    /\ \A k \in 1..n : second[k] = Decode(second[k - 1], b[k])
                    /\ DecodeAll(first[m], b) = second[n]
  BY RunDefined
<1> HIDE DEF t
<1>4. PICK whole : /\ whole[0] = s
                   /\ \A k \in 1..Len(t) : whole[k] = Decode(whole[k - 1], t[k])
                   /\ DecodeAll(s, t) = whole[Len(t)]
  BY <1>1, RunDefined
<1> HIDE DEF m, n
<1> DEFINE SameFirst == {k \in Nat : k <= m => whole[k] = first[k]}
           SameSecond == {k \in Nat : k <= n => whole[m + k] = second[k]}
<1>5. m \in SameFirst
  <2>1. 0 \in SameFirst
    BY <1>2, <1>4
  <2>2. ASSUME NEW k \in Nat, k \in SameFirst
        PROVE  k + 1 \in SameFirst
    <3> SUFFICES ASSUME k + 1 <= m PROVE whole[k + 1] = first[k + 1]
      OBVIOUS
    <3>1. k + 1 \in 1..m /\ k + 1 \in 1..Len(t) /\ (k + 1) - 1 = k /\ k <= m
      BY <1>1
    <3>2. /\ whole[k + 1] = Decode(whole[k], t[k + 1])
          /\ first[k + 1] = Decode(first[k], a[k + 1])
          /\ t[k + 1] = a[k + 1]
      BY <1>1, <1>2, <1>4, <3>1 DEF m
    <3> QED
      BY <2>2, <3>1, <3>2
  <2> HIDE DEF SameFirst
  <2> QED
    BY <1>1, <2>1, <2>2, SetInduction DEF m
<1>6. whole[m] = first[m]
  BY <1>1, <1>5 DEF m
<1>7. n \in SameSecond
  <2>1. 0 \in SameSecond
    <3>1. m + 0 = m
      BY <1>1 DEF m
    <3> QED
      BY <1>3, <1>6, <3>1
  <2>2. ASSUME NEW k \in Nat, k \in SameSecond
        PROVE  k + 1 \in SameSecond
    <3> SUFFICES ASSUME k + 1 <= n PROVE whole[m + (k + 1)] = second[k + 1]
      OBVIOUS
    <3>1. /\ k + 1 \in 1..n /\ (k + 1) - 1 = k /\ k <= n
          /\ m + (k + 1) \in 1..Len(t) /\ m + (k + 1) - 1 = m + k
      BY <1>1
    <3>2. /\ whole[m + (k + 1)] = Decode(whole[m + k], t[m + (k + 1)])
          /\ second[k + 1] = Decode(second[k], b[k + 1])
          /\ t[m + (k + 1)] = b[k + 1]
      BY <1>1, <1>3, <1>4, <3>1
    <3> QED
      BY <2>2, <3>1, <3>2
  <2> HIDE DEF SameSecond
  <2> QED
    BY <1>1, <2>1, <2>2, SetInduction DEF n
<1>8. whole[m + n] = second[n]
  BY <1>1, <1>7 DEF n
<1> QED
  BY <1>1, <1>2, <1>3, <1>4, <1>8 DEF m, n, t

\* The state after a string is one of the nine; a rejected string stays one.
LEMMA DecodeAllType ==
    ASSUME NEW s \in DecoderState, NEW t \in Seq(Byte)
    PROVE  /\ DecodeAll(s, t) \in DecoderState
           /\ s = Reject => DecodeAll(s, t) = Reject
<1> DEFINE n == Len(t)
<1>1. n \in Nat /\ \A i \in 1..n : t[i] \in Byte
  OBVIOUS
<1>2. PICK run : /\ run[0] = s
                 /\ \A k \in 1..n : run[k] = Decode(run[k - 1], t[k])
                 /\ DecodeAll(s, t) = run[n]
  BY RunDefined
<1> DEFINE Good == {k \in Nat : k <= n => /\ run[k] \in DecoderState
                                          /\ s = Reject => run[k] = Reject}
<1>3. 0 \in Good
  BY <1>2
<1>4. ASSUME NEW k \in Nat, k \in Good
      PROVE  k + 1 \in Good
  <2> SUFFICES ASSUME k + 1 <= n
               PROVE  run[k + 1] \in DecoderState /\ (s = Reject => run[k + 1] = Reject)
    OBVIOUS
  <2>1. k <= n /\ k + 1 \in 1..n /\ (k + 1) - 1 = k
    BY <1>1
  <2>2. run[k + 1] = Decode(run[k], t[k + 1]) /\ t[k + 1] \in Byte
    BY <1>1, <1>2, <2>1
  <2>3. run[k] \in DecoderState /\ (s = Reject => run[k] = Reject)
    BY <1>4, <2>1
  <2>4. Decode(Reject, t[k + 1]) = Reject
    BY DEF Decode, Follow, After, Accept, Reject
  <2> QED
    BY <2>2, <2>3, <2>4, DecodeType
<1>5. n \in Good
  <2> HIDE DEF Good
  <2> QED
    BY <1>1, <1>3, <1>4, SetInduction
<1> QED
  BY <1>1, <1>2, <1>5

\* From every state but Reject some bytes lead to Accept.
LEMMA StateIsOpen ==
    ASSUME NEW s \in DecoderState, s # Reject
    PROVE  \E rest \in Seq(Byte) : DecodeAll(s, rest) = Accept
<1> DEFINE x == CASE s = 4 -> 160 [] s = 6 -> 144 [] OTHER -> 128
<1>1. 128 \in Byte /\ x \in Byte
  BY DEF Byte
<1>2. CASE s = Accept
  <2> DEFINE r == << >>
  <2>1. r \in Seq(Byte) /\ Len(r) = 0
    OBVIOUS
  <2> HIDE DEF r
  <2>2. r \in Seq(Byte)
    BY <2>1
  <2>3. PICK run : /\ run[0] = s
                   /\ \A k \in 1..Len(r) : run[k] = Decode(run[k - 1], r[k])
                   /\ DecodeAll(s, r) = run[Len(r)]
    BY <2>2, RunDefined
  <2> QED
    BY <1>2, <2>1, <2>3
<1>3. ByteClass(128) = 1
  BY <1>1, Classes
<1>4. Decode(2, 128) = Accept /\ Decode(3, 128) = 2
  BY <1>3 DEF Decode, Follow, After, Accept
<1>5. CASE s = 2
  <2> DEFINE r == <<128>>
  <2>1. r \in Seq(Byte) /\ Len(r) = 1 /\ r[1] = 128
    BY <1>1
  <2> HIDE DEF r
  <2>2. r \in Seq(Byte)
    BY <2>1
  <2>3. PICK run : /\ run[0] = s
                   /\ \A k \in 1..Len(r) : run[k] = Decode(run[k - 1], r[k])
                   /\ DecodeAll(s, r) = run[Len(r)]
    BY <2>2, RunDefined
  <2>4. run[1] = Decode(run[0], r[1])
    BY <2>1, <2>3
  <2> QED
    BY <1>4, <1>5, <2>1, <2>3, <2>4
<1>6. CASE s \in 3..5
  <2> DEFINE r == <<x, 128>>
  <2>1. r \in Seq(Byte) /\ Len(r) = 2 /\ r[1] = x /\ r[2] = 128
    BY <1>1
  <2>2. Decode(s, x) = 2
    <3>1. (s = 4 /\ x = 160) \/ (s \in {3, 5} /\ x = 128)
      BY <1>6
    <3>2. ByteClass(x) \in Follow[s]
      BY <1>1, <3>1, NextByte
    <3> QED
      BY <1>6, <3>2 DEF Decode, After, Accept
  <2> HIDE DEF r, x
  <2>3. PICK run : /\ run[0] = s
                   /\ \A k \in 1..Len(r) : run[k] = Decode(run[k - 1], r[k])
                   /\ DecodeAll(s, r) = run[Len(r)]
    <3>1. r \in Seq(Byte)
      BY <2>1
    <3> QED
      BY <3>1, RunDefined
  <2>4. run[1] = Decode(run[0], r[1]) /\ run[2] = Decode(run[1], r[2])
    BY <2>1, <2>3
  <2> QED
    BY <1>4, <2>1, <2>2, <2>3, <2>4
<1>7. CASE s \in 6..8
  <2> DEFINE r == <<x, 128, 128>>
  <2>1. r \in Seq(Byte) /\ Len(r) = 3 /\ r[1] = x /\ r[2] = 128 /\ r[3] = 128
    BY <1>1
  <2>2. Decode(s, x) = 3
    <3>1. (s = 6 /\ x = 144) \/ (s \in {7, 8} /\ x = 128)
      BY <1>7
    <3>2. ByteClass(x) \in Follow[s]
      BY <1>1, <3>1, NextByte
    <3> QED
      BY <1>7, <3>2 DEF Decode, After, Accept
  <2> HIDE DEF r, x
  <2>3. PICK run : /\ run[0] = s
                   /\ \A k \in 1..Len(r) : run[k] = Decode(run[k - 1], r[k])
                   /\ DecodeAll(s, r) = run[Len(r)]
    <3>1. r \in Seq(Byte)
      BY <2>1
    <3> QED
      BY <3>1, RunDefined
  <2>4. /\ run[1] = Decode(run[0], r[1]) /\ run[2] = Decode(run[1], r[2])
        /\ run[3] = Decode(run[2], r[3])
    BY <2>1, <2>3
  <2> QED
    BY <1>4, <2>1, <2>2, <2>3, <2>4
<1>8. s = Accept \/ s = 2 \/ s \in 3..5 \/ s \in 6..8
  BY DEF DecoderState, Accept, Reject
<1> QED
  BY <1>2, <1>5, <1>6, <1>7, <1>8

\* The validator gives a text up exactly when no bytes behind it could make it
\* one: neither later than that, nor while it could still be completed.
THEOREM RejectsWhenHopeless ==
    ASSUME NEW t \in Seq(Byte)
    PROVE  DecodeAll(Accept, t) = Reject <=>
             \A rest \in Seq(Byte) : ~WellFormed(t \o rest)
<1> DEFINE s == DecodeAll(Accept, t)
<1>1. s \in DecoderState
  <2>1. Accept \in DecoderState
    BY DEF Accept, DecoderState
  <2> QED
    BY <2>1, DecodeAllType
<1>2. ASSUME NEW rest \in Seq(Byte)
      PROVE  WellFormed(t \o rest) <=> DecodeAll(s, rest) = Accept
  <2>1. t \o rest \in Seq(Byte)
    OBVIOUS
  <2>2. DecodeAll(Accept, t \o rest) = DecodeAll(s, rest)
    BY PiecesAddUp
  <2> QED
    BY <2>1, <2>2, ValidatorIsExact DEF Validate
<1> HIDE DEF s
<1>3. ASSUME s = Reject, NEW rest \in Seq(Byte)
      PROVE  ~WellFormed(t \o rest)
  <2>1. DecodeAll(s, rest) = Reject
    BY <1>1, <1>3, DecodeAllType
  <2> QED
    BY <1>2, <2>1 DEF Accept, Reject
<1>4. ASSUME s # Reject
      PROVE  \E rest \in Seq(Byte) : WellFormed(t \o rest)
  BY <1>1, <1>2, <1>4, StateIsOpen
<1> QED
  BY <1>3, <1>4 DEF s

-----------------------------------------------------------------------------
(* What completes a text.                                                  *)

\* What a text's decoding comes to behind its first k bytes.
StateAt(t, k) == DecodeAll(Accept, SubSeq(t, 1, k))

\* The decoding of a text, byte by byte.
LEMMA StatesRun ==
    ASSUME NEW t \in Seq(Byte)
    PROVE  /\ Len(t) \in Nat
           /\ StateAt(t, 0) = Accept
           /\ StateAt(t, Len(t)) = DecodeAll(Accept, t)
           /\ \A k \in 0..Len(t) : /\ SubSeq(t, 1, k) \in Seq(Byte)
                                   /\ StateAt(t, k) \in DecoderState
           /\ \A k \in 1..Len(t) : /\ StateAt(t, k) = Decode(StateAt(t, k - 1), t[k])
                                   /\ t[k] \in Byte
<1> DEFINE n == Len(t)
<1>1. n \in Nat /\ \A k \in 1..n : t[k] \in Byte
  OBVIOUS
<1> HIDE DEF n
<1>2. ASSUME NEW k \in 0..n PROVE SubSeq(t, 1, k) \in Seq(Byte)
  <2>1. k \in Int /\ \A i \in 1..k : t[i] \in Byte
    BY <1>1
  <2> QED
    BY <2>1, SubSeqProperties
<1>3. ASSUME NEW k \in 0..n PROVE StateAt(t, k) \in DecoderState
  <2>1. Accept \in DecoderState
    BY DEF Accept, DecoderState
  <2> QED
    BY <1>2, <2>1, DecodeAllType DEF StateAt
<1>4. StateAt(t, 0) = Accept
  <2> DEFINE none == SubSeq(t, 1, 0)
  <2>1. none = <<>>
    BY SubSeqEmpty
  <2>2. none \in Seq(Byte) /\ Len(none) = 0
    BY <2>1
  <2> HIDE DEF none
  <2>3. none \in Seq(Byte)
    BY <2>2
  <2>4. PICK run : /\ run[0] = Accept
                   /\ \A j \in 1..Len(none) : run[j] = Decode(run[j - 1], none[j])
                   /\ DecodeAll(Accept, none) = run[Len(none)]
    BY <2>3, RunDefined
  <2> QED
    BY <2>2, <2>4 DEF StateAt, none
<1>5. StateAt(t, n) = DecodeAll(Accept, t)
  BY SubSeqFull DEF StateAt, n
<1>6. ASSUME NEW k \in 1..n PROVE StateAt(t, k) = Decode(StateAt(t, k - 1), t[k])
  <2> DEFINE a == SubSeq(t, 1, k - 1)
             b == <<t[k]>>
  <2>1. k - 1 \in 0..n /\ k \in 0..n /\ t[k] \in Byte
    BY <1>1
  <2>2. a \in Seq(Byte)
    BY <1>2, <2>1
  <2>3. b \in Seq(Byte) /\ Len(b) = 1 /\ b[1] = t[k]
    BY <2>1
  <2>4. SubSeq(t, 1, k) = a \o b
    <3>1. 1 \in 1..Len(t) /\ k \in 1..Len(t)
      BY <1>1 DEF n
    <3> QED
      BY <3>1, SubSeqRecursiveSecond
  <2> HIDE DEF a, b
  <2>5. DecodeAll(Accept, a \o b) = DecodeAll(DecodeAll(Accept, a), b)
    BY <2>2, <2>3, PiecesAddUp
  <2> DEFINE s == DecodeAll(Accept, a)
  <2> HIDE DEF s
  <2>6. b \in Seq(Byte)
    BY <2>3
  <2>7. PICK run : /\ run[0] = s
                   /\ \A j \in 1..Len(b) : run[j] = Decode(run[j - 1], b[j])
                   /\ DecodeAll(s, b) = run[Len(b)]
    BY <2>6, RunDefined
  <2>8. run[1] = Decode(run[0], b[1]) /\ DecodeAll(s, b) = run[1]
    BY <2>3, <2>7
  <2>9. DecodeAll(s, b) = Decode(s, t[k])
    BY <2>3, <2>7, <2>8
  <2> QED
    BY <2>4, <2>5, <2>9, Zenon DEF StateAt, s, a
<1> QED
  BY <1>1, <1>2, <1>3, <1>4, <1>5, <1>6 DEF n

\* A byte that leads to a state inside a character comes first in it or
\* follows another one.
LEMMA StateBefore ==
    ASSUME NEW r \in DecoderState, NEW b \in Byte, Decode(r, b) \in 2..8
    PROVE  \/ r = Accept
           \/ Decode(r, b) = 2 /\ r \in 3..5 /\ ByteClass(b) \in Follow[r]
           \/ Decode(r, b) = 3 /\ r \in 6..8 /\ ByteClass(b) \in Follow[r]
<1>1. CASE r = Accept
  BY <1>1
<1>2. CASE r = Reject
  BY <1>2, DecodeType DEF Decode, Accept, Reject, Follow, After
<1>3. CASE r \in 2..8
  <2>1. r # Accept
    BY <1>3 DEF Accept
  <2>2. ByteClass(b) \in Follow[r]
    <3> SUFFICES ASSUME ByteClass(b) \notin Follow[r] PROVE FALSE
      OBVIOUS
    <3>1. Decode(r, b) = 1
      BY <2>1, Zenon DEF Decode, Reject
    <3> QED
      BY <3>1
  <2>3. Decode(r, b) = After[r]
    BY <2>1, <2>2, Zenon DEF Decode
  <2>4. After[2] = 0 /\ After[3] = 2 /\ After[4] = 2 /\ After[5] = 2
        /\ After[6] = 3 /\ After[7] = 3 /\ After[8] = 3
    BY DEF After
  <2>5. r = 2 \/ r = 3 \/ r = 4 \/ r = 5 \/ r = 6 \/ r = 7 \/ r = 8
    BY <1>3
  <2> QED
    BY <2>2, <2>3, <2>4, <2>5
<1> QED
  BY <1>1, <1>2, <1>3 DEF DecoderState, Accept, Reject

\* The last n bytes of a text and m more.
LastAnd(t, n, m, rest) ==
    LET c == SubSeq(t, Len(t) - n + 1, Len(t)) \o rest
    IN /\ c \in Seq(Byte) /\ Len(c) = n + m
       /\ rest \in Seq(Byte)
       /\ SubSeq(t, Len(t) - n + 1, Len(t)) \in Seq(Byte)
       /\ \A j \in 1..n : c[j] = t[Len(t) - n + j]
       /\ \A j \in 1..m : c[n + j] = rest[j]

LEMMA LastAndMore ==
    ASSUME NEW t \in Seq(Byte), NEW n \in 1..3, n <= Len(t),
           NEW m \in 1..3, NEW rest \in [1..m -> TrailBounds]
    PROVE  LastAnd(t, n, m, rest)
<1> DEFINE l == Len(t)
           a == SubSeq(t, l - n + 1, l)
           c == a \o rest
<1>1. l \in Nat /\ \A k \in 1..l : t[k] \in Byte
  OBVIOUS
<1>2. n \in 1..3 /\ n <= l
  OBVIOUS
<1> HIDE DEF l
<1>3. /\ l - n + 1 \in Int /\ l \in Int /\ l - n + 1 <= l /\ l - (l - n + 1) + 1 = n
      /\ \A k \in l - n + 1..l : t[k] \in Byte
  BY <1>1, <1>2
<1>4. a \in Seq(Byte) /\ Len(a) = n /\ \A j \in 1..n : a[j] = t[(l - n + 1) + j - 1]
  BY <1>3, SubSeqProperties
<1>5. \A j \in 1..n : (l - n + 1) + j - 1 = l - n + j
  BY <1>1, <1>2
<1>6. rest \in Seq(Byte) /\ Len(rest) = m
  <2>1. TrailBounds \subseteq Byte
    BY DEF TrailBounds, Byte
  <2>2. m \in Nat /\ rest \in [1..m -> Byte]
    BY <2>1
  <2> QED
    BY <2>2
<1> HIDE DEF a
<1>7. /\ a \o rest \in Seq(Byte) /\ Len(a \o rest) = Len(a) + Len(rest)
      /\ \A j \in 1..Len(a) + Len(rest) :
           (a \o rest)[j] = IF j <= Len(a) THEN a[j] ELSE rest[j - Len(a)]
  <2>1. a \in Seq(Byte)
    BY <1>4
  <2>2. rest \in Seq(Byte)
    BY <1>6
  <2> QED
    BY <2>1, <2>2, ConcatProperties
<1>8. ASSUME NEW j \in 1..n PROVE c[j] = t[l - n + j]
  <2>1. j \in 1..n + m /\ j <= n
    BY <1>2
  <2> QED
    BY <1>4, <1>5, <1>6, <1>7, <2>1
<1>9. ASSUME NEW j \in 1..m PROVE c[n + j] = rest[j]
  <2>1. n + j \in 1..n + m /\ ~(n + j <= n) /\ (n + j) - n = j
    BY <1>2
  <2> QED
    BY <1>4, <1>6, <1>7, <2>1
<1> QED
  BY <1>4, <1>6, <1>7, <1>8, <1>9 DEF l, a, LastAnd

\* Characters and, behind them, what m bytes make a character.
LEMMA CompletedBy ==
    ASSUME NEW t \in Seq(Byte), NEW n \in 1..3, n <= Len(t),
           StateAt(t, Len(t) - n) = Accept,
           NEW m \in 1..3, n + m <= 4, NEW rest \in [1..m -> TrailBounds],
           IsCharacter(SubSeq(t, Len(t) - n + 1, Len(t)) \o rest)
    PROVE  Completable(t)
<1>1. Len(t) - n \in 0..Len(t)
  <2>1. Len(t) \in Nat
    OBVIOUS
  <2> QED
    BY <2>1
<1>2. SubSeq(t, 1, Len(t) - n) \in Seq(Byte)
  BY <1>1, StatesRun
<1>3. WellFormed(SubSeq(t, 1, Len(t) - n))
  BY <1>2, ValidatorIsExact DEF StateAt, Validate
<1> QED
  BY <1>3 DEF Completable

\* A character of one byte and more.
LEMMA StartedCompletable ==
    ASSUME NEW t \in Seq(Byte), Len(t) >= 1,
           StateAt(t, Len(t) - 1) = Accept, StateAt(t, Len(t)) \in 2..8
    PROVE  Completable(t)
<1> DEFINE l == Len(t)
           s == StateAt(t, l)
           x == CASE s = 4 -> 160 [] s = 6 -> 144 [] OTHER -> 128
           m == CASE s = 2 -> 1 [] s \in 3..5 -> 2 [] s \in 6..8 -> 3
           rest == [j \in 1..m |-> IF j = 1 THEN x ELSE 128]
           c == SubSeq(t, l - 1 + 1, l) \o rest
<1>1. l \in Nat /\ l \in 1..l /\ s = Decode(Accept, t[l])
  BY StatesRun
<1>2. s \in 2..8 /\ m \in 1..3 /\ 1 + m <= 4
  OBVIOUS
<1>3. x \in TrailBounds /\ x \in Byte /\ 128 \in Byte
  BY DEF TrailBounds, Byte
<1>4. rest \in [1..m -> TrailBounds]
  BY <1>3 DEF TrailBounds
<1>5. /\ c \in Seq(Byte) /\ Len(c) = 1 + m
      /\ c[1] = t[l]
      /\ \A j \in 1..m : c[1 + j] = rest[j]
  <2> HIDE DEF rest, m
  <2>1. 1 \in 1..3 /\ 1 <= Len(t) /\ 1 \in 1..1
    OBVIOUS
  <2>2. Len(t) - 1 + 1 = Len(t)
    BY <1>1
  <2>3. LastAnd(t, 1, m, rest)
    BY <1>2, <1>4, <2>1, LastAndMore
  <2> QED
    BY <1>2, <1>4, <2>1, <2>2, <2>3 DEF LastAnd
<1>6. \A j \in 1..m : rest[j] = IF j = 1 THEN x ELSE 128
  OBVIOUS
<1>7. (s # Reject => ByteClass(128) \in Follow[2] /\ ByteClass(128) \in Follow[3])
  BY <1>3, NextByte
<1>8. s \in 3..8 => ByteClass(x) \in Follow[s]
  <2>1. s \in 3..8 => (s = 4 /\ x = 160) \/ (s = 6 /\ x = 144)
                      \/ (s \in {3, 5, 7, 8} /\ x = 128)
    OBVIOUS
  <2> QED
    BY <1>3, <2>1, NextByte
<1>9. s = 2 => x = 128
  OBVIOUS
<1>10. /\ s = 2 => m = 1
       /\ s \in 3..5 => m = 2
       /\ s \in 6..8 => m = 3
  OBVIOUS
<1>11. c[1] = t[l] /\ s # Reject
  BY <1>2, <1>5 DEF Reject
<1>12. c[2] = x /\ (m >= 2 => c[3] = 128) /\ (m = 3 => c[4] = 128)
  <2>1. 1 \in 1..m /\ (m >= 2 => 2 \in 1..m) /\ (m = 3 => 3 \in 1..m)
    BY <1>2
  <2> HIDE DEF rest, m, c, x, s
  <2>2. c[1 + 1] = rest[1] /\ rest[1] = x
    BY <1>5, <1>6, <2>1
  <2>3. m >= 2 => c[1 + 2] = rest[2] /\ rest[2] = 128
    BY <1>5, <1>6, <2>1
  <2>4. m = 3 => c[1 + 3] = rest[3] /\ rest[3] = 128
    BY <1>5, <1>6, <2>1
  <2> QED
    BY <2>2, <2>3, <2>4
<1>13. c \in Seq(Byte) /\ Len(c) = 1 + m
  BY <1>5
<1> HIDE DEF rest, x, c, m, s
<1>14. c \in Seq(Byte)
  BY <1>13
<1>15. IsCharacter(c)
  <2>1. CASE s = 2
    <3>1. Len(c) = 2 /\ Decode(Accept, c[1]) = 2 /\ ByteClass(c[2]) \in Follow[2]
      BY <1>1, <1>7, <1>9, <1>10, <1>11, <1>12, <1>13, <2>1
    <3> QED
      BY <1>14, <3>1, CharacterOfTwo
  <2>2. CASE s \in 3..5
    <3>1. /\ Len(c) = 3 /\ Decode(Accept, c[1]) = s
          /\ ByteClass(c[2]) \in Follow[s] /\ ByteClass(c[3]) \in Follow[2]
      BY <1>1, <1>7, <1>8, <1>10, <1>11, <1>12, <1>13, <2>2
    <3> QED
      BY <1>14, <2>2, <3>1, CharacterOfThree
  <2>3. CASE s \in 6..8
    <3>1. /\ Len(c) = 4 /\ Decode(Accept, c[1]) = s
          /\ ByteClass(c[2]) \in Follow[s] /\ ByteClass(c[3]) \in Follow[3]
          /\ ByteClass(c[4]) \in Follow[2]
      BY <1>1, <1>7, <1>8, <1>10, <1>11, <1>12, <1>13, <2>3
    <3> QED
      BY <1>14, <2>3, <3>1, CharacterOfFour
  <2> QED
    BY <1>2, <2>1, <2>2, <2>3
<1>16. 1 \in 1..3 /\ 1 <= Len(t) /\ Len(t) - 1 + 1 = l - 1 + 1
  BY <1>1
<1> QED
  BY <1>2, <1>4, <1>15, <1>16, CompletedBy DEF c, l

\* A character of three or four bytes, of which all but the last have come.
LEMMA AlmostCompletable ==
    ASSUME NEW t \in Seq(Byte), NEW n \in 2..3, n <= Len(t),
           StateAt(t, Len(t) - n) = Accept, StateAt(t, Len(t)) = 2,
           \/ n = 2 /\ StateAt(t, Len(t) - 1) \in 3..5
              /\ ByteClass(t[Len(t)]) \in Follow[StateAt(t, Len(t) - 1)]
           \/ /\ n = 3 /\ StateAt(t, Len(t) - 2) \in 6..8
              /\ ByteClass(t[Len(t) - 1]) \in Follow[StateAt(t, Len(t) - 2)]
              /\ ByteClass(t[Len(t)]) \in Follow[3]
    PROVE  Completable(t)
<1> DEFINE l == Len(t)
           rest == [j \in 1..1 |-> 128]
           c == SubSeq(t, l - n + 1, l) \o rest
<1>1. l \in Nat /\ n <= l
  OBVIOUS
<1>2. rest \in [1..1 -> TrailBounds] /\ rest[1] = 128
  BY DEF TrailBounds
<1>3. /\ c \in Seq(Byte) /\ Len(c) = n + 1
      /\ \A j \in 1..n : c[j] = t[l - n + j]
      /\ \A j \in 1..1 : c[n + j] = rest[j]
  <2> HIDE DEF rest
  <2>1. n \in 1..3 /\ n <= Len(t) /\ 1 \in 1..3
    OBVIOUS
  <2> QED
    BY <1>2, <2>1, LastAndMore DEF LastAnd
<1>4. c[n + 1] = 128
  <2>1. 1 \in 1..1
    OBVIOUS
  <2> QED
    BY <1>2, <1>3, <2>1
<1>5. ByteClass(128) \in Follow[2]
  <2>1. 128 \in Byte
    BY DEF Byte
  <2> QED
    BY <2>1, NextByte
<1>6. c \in Seq(Byte)
  BY <1>3
<1> HIDE DEF c, rest
<1>7. CASE n = 2
  <2>1. c[1] = t[l - 1] /\ c[2] = t[l] /\ c[3] = 128 /\ Len(c) = 3
    <3>1. 1 \in 1..n /\ 2 \in 1..n /\ l - n + 1 = l - 1 /\ l - n + 2 = l
      BY <1>1, <1>7
    <3> QED
      BY <1>3, <1>4, <1>7, <3>1
  <2>2. StateAt(t, l - 1) = Decode(Accept, t[l - 1])
    <3>1. l - 1 \in 1..Len(t) /\ (l - 1) - 1 = l - n
      BY <1>1, <1>7
    <3> QED
      BY <3>1, StatesRun
  <2>3. /\ Decode(Accept, c[1]) \in 3..5
        /\ ByteClass(c[2]) \in Follow[Decode(Accept, c[1])]
        /\ ByteClass(c[3]) \in Follow[2]
    BY <1>5, <1>7, <2>1, <2>2
  <2>4. IsCharacter(c)
    BY <1>6, <2>1, <2>3, CharacterOfThree
  <2> QED
    BY <1>2, <1>7, <2>4, CompletedBy DEF c
<1>8. CASE n = 3
  <2>1. c[1] = t[l - 2] /\ c[2] = t[l - 1] /\ c[3] = t[l] /\ c[4] = 128 /\ Len(c) = 4
    <3>1. 1 \in 1..n /\ 2 \in 1..n /\ 3 \in 1..n
          /\ l - n + 1 = l - 2 /\ l - n + 2 = l - 1 /\ l - n + 3 = l
      BY <1>1, <1>8
    <3> QED
      BY <1>3, <1>4, <1>8, <3>1
  <2>2. StateAt(t, l - 2) = Decode(Accept, t[l - 2])
    <3>1. l - 2 \in 1..Len(t) /\ (l - 2) - 1 = l - n
      BY <1>1, <1>8
    <3> QED
      BY <3>1, StatesRun
  <2>3. /\ Decode(Accept, c[1]) \in 6..8
        /\ ByteClass(c[2]) \in Follow[Decode(Accept, c[1])]
        /\ ByteClass(c[3]) \in Follow[3]
        /\ ByteClass(c[4]) \in Follow[2]
    BY <1>5, <1>8, <2>1, <2>2
  <2>4. IsCharacter(c)
    BY <1>6, <2>1, <2>3, CharacterOfFour
  <2> QED
    BY <1>2, <1>8, <2>4, CompletedBy DEF c
<1> QED
  BY <1>7, <1>8

\* A character of four bytes, of which two have come.
LEMMA HalfCompletable ==
    ASSUME NEW t \in Seq(Byte), 2 <= Len(t),
           StateAt(t, Len(t) - 2) = Accept, StateAt(t, Len(t) - 1) \in 6..8,
           ByteClass(t[Len(t)]) \in Follow[StateAt(t, Len(t) - 1)]
    PROVE  Completable(t)
<1> DEFINE l == Len(t)
           rest == [j \in 1..2 |-> 128]
           c == SubSeq(t, l - 2 + 1, l) \o rest
<1>1. l \in Nat /\ 2 <= l
  OBVIOUS
<1>2. rest \in [1..2 -> TrailBounds] /\ rest[1] = 128 /\ rest[2] = 128
  BY DEF TrailBounds
<1>3. /\ c \in Seq(Byte) /\ Len(c) = 2 + 2
      /\ \A j \in 1..2 : c[j] = t[l - 2 + j]
      /\ \A j \in 1..2 : c[2 + j] = rest[j]
  <2> HIDE DEF rest
  <2>1. 2 \in 1..3 /\ 2 <= Len(t)
    OBVIOUS
  <2> QED
    BY <1>2, <2>1, LastAndMore DEF LastAnd
<1>4. ByteClass(128) \in Follow[2] /\ ByteClass(128) \in Follow[3]
  <2>1. 128 \in Byte
    BY DEF Byte
  <2> QED
    BY <2>1, NextByte
<1>5. c \in Seq(Byte)
  BY <1>3
<1> HIDE DEF c, rest
<1>6. c[1] = t[l - 1] /\ c[2] = t[l] /\ Len(c) = 4
  <2>1. 1 \in 1..2 /\ 2 \in 1..2 /\ l - 2 + 1 = l - 1 /\ l - 2 + 2 = l
    BY <1>1
  <2> QED
    BY <1>3, <2>1
<1>7. c[3] = 128 /\ c[4] = 128
  <2>1. 1 \in 1..2 /\ 2 \in 1..2
    OBVIOUS
  <2>2. c[2 + 1] = rest[1] /\ c[2 + 2] = rest[2]
    BY <1>3, <2>1
  <2> QED
    BY <1>2, <2>2
<1>8. StateAt(t, l - 1) = Decode(Accept, t[l - 1])
  <2>1. l - 1 \in 1..Len(t) /\ (l - 1) - 1 = l - 2
    BY <1>1
  <2> QED
    BY <2>1, StatesRun
<1>9. /\ Decode(Accept, c[1]) \in 6..8
      /\ ByteClass(c[2]) \in Follow[Decode(Accept, c[1])]
      /\ ByteClass(c[3]) \in Follow[3]
      /\ ByteClass(c[4]) \in Follow[2]
  BY <1>4, <1>6, <1>7, <1>8
<1>10. IsCharacter(c)
  BY <1>5, <1>6, <1>9, CharacterOfFour
<1>11. 2 \in 1..3 /\ 2 + 2 <= 4
  OBVIOUS
<1> QED
  BY <1>2, <1>10, <1>11, CompletedBy DEF c

\* What is a character is characters.
LEMMA CharacterIsWellFormed ==
    ASSUME NEW c \in Seq(Byte), IsCharacter(c), Len(c) \in 1..4
    PROVE  WellFormed(c)
<1>1. PICK from : /\ \A i \in 1..(Len(c) + 1) :
                       from[i] <=>
                         \/ i = Len(c) + 1
                         \/ \E m \in 1..4 :
                              /\ i + m <= Len(c) + 1
                              /\ IsCharacter(SubSeq(c, i, i + m - 1))
                              /\ from[i + m]
                  /\ WellFormed(c) <=> from[1]
  BY FromDefined
<1>2. /\ Len(c) + 1 \in 1..(Len(c) + 1) /\ 1 \in 1..(Len(c) + 1)
      /\ 1 + Len(c) = Len(c) + 1 /\ 1 + Len(c) - 1 = Len(c)
      /\ 1 + Len(c) <= Len(c) + 1
  OBVIOUS
<1>3. from[Len(c) + 1]
  BY <1>1, <1>2
<1>4. SubSeq(c, 1, Len(c)) = c
  BY SubSeqFull
<1> QED
  BY <1>1, <1>2, <1>3, <1>4

\* The validator gives a text up exactly when at most three bytes more cannot
\* end its last character: it refuses neither too early nor too late.
THEOREM CompletableIsExact ==
    ASSUME NEW t \in Seq(Byte)
    PROVE  Completable(t) <=> DecodeAll(Accept, t) # Reject
<1> DEFINE l == Len(t)
           S(k) == StateAt(t, k)
<1>1. /\ l \in Nat /\ S(0) = Accept /\ S(l) = DecodeAll(Accept, t)
      /\ \A k \in 0..l : S(k) \in DecoderState
      /\ \A k \in 1..l : S(k) = Decode(S(k - 1), t[k]) /\ t[k] \in Byte
  BY StatesRun
<1> HIDE DEF l, S
<1>2. ASSUME Completable(t) PROVE DecodeAll(Accept, t) # Reject
  <2>1. CASE WellFormed(t)
    BY <2>1, ValidatorIsExact DEF Validate, Accept, Reject
  <2>2. CASE ~WellFormed(t)
    <3>0. PICK n \in 1..3, m \in 1..3 :
            /\ n <= Len(t) /\ n + m <= 4
            /\ WellFormed(SubSeq(t, 1, Len(t) - n))
            /\ \E rest \in [1..m -> TrailBounds] :
                  IsCharacter(SubSeq(t, Len(t) - n + 1, Len(t)) \o rest)
      BY <1>2, <2>2 DEF Completable
    <3>1. PICK rest \in [1..m -> TrailBounds] :
            /\ n <= Len(t) /\ n + m <= 4
            /\ WellFormed(SubSeq(t, 1, Len(t) - n))
            /\ IsCharacter(SubSeq(t, Len(t) - n + 1, Len(t)) \o rest)
      BY <3>0
    <3> DEFINE a == SubSeq(t, 1, Len(t) - n)
               b == SubSeq(t, Len(t) - n + 1, Len(t))
               c == b \o rest
    <3>2. /\ c \in Seq(Byte) /\ Len(c) = n + m /\ rest \in Seq(Byte) /\ b \in Seq(Byte)
      <4>1. LastAnd(t, n, m, rest)
        BY <3>1, LastAndMore
      <4> QED
        BY <4>1 DEF LastAnd
    <3>3. Len(t) - n \in 0..Len(t)
      BY <1>1, <3>1 DEF l
    <3>4. a \in Seq(Byte)
      BY <3>3, StatesRun
    <3>5. t = a \o b
      <4>1. /\ 1 \in 1..Len(t) + 1 /\ Len(t) - n \in 1 - 1..Len(t)
            /\ Len(t) \in Len(t) - n..Len(t)
        BY <1>1, <3>1 DEF l
      <4>2. SubSeq(t, 1, Len(t) - n) \o SubSeq(t, (Len(t) - n) + 1, Len(t))
              = SubSeq(t, 1, Len(t))
        BY <4>1, ConcatAdjacentSubSeq
      <4> QED
        BY <4>2, SubSeqFull
    <3> HIDE DEF a, b
    <3>6. c \in Seq(Byte)
      BY <3>2
    <3>7. b \in Seq(Byte)
      BY <3>2
    <3>8. rest \in Seq(Byte)
      BY <3>2
    <3>9. DecodeAll(Accept, a) = Accept
      BY <3>1, <3>4, ValidatorIsExact DEF Validate, a
    <3>10. DecodeAll(Accept, c) = Accept
      <4>1. Len(c) \in 1..4
        BY <3>1, <3>2
      <4>2. WellFormed(c)
        BY <3>1, <3>6, <4>1, CharacterIsWellFormed DEF b
      <4> HIDE DEF c
      <4> QED
        BY <3>6, <4>2, ValidatorIsExact DEF Validate
    <3>11. DecodeAll(DecodeAll(Accept, b), rest) = Accept
      BY <3>7, <3>8, <3>10, PiecesAddUp
    <3>12. DecodeAll(Accept, b) # Reject
      <4>1. Reject \in DecoderState
        BY DEF DecoderState, Reject
      <4> QED
        BY <3>8, <3>11, <4>1, DecodeAllType DEF Accept, Reject
    <3>13. DecodeAll(Accept, t) = DecodeAll(Accept, b)
      BY <3>4, <3>5, <3>7, <3>9, PiecesAddUp
    <3> QED
      BY <3>12, <3>13
  <2> QED
    BY <2>1, <2>2
<1>3. ASSUME DecodeAll(Accept, t) # Reject PROVE Completable(t)
  <2>1. CASE S(l) = Accept
    <3>1. WellFormed(t)
      BY <1>1, <2>1, ValidatorIsExact DEF Validate
    <3> QED
      BY <3>1 DEF Completable
  <2>2. CASE S(l) # Accept
    <3>1. l >= 1 /\ l \in 1..l /\ l - 1 \in 0..l
      <4>1. l # 0
        BY <1>1, <2>2
      <4> QED
        BY <1>1, <4>1
    <3>2. /\ S(l) = Decode(S(l - 1), t[l]) /\ t[l] \in Byte
          /\ S(l) \in DecoderState /\ S(l - 1) \in DecoderState
      <4>1. l \in 0..l
        BY <3>1
      <4> QED
        BY <1>1, <3>1, <4>1
    <3>3. S(l) \in 2..8
      BY <1>1, <1>3, <2>2, <3>2 DEF DecoderState, Accept, Reject
    <3>4. CASE S(l - 1) = Accept
      BY <3>1, <3>3, <3>4, StartedCompletable DEF l, S
    <3>5. CASE S(l - 1) # Accept
      <4>1. \/ S(l) = 2 /\ S(l - 1) \in 3..5 /\ ByteClass(t[l]) \in Follow[S(l - 1)]
            \/ S(l) = 3 /\ S(l - 1) \in 6..8 /\ ByteClass(t[l]) \in Follow[S(l - 1)]
        BY <3>2, <3>3, <3>5, StateBefore
      <4>2. l - 1 >= 1 /\ l - 1 \in 1..l /\ l - 2 \in 0..l /\ (l - 1) - 1 = l - 2
        <5>1. l - 1 # 0
          BY <1>1, <3>5
        <5> QED
          BY <1>1, <3>1, <5>1
      <4>3. /\ S(l - 1) = Decode(S(l - 2), t[l - 1]) /\ t[l - 1] \in Byte
            /\ S(l - 2) \in DecoderState
        BY <1>1, <4>2
      <4>4. \/ S(l - 2) = Accept
            \/ S(l - 1) = 3 /\ S(l - 2) \in 6..8
               /\ ByteClass(t[l - 1]) \in Follow[S(l - 2)]
        <5>1. Decode(S(l - 2), t[l - 1]) \in 3..8
          BY <4>1, <4>3
        <5> QED
          BY <4>3, <5>1, StateBefore
      <4>5. CASE S(l - 2) = Accept
        <5>1. CASE S(l) = 2
          <6>1. 2 \in 2..3 /\ 2 <= Len(t)
            BY <4>2 DEF l
          <6> QED
            BY <4>1, <4>5, <5>1, <6>1, AlmostCompletable DEF l, S
        <5>2. CASE S(l) = 3
          <6>1. 2 <= Len(t)
            BY <4>2 DEF l
          <6> QED
            BY <4>1, <4>5, <5>2, <6>1, HalfCompletable DEF l, S
        <5> QED
          BY <4>1, <5>1, <5>2
      <4>6. CASE S(l - 2) # Accept
        <5>1. /\ S(l - 1) = 3 /\ S(l - 2) \in 6..8
              /\ ByteClass(t[l - 1]) \in Follow[S(l - 2)]
          BY <4>4, <4>6
        <5>2. S(l) = 2 /\ ByteClass(t[l]) \in Follow[3]
          BY <4>1, <5>1
        <5>3. l - 2 \in 1..l /\ (l - 2) - 1 = l - 3 /\ l - 3 \in 0..l
          <6>1. l - 2 # 0
            BY <1>1, <4>6
          <6> QED
            BY <1>1, <4>2, <6>1
        <5>4. S(l - 2) = Decode(S(l - 3), t[l - 2]) /\ t[l - 2] \in Byte
              /\ S(l - 3) \in DecoderState
          BY <1>1, <5>3
        <5>5. S(l - 3) = Accept
          <6>1. Decode(S(l - 3), t[l - 2]) \in 6..8
            BY <5>1, <5>4
          <6> QED
            BY <5>4, <6>1, StateBefore
        <5>6. 3 \in 2..3 /\ 3 <= Len(t)
          BY <5>3 DEF l
        <5> QED
          BY <5>1, <5>2, <5>5, <5>6, AlmostCompletable DEF l, S
      <4> QED
        BY <4>5, <4>6
    <3> QED
      BY <3>4, <3>5
  <2> QED
    BY <2>1, <2>2
<1> QED
  BY <1>2, <1>3
=============================================================================
