------------------------------- MODULE Base64 -------------------------------
(***************************************************************************)
(* rtsptool::base64_encode and base64_decode (base64.hpp, the same file in *)
(* both programs), byte by byte: what the loops leave at each place of the *)
(* string they build.  Characters are their codes.                         *)
(***************************************************************************)
EXTENDS Integers, Sequences

Byte == 0..255
Pad == 61                                 \* '='
NotFound == 255                           \* npos as an unsigned char

\* base64_chars[v].
Symbol(v) ==
    CASE v \in 0..25  -> 65 + v           \* A-Z
      [] v \in 26..51 -> 71 + v           \* a-z
      [] v \in 52..61 -> v - 4            \* 0-9
      [] v = 62       -> 43               \* +
      [] v = 63       -> 47               \* /

\* base64_chars.find(c).
Value(c) ==
    CASE c \in 65..90  -> c - 65
      [] c \in 97..122 -> c - 71
      [] c \in 48..57  -> c + 4
      [] c = 43        -> 62
      [] c = 47        -> 63
      [] OTHER         -> NotFound

IsBase64(c) == c = 43 \/ c \in 47..57 \/ c \in 65..90 \/ c \in 97..122

\* char_array_3 to char_array_4.
Quartet(b) == <<b[1] \div 4,
                (b[1] % 4) * 16 + b[2] \div 16,
                (b[2] % 16) * 4 + b[3] \div 64,
                b[3] % 64>>

\* char_array_4 to char_array_3, each cut to an unsigned char.
Triple(q) == <<(q[1] * 4 + ((q[2] \div 16) % 4)) % 256,
               ((q[2] % 16) * 16 + ((q[3] \div 4) % 16)) % 256,
               ((q[3] % 4) * 64 + q[4]) % 256>>

\* The g-th three bytes, with zeros behind the last.
BytesAt(s, g) ==
    [k \in 1..3 |-> IF 3 * g + k <= Len(s) THEN s[3 * g + k] ELSE 0]

\* Characters written for n bytes, and before the padding.
EncodedLength(n) == 4 * ((n + 2) \div 3)
Significant(n) == (4 * n + 2) \div 3

Encode(s) ==
    [m \in 1..EncodedLength(Len(s)) |->
        IF m <= Significant(Len(s))
        THEN Symbol(Quartet(BytesAt(s, (m - 1) \div 4))[((m - 1) % 4) + 1])
        ELSE Pad]

\* How many characters the decoding loop takes: it stops at the padding and
\* at the first character outside the alphabet.
Taken64(t) ==
    CHOOSE n \in 0..Len(t) :
        /\ \A k \in 1..n : t[k] # Pad /\ IsBase64(t[k])
        /\ n < Len(t) => t[n + 1] = Pad \/ ~IsBase64(t[n + 1])

\* The g-th four values of n characters; behind the last the code looks for
\* the character zero, which it does not find.
ValuesAt(t, n, g) ==
    [k \in 1..4 |-> IF 4 * g + k <= n THEN Value(t[4 * g + k]) ELSE NotFound]

\* Mistake: an incomplete group gives as many bytes as it has characters.
DecodedLengthUncut(n) == 3 * (n \div 4) + (n % 4)

\* Bytes of n characters: three of every group, and one less than it has
\* characters of an incomplete one.
DecodedLength(n) ==
    3 * (n \div 4) + (IF n % 4 = 0 THEN 0 ELSE (n % 4) - 1)

Decode64(t) ==
    [m \in 1..DecodedLength(Taken64(t)) |->
        Triple(ValuesAt(t, Taken64(t), (m - 1) \div 3))[((m - 1) % 3) + 1]]

-----------------------------------------------------------------------------
(* Base64 without groups: the bits of the characters, read off in eights.  *)

Pow2(n) == CASE n = 0 -> 1 [] n = 1 -> 2 [] n = 2 -> 4 [] n = 3 -> 8
             [] n = 4 -> 16 [] n = 5 -> 32 [] n = 6 -> 64 [] n = 7 -> 128

\* Bit i, from zero on, of a string of units of w bits each.
BitAt(units, w, i) == (units[i \div w + 1] \div Pow2(w - 1 - (i % w))) % 2

\* The characters in front of the first that is not a digit of base 64.
RefDigits(t) ==
    LET isDigit(c) == \E v \in 0..63 : Symbol(v) = c
        ends == {n \in 0..Len(t) : \A k \in 1..n : isDigit(t[k])}
        last == CHOOSE n \in ends : \A m \in ends : m <= n
    IN [k \in 1..last |-> CHOOSE v \in 0..63 : Symbol(v) = t[k]]

RefDecode64(t) ==
    LET d == RefDigits(t)
        bit(m, k) == BitAt(d, 6, 8 * (m - 1) + k) * Pow2(7 - k)
    IN [m \in 1..((6 * Len(d)) \div 8) |->
          bit(m, 0) + bit(m, 1) + bit(m, 2) + bit(m, 3) + bit(m, 4)
          + bit(m, 5) + bit(m, 6) + bit(m, 7)]

RefEncode64(s) ==
    LET bits == 8 * Len(s)
        bit(i) == IF i < bits THEN BitAt(s, 8, i) ELSE 0
        digits == (bits + 5) \div 6
        digit(m) == Symbol(32 * bit(6 * m) + 16 * bit(6 * m + 1)
                           + 8 * bit(6 * m + 2) + 4 * bit(6 * m + 3)
                           + 2 * bit(6 * m + 4) + bit(6 * m + 5))
    IN [m \in 1..(digits + ((4 - (digits % 4)) % 4)) |->
          IF m <= digits THEN digit(m - 1) ELSE Pad]
=============================================================================
