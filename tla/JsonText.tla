------------------------------ MODULE JsonText ------------------------------
(***************************************************************************)
(* The scalars of a JSON text as rapidjson reads them (reader.h): strings  *)
(* and numbers.  A text is a sequence of bytes, places in it are counted   *)
(* from one, and behind its end there is the terminating zero.             *)
(*                                                                         *)
(* The widths of the integers are parameters, so that all of their limits  *)
(* can be met with few digits; doubles are exact (what Strtod rounds is    *)
(* left out).                                                              *)
(***************************************************************************)
EXTENDS Integers, Sequences

CONSTANTS IntHalf,       \* 2^31
          LongHalf,      \* 2^63
          Mantissa,      \* 2^53
          DoubleMax,     \* DBL_MAX
          MaxExp,        \* 308, its decimal exponent
          MaxDigits      \* 17, the digits a double can tell apart

ASSUME WidthAssumption ==
    /\ {IntHalf, LongHalf, Mantissa, DoubleMax, MaxExp, MaxDigits} \subseteq Nat
    /\ 9 < IntHalf /\ 9 < MaxExp
    /\ IntHalf % 10 \notin {0, 9} /\ LongHalf % 10 \notin {0, 9}
    /\ 2 * IntHalf < Mantissa /\ Mantissa < LongHalf
    /\ 2 * LongHalf < DoubleMax

None == "None"

Peek(t, p) == IF p <= Len(t) THEN t[p] ELSE 0

\* What a scalar gives the handler, and where the stream stands then.
Taken(p, out) == [err |-> None, at |-> 0, p |-> p, out |-> out]
Refused(code, p) == [err |-> code, at |-> p - 1, p |-> p, out |-> <<>>]

-----------------------------------------------------------------------------
(* Strings.                                                                *)

\* The table "escape"; zero where it has none.
Escape(c) ==
    CASE c \in {34, 47, 92} -> c            \* " / \
      [] c = 98 -> 8 [] c = 102 -> 12 [] c = 110 -> 10      \* b f n
      [] c = 114 -> 13 [] c = 116 -> 9 [] OTHER -> 0        \* r t

HexDigit(c) ==
    CASE c \in 48..57 -> c - 48 [] c \in 65..70 -> c - 55
      [] c \in 97..102 -> c - 87 [] OTHER -> -1

\* ParseHex4: -1 if one of the four is no hexadecimal digit.
ParseHex4(t, p) ==
    LET d(k) == HexDigit(Peek(t, p + k))
    IN IF \E k \in 0..3 : d(k) = -1 THEN -1
       ELSE 4096 * d(0) + 256 * d(1) + 16 * d(2) + d(3)

\* UTF8::Encode.
Encode8(c) ==
    CASE c < 128   -> <<c>>
      [] c \in 128..2047 -> <<192 + c \div 64, 128 + (c % 64)>>
      [] c \in 2048..65535 ->
             <<224 + c \div 4096, 128 + ((c \div 64) % 64), 128 + (c % 64)>>
      [] OTHER -> <<240 + c \div 262144, 128 + ((c \div 4096) % 64),
                    128 + ((c \div 64) % 64), 128 + (c % 64)>>

High == 55296..56319
Low == 56320..57343

\* Mistake: the second half of a pair is taken as it is.
PairedUnshifted(high, low) == (high - 55296) * 1024 + low + 65536

\* The code point of a surrogate pair.
Paired(high, low) == (high - 55296) * 1024 + (low - 56320) + 65536

\* \uXXXX at p, with the second half of a surrogate pair.  A second half on
\* its own passes for a character.
UnicodeEscape(t, p) ==
    LET c == ParseHex4(t, p + 2)
        second == ParseHex4(t, p + 8)
    IN CASE c = -1 -> Refused("StringUnicodeEscapeInvalidHex", p)
         [] c # -1 /\ c \notin High -> Taken(p + 6, Encode8(c))
         [] c \in High /\ (Peek(t, p + 6) # 92 \/ Peek(t, p + 7) # 117) ->
                Refused("StringUnicodeSurrogateInvalid", p)
         [] OTHER ->
                IF second = -1 THEN Refused("StringUnicodeEscapeInvalidHex", p)
                ELSE IF second \notin Low
                     THEN Refused("StringUnicodeSurrogateInvalid", p)
                ELSE Taken(p + 12, Encode8(Paired(c, second)))

\* One turn of ParseStringToStream's loop, but for the closing quote.
Character(t, p) ==
    LET c == Peek(t, p)
        e == Peek(t, p + 1)
    IN CASE c = 92 /\ Escape(e) # 0 -> Taken(p + 2, <<Escape(e)>>)
         [] c = 92 /\ e = 117       -> UnicodeEscape(t, p)
         [] c = 92 /\ Escape(e) = 0 /\ e # 117 ->
                Refused("StringEscapeInvalid", p)
         [] c = 0        -> Refused("StringMissQuotationMark", p)
         [] c \in 1..31  -> Refused("StringEscapeInvalid", p)
         [] OTHER        -> Taken(p + 1, <<c>>)

RECURSIVE StringFrom(_, _, _)
StringFrom(t, p, out) ==
    IF Peek(t, p) = 34 THEN Taken(p + 1, out)
    ELSE LET c == Character(t, p)
         IN IF c.err # None THEN c ELSE StringFrom(t, c.p, out \o c.out)

\* ParseString: the quote is at p.
ParseString(t, p) == StringFrom(t, p + 1, <<>>)

-----------------------------------------------------------------------------
(* Numbers.                                                                *)

IsDigit(c) == c \in 48..57

\* Mistake: the last digit of the limit is not looked at.
FitsLoosely(i, c, max) == i <= max \div 10

\* Whether 10 * i + digit stays within max, as the loops tell.
Fits(i, c, max) == i < max \div 10 \/ (i = max \div 10 /\ c - 48 <= max % 10)

\* A loop over the digits of an integer: [i, p, n digits more, whether it
\* stopped at a digit that does not fit].
RECURSIVE Digits(_, _, _, _, _)
Digits(t, p, i, n, max) ==
    LET c == Peek(t, p)
    IN IF ~IsDigit(c) THEN [i |-> i, p |-> p, n |-> n, over |-> FALSE]
       ELSE IF ~Fits(i, c, max) THEN [i |-> i, p |-> p, n |-> n, over |-> TRUE]
       ELSE Digits(t, p + 1, 10 * i + (c - 48), n + 1, max)

\* "Force double for big integer": -1 if it grows too big.
RECURSIVE BigDigits(_, _, _)
BigDigits(t, p, d) ==
    IF ~IsDigit(Peek(t, p)) THEN [d |-> d, p |-> p]
    ELSE IF d >= DoubleMax \div 10 THEN [d |-> -1, p |-> p]
    ELSE BigDigits(t, p + 1, 10 * d + (Peek(t, p) - 48))

\* The digits of a fraction.  While the number is an integer ("wide") they
\* go on up to the mantissa, then up to MaxDigits; the rest is passed over.
RECURSIVE Fraction(_, _, _, _, _, _)
Fraction(t, p, d, frac, n, wide) ==
    LET c == Peek(t, p)
        more == 10 * d + (c - 48)
        digit == IF more # 0 THEN 1 ELSE 0
    IN CASE ~IsDigit(c) -> [d |-> d, frac |-> frac, p |-> p]
         [] IsDigit(c) /\ wide /\ d > Mantissa - 1 ->
                Fraction(t, p, d, frac, n, FALSE)
         [] IsDigit(c) /\ wide /\ d <= Mantissa - 1 ->
                Fraction(t, p + 1, more, frac - 1, n + digit, TRUE)
         [] IsDigit(c) /\ ~wide /\ n < MaxDigits ->
                Fraction(t, p + 1, more, frac - 1, n + digit, FALSE)
         [] OTHER -> Fraction(t, p + 1, d, frac, n, FALSE)

RECURSIVE PassDigits(_, _)
PassDigits(t, p) == IF IsDigit(Peek(t, p)) THEN PassDigits(t, p + 1) ELSE p

\* The digits of an exponent; -1 if a positive one is too big.  Of a negative
\* one no more is taken than an int holds.
RECURSIVE Exponent(_, _, _, _, _)
Exponent(t, p, exp, minus, frac) ==
    LET more == 10 * exp + (Peek(t, p) - 48)
    IN CASE ~IsDigit(Peek(t, p)) -> [exp |-> exp, p |-> p]
         [] IsDigit(Peek(t, p)) /\ minus /\ more >= IntHalf \div 10 ->
                [exp |-> more, p |-> PassDigits(t, p + 1)]
         [] IsDigit(Peek(t, p)) /\ ~minus /\ more > MaxExp - frac ->
                [exp |-> -1, p |-> p + 1]
         [] OTHER -> Exponent(t, p + 1, more, minus, frac)

\* A number: its kind, and mag * 10^pow with a sign.
Number(kind, minus, mag, pow) ==
    [kind |-> kind, minus |-> minus, mag |-> mag, pow |-> pow]

Integer(kind, d, p, n) == [kind |-> kind, d |-> d, p |-> p, n |-> n]

\* The integer part at p, narrow as far as it goes: kind "Narrow" (32 bits),
\* "Wide" (64) or "Double".
DoubleInteger(t, wide) ==
    LET big == BigDigits(t, wide.p, wide.i)
    IN IF wide.over THEN Integer("Double", big.d, big.p, wide.n)
                    ELSE Integer("Wide", wide.i, wide.p, wide.n)

WideInteger(t, narrow, max) ==
    IF narrow.over
    THEN DoubleInteger(t, Digits(t, narrow.p, narrow.i, narrow.n, max))
    ELSE Integer("Narrow", narrow.i, narrow.p, narrow.n)

IntegerPart(t, p, minus) ==
    LET limit(half) == IF minus THEN half ELSE 2 * half - 1
    IN WideInteger(t,
         IF Peek(t, p) = 48 THEN [i |-> 0, p |-> p + 1, n |-> 0, over |-> FALSE]
         ELSE Digits(t, p + 1, Peek(t, p) - 48, 0, limit(IntHalf)),
         limit(LongHalf))

\* Which event an integer is reported with.
IntegerKind(kind, minus) ==
    CASE kind = "Double" -> "Double"
      [] kind = "Narrow" -> IF minus THEN "Int" ELSE "Uint"
      [] kind = "Wide"   -> IF minus THEN "Int64" ELSE "Uint64"

\* ParseNumber behind the exponent, behind the fraction and behind the
\* integer part of the number at p.
AfterExponent(p, minus, frac, expMinus, exp) ==
    IF exp.exp = -1 THEN Refused("NumberTooBig", p)
    ELSE Taken(exp.p,
               Number("Double", minus, frac.d,
                      (IF expMinus THEN - exp.exp ELSE exp.exp) + frac.frac))

AfterFraction(t, p, minus, kind, frac) ==
    LET sign == Peek(t, frac.p + 1)
        expAt == IF sign \in {43, 45} THEN frac.p + 2 ELSE frac.p + 1
        first == Peek(t, expAt)
    IN IF Peek(t, frac.p) \notin {69, 101}
       THEN Taken(frac.p, Number(IntegerKind(kind, minus), minus, frac.d, frac.frac))
       ELSE IF ~IsDigit(first) THEN Refused("NumberMissExponent", expAt)
       ELSE AfterExponent(p, minus, frac, sign = 45,
                Exponent(t, expAt + 1, first - 48, sign = 45, frac.frac))

AfterInteger(t, p, minus, int) ==
    IF int.d = -1 THEN Refused("NumberTooBig", p)
    ELSE IF Peek(t, int.p) # 46
    THEN AfterFraction(t, p, minus, int.kind, [d |-> int.d, frac |-> 0, p |-> int.p])
    ELSE IF ~IsDigit(Peek(t, int.p + 1)) THEN Refused("NumberMissFraction", int.p + 1)
    ELSE AfterFraction(t, p, minus, "Double",
             Fraction(t, int.p + 1, int.d, 0, int.n, int.kind # "Double"))

\* ParseNumber at p.
ParseNumber(t, p) ==
    LET minus == Peek(t, p) = 45
        start == IF minus THEN p + 1 ELSE p
    IN IF IsDigit(Peek(t, start))
       THEN AfterInteger(t, p, minus, IntegerPart(t, start, minus))
       ELSE Refused("ValueInvalid", start)
=============================================================================
