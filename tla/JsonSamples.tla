----------------------------- MODULE JsonSamples -----------------------------
(***************************************************************************)
(* JSON texts that are generated together with what they mean, so that     *)
(* what the parsers make of them can be compared with it: the grammar from *)
(* the bottom up, strings from characters, numbers from digits.            *)
(***************************************************************************)
EXTENDS MessagePath

-----------------------------------------------------------------------------
(* Texts.                                                                  *)

Letters == " !.#$%&.()*+,-./0123456789:;<=>?@ABCDEFGHIJKLMNOPQRSTUVWXYZ[\\]^_.abcdefghijklmnopqrstuvwxyz{|}"

CodeOf == [c \in {SubSeq(Letters, i, i) : i \in 1..Len(Letters)} |->
              IF c = "." THEN 46
              ELSE CHOOSE n \in 32..125 : SubSeq(Letters, n - 31, n - 31) = c]

\* The bytes of a text, with ' for a quotation mark.
B(s) == [i \in 1..Len(s) |->
            IF SubSeq(s, i, i) = "'" THEN 34 ELSE CodeOf[SubSeq(s, i, i)]]

Joined(pieces) == FoldLeft(LAMBDA a, b : a \o b, <<>>, pieces)

-----------------------------------------------------------------------------
(* The grammar.                                                            *)

Tokens == {"{", "}", "[", "]", ",", ":", "'a'", " 1"}

\* The text of some tokens, with a space behind each.
TextOf(tokens, space) ==
    Joined([i \in DOMAIN tokens |-> B(tokens[i]) \o space])

Piece(tokens, parts) == [tokens |-> tokens, parts |-> parts]
Name == Piece(<<"'a'">>, <<StringValue(<<97>>)>>)
One == Piece(<<" 1">>, <<NumberValue(Number("Uint", FALSE, 1, 0))>>)

\* Lists, values and members of n tokens, each with the values it stands for.
RECURSIVE ValuesOf(_), ListsOf(_, _)

MembersOf(n) == {Piece(Name.tokens \o <<":">> \o v.tokens, Name.parts \o v.parts) :
                    v \in IF n < 3 THEN {} ELSE ValuesOf(n - 2)}

ListsOf(n, members) ==
    LET item(k) == IF members THEN MembersOf(k) ELSE ValuesOf(k)
    IN item(n) \cup
       UNION {{Piece(l.tokens \o <<",">> \o v.tokens, l.parts \o v.parts) :
                  l \in ListsOf(n - 1 - k, members), v \in item(k)} : k \in 1..(n - 2)}

ValuesOf(n) ==
    LET inside(members) ==
            IF n = 2 THEN {Piece(<<>>, <<>>)}
            ELSE IF n < 2 THEN {} ELSE ListsOf(n - 2, members)
    IN (IF n = 1 THEN {Name, One} ELSE {})
       \cup {Piece(<<"[">> \o l.tokens \o <<"]">>, <<Compound("Array", l.parts)>>) :
                l \in inside(FALSE)}
       \cup {Piece(<<"{">> \o l.tokens \o <<"}">>, <<Compound("Object", l.parts)>>) :
                l \in inside(TRUE)}

MaxTokens == 9
Generated == [n \in 0..MaxTokens |-> ValuesOf(n)]

AllTokens == UNION {[1..n -> Tokens] : n \in 0..4}
Documents == UNION {{g.tokens : g \in Generated[n]} : n \in 5..MaxTokens}

\* A document with one token left out, doubled or replaced.
Damaged == UNION {{RemoveAt(d, i), InsertAt(d, i, d[i]), ReplaceAt(d, i, t)} :
                     d \in UNION {{g.tokens : g \in Generated[n]} : n \in 5..6},
                     i \in 1..5, t \in Tokens}

TokenSamples ==
    [tokens : AllTokens \cup Documents \cup Damaged, space : {<<>>, <<32, 10, 9, 13>>}]

-----------------------------------------------------------------------------
(* Strings: characters with the bytes they stand for, or with the error.   *)

Char(text, bytes) == [text |-> text, bytes |-> bytes, err |-> None]
Bad(text, err) == [text |-> text, bytes |-> <<>>, err |-> err]

LoneLow == Char(B("\\udc00"), <<237, 176, 128>>)
LoneHigh == Bad(B("\\uD83D"), "StringUnicodeSurrogateInvalid")

GoodChars ==
    {Char(B("a"), <<97>>), Char(B("\\n"), <<10>>), Char(B("\\/"), <<47>>),
     Char(B("\\'"), <<34>>), Char(B("\\\\"), <<92>>),
     Char(B("\\u0000"), <<0>>), Char(B("\\u007f"), <<127>>),
     Char(B("\\u00E9"), <<195, 169>>), Char(B("\\u0800"), <<224, 160, 128>>),
     Char(B("\\uD83D\\uDe00"), <<240, 159, 152, 128>>),
     Char(B("\\uDBFF\\uDFFF"), <<244, 143, 191, 191>>),
     Char(B("\\ud800\\udc00"), <<240, 144, 128, 128>>),
     Char(<<195, 169>>, <<195, 169>>)}

BadChars ==
    {LoneHigh, Bad(B("\\uD83D\\u0041"), "StringUnicodeSurrogateInvalid"),
     Bad(B("\\uD83D\\uzzzz"), "StringUnicodeEscapeInvalidHex"),
     Bad(B("\\u00g0"), "StringUnicodeEscapeInvalidHex"),
     Bad(B("\\x"), "StringEscapeInvalid"), Bad(<<10>>, "StringEscapeInvalid"),
     Bad(<<0>>, "StringMissQuotationMark")}

Chars == GoodChars \cup BadChars \cup {LoneLow}

\* A high half in front of a low one is a pair, which is a character already;
\* in front of an escape that is broken it is one with that error.
StringSamples ==
    {s \in UNION {[1..n -> Chars] : n \in 0..3} :
        ~\E i \in 1..(Len(s) - 1) :
            /\ s[i] = LoneHigh
            /\ s[i + 1] = LoneLow \/ s[i + 1].err = "StringUnicodeEscapeInvalidHex"}

StringText(s) == Joined([i \in DOMAIN s |-> s[i].text])

-----------------------------------------------------------------------------
(* Numbers, from their digits.                                             *)

Nat10(digits) == FoldLeft(LAMBDA n, c : 10 * n + (c - 48), 0, digits)
RECURSIVE Pow10(_)
Pow10(n) == IF n = 0 THEN 1 ELSE 10 * Pow10(n - 1)

\* No fraction, or no exponent, is the text ""; one without digits is "." or
\* "e".
NumberSamples ==
    [minus : BOOLEAN,
     int : {B(s) : s \in {"", "0", "7", "9", "15", "16", "17", "31", "32", "99",
                          "127", "128", "129", "255", "256", "300", "2989",
                          "2999", "3000", "30000"}},
     frac : {B(s) : s \in {"", ".", ".0", ".5", ".25", ".001", ".12345"}},
     exp : {B(s) : s \in {"", "e", "e+", "e0", "E+1", "e-2", "e12", "e13",
                          "e14", "e99", "e-777"}}]

NumberText(n) == (IF n.minus THEN <<45>> ELSE <<>>) \o n.int \o n.frac \o n.exp

FracDigits(n) == Tail(n.frac)
ExpMinus(n) == Contains(n.exp, 45)
ExpDigits(n) == SelectSeq(n.exp, IsDigit)

\* The digits as one number, and the power of ten that makes it the value.
ExactMag(n) == Nat10(n.int \o SelectSeq(n.frac, IsDigit))
ExactPow(n) == (IF ExpMinus(n) THEN - Nat10(ExpDigits(n)) ELSE Nat10(ExpDigits(n)))
               - (IF n.frac = <<>> THEN 0 ELSE Len(FracDigits(n)))
=============================================================================
