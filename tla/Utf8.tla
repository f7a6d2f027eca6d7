------------------------------- MODULE Utf8 -------------------------------
(***************************************************************************)
(* The streaming UTF-8 validator of websocketpp (utf8_validator.hpp): the  *)
(* class of each byte and the state table of its decoder, and a definition *)
(* of UTF-8 by code points that knows neither.                             *)
(***************************************************************************)
EXTENDS Integers, Sequences, SequencesExt

Accept == 0
Reject == 1

\* utf8d[0..255]: the class of a byte.
ByteClass(b) ==
    CASE b < 128                          -> 0
      [] b \in 128..143                   -> 1
      [] b \in 144..159                   -> 9
      [] b \in 160..191                   -> 7
      [] b \in {192, 193} \cup 245..255   -> 8
      [] b \in 194..223                   -> 2
      [] b = 224                          -> 10
      [] b = 237                          -> 4
      [] b \in 225..239 \ {237}           -> 3
      [] b = 240                          -> 11
      [] b \in 241..243                   -> 6
      [] b = 244                          -> 5

\* utf8d[256..]: where a class leads from the accepting state, the classes
\* that may follow in each of the others, and the state after those.
Lead == <<0, 1, 2, 3, 5, 8, 7, 1, 1, 1, 4, 6>>
Follow == <<{}, {1, 7, 9}, {1, 7, 9}, {7}, {1, 9}, {7, 9}, {1, 7, 9}, {1}>>
After == <<1, 0, 2, 2, 2, 3, 3, 3>>

\* decode: one byte.
Decode(s, b) ==
    IF s = Accept THEN Lead[ByteClass(b) + 1]
    ELSE IF ByteClass(b) \in Follow[s] THEN After[s] ELSE Reject

\* validator::decode: bytes from state s on; Reject is never left.
DecodeAll(s, bytes) == FoldLeft(Decode, s, bytes)

\* validate: a whole string.
Validate(bytes) == DecodeAll(Accept, bytes) = Accept

-----------------------------------------------------------------------------
(* UTF-8 by code points: a character is the shortest encoding of a number  *)
(* up to 16r10FFFF that is no surrogate.                                   *)

Trails(c) == \A i \in 2..Len(c) : c[i] \in 128..191

IsCharacter(c) ==
    LET low(i) == c[i] - 128 IN
    \/ Len(c) = 1 /\ c[1] < 128
    \/ /\ Len(c) = 2 /\ c[1] \in 192..223 /\ Trails(c)
       /\ (c[1] - 192) * 64 + low(2) >= 128
    \/ /\ Len(c) = 3 /\ c[1] \in 224..239 /\ Trails(c)
       /\ LET point == (c[1] - 224) * 4096 + low(2) * 64 + low(3)
          IN point >= 2048 /\ ~(55296 <= point /\ point <= 57343)
    \/ /\ Len(c) = 4 /\ c[1] \in 240..247 /\ Trails(c)
       /\ LET point == (c[1] - 240) * 262144 + low(2) * 4096
                       + low(3) * 64 + low(4)
          IN 65536 <= point /\ point <= 1114111

\* The bytes from position i on are characters.
WellFormed(bytes) ==
    LET from[i \in 1..Len(bytes) + 1] ==
            \/ i = Len(bytes) + 1
            \/ \E n \in 1..4 :
                 /\ i + n <= Len(bytes) + 1
                 /\ IsCharacter(SubSeq(bytes, i, i + n - 1))
                 /\ from[i + n]
    IN from[1]

\* The trailing bytes at which what may follow a byte changes.
TrailBounds == {128, 143, 144, 159, 160, 191}

\* The bytes can be completed to characters by at most three more.
Completable(bytes) ==
    \/ WellFormed(bytes)
    \/ \E n \in 1..3, m \in 1..3 :
         /\ n <= Len(bytes) /\ n + m <= 4
         /\ WellFormed(SubSeq(bytes, 1, Len(bytes) - n))
         /\ \E rest \in [1..m -> TrailBounds] :
              IsCharacter(SubSeq(bytes, Len(bytes) - n + 1, Len(bytes)) \o rest)
=============================================================================
