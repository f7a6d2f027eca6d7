--------------------------- MODULE DealMsgProofs ----------------------------
(***************************************************************************)
(* Proofs about what deal_msg does with a message, for every buffer and    *)
(* the memory behind it (NaluScan), and for every collection of parameter  *)
(* sets and every number of messages (PushSession): what find_next_nal     *)
(* finds, the sets the loop over it ends with, its pointers inside the     *)
(* buffer; type correctness, the stream's parameter sets, the frames that  *)
(* are pushed, and what ends the process.                                  *)
(***************************************************************************)
EXTENDS PushSession, NaluScan, CodecProofs

-----------------------------------------------------------------------------
(* find_next_nal.                                                          *)

\* The recursive definition does define a function: such a function exists
\* from every offset on, the last ones first.
LEMMA NextNalDefined ==
    ASSUME End \in Nat
    PROVE  NextNalFrom = [p \in 0..(End + 2) |->
                            IF p > End THEN End
                            ELSE IF IsStartCode(p) THEN p + 4
                            ELSE NextNalFrom[p + Skip(p)]]
<1> DEFINE D == 0..(End + 2)
           Body(f, p) == IF p > End THEN End
                         ELSE IF IsStartCode(p) THEN p + 4
                         ELSE f[p + Skip(p)]
           Defined(f, k) == \A p \in D : p >= End + 3 - k => f[p] = Body(f, p)
           Upto == {k \in Nat : \E f \in [D -> Int] : Defined(f, k)}
<1> HIDE DEF Body
<1>1. ASSUME NEW f \in [D -> Int], NEW p \in D
      PROVE  Body(f, p) \in Int
  <2>1. p <= End => p + 1 \in D /\ p + 2 \in D
    OBVIOUS
  <2>2. Skip(p) \in {1, 2}
    BY DEF Skip
  <2> QED
    BY <2>1, <2>2 DEF Body
<1>2. 0 \in Upto
  <2>1. [p \in D |-> 0] \in [D -> Int]
    OBVIOUS
  <2>2. \A p \in D : ~(p >= End + 3 - 0)
    OBVIOUS
  <2> QED
    BY <2>1, <2>2
<1>3. ASSUME NEW k \in Nat, k \in Upto
      PROVE  k + 1 \in Upto
  <2>1. PICK f \in [D -> Int] : Defined(f, k)
    BY <1>3
  <2> DEFINE at == End + 2 - k
             g == [f EXCEPT ![at] = Body(f, at)]
  <2>2. CASE at \notin D
    <3>1. \A p \in D : p >= End + 3 - (k + 1) => p >= End + 3 - k
      BY <2>2
    <3>2. Defined(f, k + 1)
      BY <2>1, <3>1
    <3> HIDE DEF Defined
    <3> QED
      BY <3>2
  <2>3. CASE at \in D
    <3>1. g \in [D -> Int]
      BY <1>1, <2>3
    <3>2. ASSUME NEW p \in D, p >= at
          PROVE  Body(g, p) = Body(f, p)
      <4>1. p <= End => /\ p + Skip(p) \in D
                        /\ p + Skip(p) # at
        BY <3>2 DEF Skip
      <4> QED
        BY <4>1 DEF Body
    <3>3. ASSUME NEW p \in D, p >= End + 3 - (k + 1)
          PROVE  g[p] = Body(g, p)
      <4>1. p >= at /\ (p = at \/ p >= End + 3 - k)
        BY <3>3
      <4>2. g[p] = Body(f, p)
        BY <2>1, <4>1
      <4> QED
        BY <3>2, <4>1, <4>2
    <3>4. Defined(g, k + 1)
      BY <3>3
    <3> HIDE DEF Defined, g
    <3> QED
      BY <3>1, <3>4
  <2> QED
    BY <2>2, <2>3
<1>4. End + 3 \in Upto
  <2> HIDE DEF Upto
  <2> QED
    BY <1>2, <1>3, SetInduction
<1>5. PICK f \in [D -> Int] : \A p \in D : f[p] = Body(f, p)
  <2>1. \A p \in D : p >= End + 3 - (End + 3)
    OBVIOUS
  <2> QED
    BY <1>4, <2>1
<1>6. f = [p \in D |-> Body(f, p)]
  BY <1>5
<1> QED
  BY <1>6, Zenon DEF NextNalFrom, Body

\* q is the first start code from s on; there is none.
FirstCode(s, q) ==
    q \in s..End /\ IsStartCode(q) /\ \A r \in s..(q - 1) : ~IsStartCode(r)

NoCode(s) == \A q \in s..End : ~IsStartCode(q)

\* find_next_nal finds the first start code, although it sometimes moves on by
\* two bytes, and returns the end if there is none.
THEOREM FindsNextCode ==
    ASSUME End \in Nat, NEW start \in 0..End
    PROVE  \/ \E q \in start..End : FirstCode(start, q)
                                   /\ FindNextNal(start) = q + 4
           \/ NoCode(start) /\ FindNextNal(start) = End
<1> DEFINE D == 0..(End + 2)
           Finds(p) == \/ \E q \in p..End : FirstCode(p, q)
                                          /\ NextNalFrom[p] = q + 4
                       \/ NoCode(p) /\ NextNalFrom[p] = End
           Found == {k \in Nat : \A p \in D : p >= End + 3 - k => Finds(p)}
<1>1. \A p \in D : NextNalFrom[p] = IF p > End THEN End
                                    ELSE IF IsStartCode(p) THEN p + 4
                                    ELSE NextNalFrom[p + Skip(p)]
  <2> HIDE DEF D
  <2> QED
    BY NextNalDefined DEF D
<1>2. 0 \in Found
  <2>1. \A p \in D : ~(p >= End + 3 - 0)
    OBVIOUS
  <2> QED
    BY <2>1
<1>3. ASSUME NEW k \in Nat, k \in Found
      PROVE  k + 1 \in Found
  <2> SUFFICES ASSUME NEW p \in D, p >= End + 3 - (k + 1)
               PROVE  Finds(p)
    OBVIOUS
  <2>1. CASE p > End
    BY <1>1, <2>1 DEF NoCode
  <2>2. CASE p <= End /\ IsStartCode(p)
    <3>1. FirstCode(p, p) /\ p \in p..End
      BY <2>2 DEF FirstCode
    <3>2. NextNalFrom[p] = p + 4
      BY <1>1, <2>2
    <3> QED
      BY <3>1, <3>2
  <2>3. CASE p <= End /\ ~IsStartCode(p)
    <3> DEFINE n == p + Skip(p)
    <3>1. /\ n \in D /\ n >= End + 3 - k
          /\ n = p + 1 \/ (n = p + 2 /\ ~IsStartCode(p + 1))
      BY <2>3 DEF Skip, IsStartCode
    <3>2. NextNalFrom[p] = NextNalFrom[n]
      BY <1>1, <2>3
    <3>3. Finds(n)
      BY <1>3, <3>1
    <3>4. \A r \in Int : p <= r /\ r < n => ~IsStartCode(r)
      BY <2>3, <3>1
    <3>5. ASSUME NoCode(n)
          PROVE  NoCode(p)
      BY <3>1, <3>4, <3>5 DEF NoCode
    <3>6. ASSUME NEW q \in n..End, FirstCode(n, q)
          PROVE  q \in p..End /\ FirstCode(p, q)
      BY <3>1, <3>4, <3>6 DEF FirstCode
    <3> HIDE DEF n
    <3> QED
      BY <3>2, <3>3, <3>5, <3>6
  <2> QED
    BY <2>1, <2>2, <2>3
<1>4. End + 3 \in Found
  <2> HIDE DEF Found
  <2> QED
    BY <1>2, <1>3, SetInduction
<1>5. Finds(start)
  BY <1>4
<1> QED
  BY <1>5 DEF FindNextNal

\* Start codes do not overlap: the next one begins behind the four bytes.
LEMMA CodesApart ==
    ASSUME NEW q \in Int, NEW r \in Int, IsStartCode(q), IsStartCode(r), q < r
    PROVE  r >= q + 4
<1>1. /\ At(q + 3) = 1 /\ At(r) = 0 /\ At(r + 1) = 0 /\ At(r + 2) = 0
  BY DEF IsStartCode
<1>2. r # q + 3 /\ r + 1 # q + 3 /\ r + 2 # q + 3
  BY <1>1
<1> QED
  BY <1>2

-----------------------------------------------------------------------------
(* The buffer and the memory behind it.                                    *)

ScanTypeOK == data \in Buffers /\ junk \in Junks

LEMMA EndIsNat == ASSUME ScanTypeOK PROVE End \in Nat
BY NaluAssumption, LenProperties DEF ScanTypeOK, End

\* Inside the buffer At reads the buffer.
LEMMA AtIsData ==
    ASSUME ScanTypeOK, NEW p \in 0..(End - 1)
    PROVE  At(p) = data[p + 1]
<1>1. data \in Seq(0..255) /\ junk \in [1..4 -> 0..255]
  BY NaluAssumption DEF ScanTypeOK
<1>2. junk \in Seq(0..255) /\ <<0>> \in Seq(0..255) /\ Len(<<0>>) = 1
  <2>1. \A n \in Nat : [1..n -> 0..255] \subseteq Seq(0..255)
    OBVIOUS
  <2>2. [1..4 -> 0..255] \subseteq Seq(0..255)
    BY <2>1
  <2> QED
    BY <1>1, <2>2
<1>3. p + 1 \in 1..Len(data)
  BY EndIsNat DEF End
<1>4. data \o <<0>> \in Seq(0..255)
      /\ Len(data \o <<0>>) = Len(data) + 1
      /\ (data \o <<0>>)[p + 1] = data[p + 1]
  BY <1>1, <1>2, <1>3, ConcatProperties
<1>5. (data \o <<0>> \o junk)[p + 1] = (data \o <<0>>)[p + 1]
  BY <1>1, <1>2, <1>3, <1>4, ConcatProperties
<1> QED
  BY <1>4, <1>5 DEF At, Mem

\* The start codes that lie within the buffer are those of the definition.
LEMMA CodesAreStartCodes ==
    ASSUME ScanTypeOK, NEW p \in 0..(End - 4)
    PROVE  IsStartCode(p) <=> p \in Codes
<1> DEFINE four == SubSeq(data, p + 1, p + 4)
<1>1. End \in Nat
  BY EndIsNat
<1>2. data \in Seq(0..255)
  BY NaluAssumption DEF ScanTypeOK
<1>3. \A i \in (p + 1)..(p + 4) : data[i] \in 0..255
  <2> SUFFICES ASSUME NEW i \in (p + 1)..(p + 4) PROVE data[i] \in 0..255
    OBVIOUS
  <2>1. i \in 1..Len(data)
    BY <1>1 DEF End
  <2> QED
    BY <1>2, <2>1, ElementOfSeq
<1>4. /\ four \in Seq(0..255)
      /\ Len(four) = 4
      /\ \A i \in 1..4 : four[i] = data[p + i]
  BY <1>1, <1>3, SubSeqProperties
<1>5. four = <<0, 0, 0, 1>>
        <=> four[1] = 0 /\ four[2] = 0 /\ four[3] = 0 /\ four[4] = 1
  <2>1. ASSUME four[1] = 0, four[2] = 0, four[3] = 0, four[4] = 1
        PROVE  four = <<0, 0, 0, 1>>
    <3>1. <<0, 0, 0, 1>> \in Seq(0..255) /\ Len(<<0, 0, 0, 1>>) = 4
      OBVIOUS
    <3>2. \A i \in 1..4 : four[i] = <<0, 0, 0, 1>>[i]
      BY <2>1
    <3> QED
      BY <1>4, <3>1, <3>2, SeqEqual
  <2>2. ASSUME four = <<0, 0, 0, 1>>
        PROVE  four[1] = 0 /\ four[2] = 0 /\ four[3] = 0 /\ four[4] = 1
    <3> HIDE DEF four
    <3> QED
      BY <2>2
  <2> HIDE DEF four
  <2> QED
    BY <2>1, <2>2
<1>6. /\ At(p) = data[p + 1] /\ At(p + 1) = data[p + 2]
      /\ At(p + 2) = data[p + 3] /\ At(p + 3) = data[p + 4]
  BY <1>1, AtIsData
<1> QED
  BY <1>4, <1>5, <1>6 DEF IsStartCode, Codes

-----------------------------------------------------------------------------
(* The invariant of the loop.                                              *)

\* Where the unit that starts at b ends, "short" without its last four bytes
\* if no start code follows it.
UnitEnd(b, short) == IF short /\ NalEnd(b) = End THEN End - 4 ELSE NalEnd(b)

\* set is the last unit of type t whose start code lies before the offset at;
\* empty without one.
HoldsLast(set, t, short, at) ==
    \/ /\ \A a \in NalsOf(t) : a - 4 >= at
       /\ set = <<>>
    \/ \E b \in NalsOf(t) :
          /\ b - 4 < at
          /\ \A a \in NalsOf(t) : a - 4 < at => a <= b
          /\ b <= UnitEnd(b, short)
          /\ set = Bytes(b, UnitEnd(b, short))

ScanInv ==
    /\ ScanTypeOK
    /\ scanPC \in {"loop", "done", "thrown"}
    /\ JunkHarmless =>
         /\ pbgn \in 0..End /\ pend \in 0..End
         /\ scanPC = "done" => pbgn = End
         /\ scanPC = "thrown" =>
              \E b \in NalsOf(7) : NalEnd(b) = End /\ End - b < 4
         /\ HoldsLast(sps, 7, TRUE, pbgn)
         /\ ProperEnd => HoldsLast(pps, 8, FALSE, pbgn)

-----------------------------------------------------------------------------
(* What one turn of the loop finds, with harmless memory behind the buffer. *)

LEMMA HarmlessCodes ==
    ASSUME ScanTypeOK, JunkHarmless
    PROVE  \A q \in 0..End : IsStartCode(q) <=> q \in Codes
<1> SUFFICES ASSUME NEW q \in 0..End PROVE IsStartCode(q) <=> q \in Codes
  OBVIOUS
<1>1. End \in Nat
  BY EndIsNat
<1>2. CASE q + 4 > End
  BY <1>1, <1>2 DEF JunkHarmless, Codes
<1>3. CASE q + 4 <= End
  BY <1>1, <1>3, CodesAreStartCodes
<1> QED
  BY <1>1, <1>2, <1>3

\* The end of a unit, by the first start code behind its first byte.
LEMMA NalEndIs ==
    ASSUME ScanTypeOK, JunkHarmless, NEW b \in 0..End
    PROVE  /\ NoCode(b) => NalEnd(b) = End
           /\ \A r \in b..End : FirstCode(b, r) => /\ NalEnd(b) = r
                                                  /\ r <= End - 4
<1>1. End \in Nat
  BY EndIsNat
<1>2. Codes \subseteq 0..(End - 4)
  BY DEF Codes
<1>3. ASSUME NoCode(b)
      PROVE  NalEnd(b) = End
  <2>1. \A p \in Codes : ~(p >= b)
    BY <1>1, <1>2, <1>3, HarmlessCodes DEF NoCode
  <2> QED
    BY <2>1 DEF NalEnd
<1>4. ASSUME NEW r \in b..End, FirstCode(b, r)
      PROVE  NalEnd(b) = r /\ r <= End - 4
  <2>1. r \in Codes /\ r >= b
    BY <1>1, <1>4, HarmlessCodes DEF FirstCode
  <2>2. \A p \in Codes : p >= b => r <= p
    BY <1>1, <1>2, <1>4, HarmlessCodes DEF FirstCode
  <2> DEFINE First(p) == p >= b /\ \A q \in Codes : q >= b => p <= q
  <2>3. NalEnd(b) = CHOOSE p \in Codes : First(p)
    BY <2>1 DEF NalEnd
  <2>4. First(r)
    BY <2>1, <2>2
  <2>5. \A p \in Codes : First(p) => p = r
    BY <1>1, <1>2, <2>1, <2>2
  <2>6. NalEnd(b) = r
    <3> HIDE DEF First
    <3> QED
      BY <2>1, <2>3, <2>4, <2>5
  <2> QED
    BY <1>1, <1>2, <2>1, <2>6
<1> QED
  BY <1>3, <1>4

\* Without a further unit every unit has been passed.
LEMMA NoUnitLeft ==
    ASSUME ScanTypeOK, JunkHarmless, pbgn \in 0..End, FindNextNal(pbgn) = End
    PROVE  \A a \in Nals : a - 4 < pbgn
<1>1. End \in Nat
  BY EndIsNat
<1> SUFFICES ASSUME NEW p \in Codes, p + 4 # End, p >= pbgn
             PROVE  FALSE
  BY <1>1 DEF Nals, Codes
<1>2. p \in pbgn..End /\ IsStartCode(p)
  BY <1>1, HarmlessCodes DEF Codes
<1>3. PICK q \in pbgn..End : FirstCode(pbgn, q) /\ q + 4 = End
  BY <1>1, <1>2, FindsNextCode DEF NoCode
<1>4. q <= p /\ IsStartCode(q) /\ q # p
  BY <1>1, <1>2, <1>3 DEF FirstCode
<1>5. p >= q + 4
  BY <1>2, <1>4, CodesApart
<1> QED
  BY <1>1, <1>2, <1>3, <1>5, HarmlessCodes DEF Codes

\* The unit a turn takes: its end is where the definition says, the pointer is
\* set back to the start code that ends it, behind where it was, and exactly
\* this unit is passed.
LEMMA TurnTakes ==
    ASSUME ScanTypeOK, JunkHarmless, pbgn \in 0..(End - 1),
           NEW b, b = FindNextNal(pbgn), b # End,
           NEW e, e = FindNextNal(b)
    PROVE  /\ b \in Nals /\ b \in 0..(End - 1) /\ pbgn <= b - 4
           /\ e \in 0..End /\ pbgn < e - 4
           /\ \/ NalEnd(b) = End /\ e = End
              \/ NalEnd(b) \in Codes /\ NalEnd(b) = e - 4 /\ b <= e - 4
           /\ \A a \in Nals : a - 4 < e - 4 <=> a - 4 < pbgn \/ a = b
<1>1. End \in Nat
  BY EndIsNat
<1>2. PICK q \in pbgn..End : FirstCode(pbgn, q) /\ b = q + 4
  BY <1>1, FindsNextCode
<1>3. q \in Codes /\ IsStartCode(q)
  BY <1>1, <1>2, HarmlessCodes DEF FirstCode
<1>4. b \in Nals /\ b \in 0..(End - 1) /\ pbgn <= b - 4
  BY <1>1, <1>2, <1>3 DEF Nals, Codes
<1>5. ASSUME NEW a \in Nals
      PROVE  /\ a - 4 \in 0..(End - 5) /\ IsStartCode(a - 4)
             /\ a - 4 < pbgn \/ a = b \/ a - 4 >= b
  <2>1. PICK p \in Codes : a = p + 4 /\ p \in 0..(End - 5)
    BY <1>1 DEF Nals, Codes
  <2>2. IsStartCode(p)
    BY <1>1, <2>1, HarmlessCodes
  <2>3. p < pbgn \/ p >= q
    BY <1>1, <1>2, <2>1, <2>2 DEF FirstCode
  <2>4. p > q => p >= q + 4
    BY <1>2, <1>3, <2>1, <2>2, CodesApart
  <2> QED
    BY <1>1, <1>2, <2>1, <2>2, <2>3, <2>4
<1>6. CASE NoCode(b) /\ e = End
  <2>1. NalEnd(b) = End
    BY <1>1, <1>4, <1>6, NalEndIs
  <2>2. ASSUME NEW a \in Nals
        PROVE  a - 4 < End - 4 /\ (a - 4 < pbgn \/ a = b)
    BY <1>1, <1>4, <1>5, <1>6 DEF NoCode
  <2> QED
    BY <1>1, <1>4, <1>6, <2>1, <2>2
<1>7. CASE \E r \in b..End : FirstCode(b, r) /\ e = r + 4
  <2>1. PICK r \in b..End : FirstCode(b, r) /\ e = r + 4
    BY <1>7
  <2>2. NalEnd(b) = r /\ r <= End - 4
    BY <1>1, <1>4, <2>1, NalEndIs
  <2>3. r \in Codes
    BY <1>1, <1>4, <2>1, HarmlessCodes DEF FirstCode
  <2>4. ASSUME NEW a \in Nals
        PROVE  a - 4 < r <=> a - 4 < pbgn \/ a = b
    BY <1>1, <1>4, <1>5, <2>1 DEF FirstCode
  <2> QED
    BY <1>1, <1>4, <2>1, <2>2, <2>3, <2>4
<1> QED
  BY <1>1, <1>4, <1>6, <1>7, FindsNextCode

-----------------------------------------------------------------------------
(* The steps keep the invariant.                                           *)

\* No start code lies before the first offset.
LEMMA ScanInitInv == ScanInit => ScanInv
<1> SUFFICES ASSUME ScanInit PROVE ScanInv
  OBVIOUS
<1>1. ScanTypeOK
  BY DEF ScanInit, ScanTypeOK
<1>2. End \in Nat
  BY <1>1, EndIsNat
<1>3. \A t : \A a \in NalsOf(t) : a - 4 >= 0
  BY <1>2 DEF NalsOf, Nals, Codes
<1>4. HoldsLast(sps, 7, TRUE, pbgn) /\ HoldsLast(pps, 8, FALSE, pbgn)
  BY <1>3 DEF ScanInit, HoldsLast
<1>5. pbgn \in 0..End /\ pend \in 0..End /\ scanPC = "loop"
  BY <1>2 DEF ScanInit
<1> QED
  BY <1>1, <1>4, <1>5 DEF ScanInv

\* Nothing changes in the buffer, so neither does what is said of it.
LEMMA BufferStays ==
    ASSUME UNCHANGED <<data, junk>>
    PROVE  /\ End' = End
           /\ JunkHarmless' <=> JunkHarmless
           /\ ProperEnd' <=> ProperEnd
           /\ ScanTypeOK' <=> ScanTypeOK
           /\ \A t : NalsOf(t)' = NalsOf(t)
           /\ \A b : NalEnd(b)' = NalEnd(b)
           /\ \A b, e : Bytes(b, e)' = Bytes(b, e)
<1>1. End' = End /\ Codes' = Codes
  BY DEF End, Codes
<1>2. \A p : At(p)' = At(p)
  BY DEF At, Mem
<1>3. JunkHarmless' <=> JunkHarmless
  BY <1>1, <1>2 DEF JunkHarmless, IsStartCode
<1>4. ProperEnd' <=> ProperEnd
  BY <1>1 DEF ProperEnd
<1>5. \A t : NalsOf(t)' = NalsOf(t)
  BY <1>1 DEF NalsOf, Nals
<1>6. \A b : NalEnd(b)' = NalEnd(b)
  BY <1>1 DEF NalEnd
<1>7. \A b, e : Bytes(b, e)' = Bytes(b, e)
  BY DEF Bytes
<1> QED
  BY <1>1, <1>3, <1>4, <1>5, <1>6, <1>7 DEF ScanTypeOK

\* A unit taken is the last one passed ...
LEMMA LastTaken ==
    ASSUME NEW t, NEW short, NEW b \in NalsOf(t), NEW at, NEW next,
           b - 4 < next, b <= UnitEnd(b, short),
           \A a \in NalsOf(t) : a - 4 < next => a <= b
    PROVE  HoldsLast(Bytes(b, UnitEnd(b, short)), t, short, next)
BY DEF HoldsLast

\* ... and a pointer that passes no unit of the type changes nothing.
LEMMA LastKept ==
    ASSUME NEW set, NEW t, NEW short, NEW at, NEW next,
           at \in Int, next \in Int, NalsOf(t) \subseteq Int,
           HoldsLast(set, t, short, at),
           \A a \in NalsOf(t) : a - 4 < next <=> a - 4 < at
    PROVE  HoldsLast(set, t, short, next)
BY DEF HoldsLast

LEMMA LastOfSameBuffer ==
    ASSUME UNCHANGED <<data, junk>>
    PROVE  /\ HoldsLast(sps, 7, TRUE, pbgn)' <=> HoldsLast(sps', 7, TRUE, pbgn')
           /\ HoldsLast(pps, 8, FALSE, pbgn)' <=> HoldsLast(pps', 8, FALSE, pbgn')
BY BufferStays DEF HoldsLast, UnitEnd

LEMMA NalsType ==
    ASSUME ScanTypeOK
    PROVE  /\ \A a \in Nals : a \in Int /\ 4 <= a /\ a < End
           /\ \A t : /\ NalsOf(t) = {a \in Nals : NalType(a) = t}
                    /\ NalsOf(t) \subseteq Int
<1>1. End \in Nat
  BY EndIsNat
<1>2. \A a \in Nals : a \in Int /\ 4 <= a /\ a < End
  BY <1>1 DEF Nals, Codes
<1>3. \A a \in Nals : NalType(a) = data[a + 1] % 32
  <2> SUFFICES ASSUME NEW a \in Nals PROVE At(a) = data[a + 1]
    BY DEF NalType
  <2>1. a \in 0..(End - 1)
    BY <1>1, <1>2
  <2> QED
    BY <2>1, AtIsData
<1> QED
  BY <1>2, <1>3 DEF NalsOf

\* The turn that takes a unit keeps it.
LEMMA TakeKeepsInv == ScanInv /\ TakeNal => ScanInv'
<1> SUFFICES ASSUME ScanInv, TakeNal PROVE ScanInv'
  OBVIOUS
<1> DEFINE b == FindNextNal(pbgn)
           e == FindNextNal(b)
<1>1. /\ UNCHANGED <<data, junk>> /\ scanPC = "loop" /\ scanPC' = "loop"
      /\ pbgn < End /\ b # End /\ ~AssignThrows(b, e)
      /\ sps' = IF NalType(b) = 7 THEN Bytes(b, e - 4) ELSE sps
      /\ pps' = IF NalType(b) = 8 THEN Bytes(b, PpsEnd(e)) ELSE pps
      /\ pend' = e /\ pbgn' = e - 4
  BY DEF TakeNal, SpsEnd, NextFrom
<1>2. ScanTypeOK /\ End \in Nat
  BY EndIsNat DEF ScanInv
<1>3. ScanTypeOK'
  BY <1>1, <1>2 DEF ScanTypeOK
<1> SUFFICES ASSUME JunkHarmless
             PROVE  /\ pbgn' \in 0..End /\ pend' \in 0..End
                    /\ HoldsLast(sps', 7, TRUE, pbgn')
                    /\ ProperEnd => HoldsLast(pps', 8, FALSE, pbgn')
  BY <1>1, <1>3, BufferStays, LastOfSameBuffer DEF ScanInv
<1>4. /\ pbgn \in 0..(End - 1) /\ HoldsLast(sps, 7, TRUE, pbgn)
      /\ ProperEnd => HoldsLast(pps, 8, FALSE, pbgn)
  <2>1. /\ pbgn \in 0..End /\ HoldsLast(sps, 7, TRUE, pbgn)
        /\ ProperEnd => HoldsLast(pps, 8, FALSE, pbgn)
    BY DEF ScanInv
  <2>2. pbgn \in 0..(End - 1)
    BY <1>1, <1>2, <2>1
  <2> QED
    BY <2>1, <2>2
<1>5. /\ b \in Nals /\ b \in 0..(End - 1) /\ pbgn <= b - 4
      /\ e \in 0..End /\ pbgn < e - 4
      /\ \/ NalEnd(b) = End /\ e = End
         \/ NalEnd(b) \in Codes /\ NalEnd(b) = e - 4 /\ b <= e - 4
      /\ \A a \in Nals : a - 4 < e - 4 <=> a - 4 < pbgn \/ a = b
  <2> HIDE DEF b, e
  <2> QED
    BY <1>1, <1>2, <1>4, TurnTakes DEF b, e
<1> HIDE DEF b, e
<1>6. /\ \A a \in Nals : a \in Int
      /\ \A t : NalsOf(t) = {a \in Nals : NalType(a) = t}
  BY <1>2, NalsType
<1>7. /\ b - 4 < e - 4
      /\ \A t : \A a \in NalsOf(t) : a - 4 < e - 4 => a <= b
  <2>1. b - 4 < e - 4
    BY <1>2, <1>4, <1>5
  <2>2. ASSUME NEW t, NEW a \in NalsOf(t), a - 4 < e - 4
        PROVE  a <= b
    <3>1. a \in Nals /\ a \in Int
      BY <1>6
    <3>2. a - 4 < pbgn \/ a = b
      BY <1>5, <2>2, <3>1
    <3> QED
      BY <1>2, <1>4, <1>5, <3>1, <3>2
  <2> QED
    BY <2>1, <2>2
<1>8. \A t : t # NalType(b) =>
         \A a \in NalsOf(t) : a - 4 < e - 4 <=> a - 4 < pbgn
  BY <1>5, <1>6
<1>9. HoldsLast(sps', 7, TRUE, pbgn')
  <2>1. CASE NalType(b) = 7
    <3>1. b \in NalsOf(7)
      BY <1>5, <1>6, <2>1
    <3>2. UnitEnd(b, TRUE) = e - 4
      BY <1>2, <1>5 DEF UnitEnd, Codes
    <3>3. b <= e - 4
      BY <1>1, <1>2, <1>5, <2>1 DEF AssignThrows, SpsEnd
    <3> QED
      BY <1>1, <1>7, <2>1, <3>1, <3>2, <3>3, LastTaken
  <2>2. CASE NalType(b) # 7
    <3>1. NalsOf(7) \subseteq Int
      BY <1>6
    <3>2. pbgn' \in Int /\ pbgn \in Int /\ sps' = sps
      BY <1>1, <1>2, <1>4, <1>5, <2>2
    <3> QED
      BY <1>1, <1>4, <1>8, <2>2, <3>1, <3>2, LastKept
  <2> QED
    BY <2>1, <2>2
<1>10. ASSUME ProperEnd
       PROVE  HoldsLast(pps', 8, FALSE, pbgn')
  <2>1. CASE NalType(b) = 8
    <3>1. b \in NalsOf(8)
      BY <1>5, <1>6, <2>1
    <3>2. UnitEnd(b, FALSE) = PpsEnd(e) /\ b <= PpsEnd(e)
      <4>1. CASE NalEnd(b) = End /\ e = End
        BY <1>2, <1>5, <4>1 DEF UnitEnd, PpsEnd
      <4>2. CASE NalEnd(b) \in Codes /\ NalEnd(b) = e - 4 /\ b <= e - 4
        <5>1. e # End
          BY <1>10, <4>2 DEF ProperEnd
        <5> QED
          BY <1>2, <1>5, <4>2, <5>1 DEF UnitEnd, PpsEnd
      <4> QED
        BY <1>5, <4>1, <4>2
    <3> QED
      BY <1>1, <1>7, <2>1, <3>1, <3>2, LastTaken
  <2>2. CASE NalType(b) # 8
    <3>1. NalsOf(8) \subseteq Int
      BY <1>6
    <3>2. pbgn' \in Int /\ pbgn \in Int /\ pps' = pps
      BY <1>1, <1>2, <1>4, <1>5, <2>2
    <3> QED
      BY <1>1, <1>4, <1>8, <1>10, <2>2, <3>1, <3>2, LastKept
  <2> QED
    BY <2>1, <2>2
<1>11. pbgn' \in 0..End /\ pend' \in 0..End
  BY <1>1, <1>2, <1>4, <1>5
<1> QED
  BY <1>9, <1>10, <1>11

\* The turn that finds no further unit keeps it: the pointer goes to the end.
LEMMA NoMoreKeepsInv == ScanInv /\ NoMoreNal => ScanInv'
<1> SUFFICES ASSUME ScanInv, NoMoreNal PROVE ScanInv'
  OBVIOUS
<1>1. /\ UNCHANGED <<data, junk, pend, sps, pps>>
      /\ scanPC = "loop" /\ scanPC' = "loop"
      /\ FindNextNal(pbgn) = End /\ pbgn' = End
  BY DEF NoMoreNal
<1>2. ScanTypeOK /\ End \in Nat
  BY EndIsNat DEF ScanInv
<1>3. ScanTypeOK'
  BY <1>1, <1>2 DEF ScanTypeOK
<1> SUFFICES ASSUME JunkHarmless
             PROVE  /\ pbgn' \in 0..End /\ pend' \in 0..End
                    /\ HoldsLast(sps', 7, TRUE, pbgn')
                    /\ ProperEnd => HoldsLast(pps', 8, FALSE, pbgn')
  BY <1>1, <1>3, BufferStays, LastOfSameBuffer DEF ScanInv
<1>4. /\ pbgn \in 0..End /\ pend \in 0..End
      /\ HoldsLast(sps, 7, TRUE, pbgn)
      /\ ProperEnd => HoldsLast(pps, 8, FALSE, pbgn)
  BY <1>1 DEF ScanInv
<1>5. /\ \A a \in Nals : a < End
      /\ \A t : NalsOf(t) \subseteq Nals /\ NalsOf(t) \subseteq Int
  BY <1>2, NalsType
<1>6. \A a \in Nals : a - 4 < pbgn
  BY <1>1, <1>2, <1>4, NoUnitLeft
<1>7. \A t : \A a \in NalsOf(t) : a - 4 < End <=> a - 4 < pbgn
  <2> SUFFICES ASSUME NEW a \in Nals, a \in Int
               PROVE  a - 4 < End /\ a - 4 < pbgn
    BY <1>5
  <2> QED
    BY <1>2, <1>5, <1>6
<1>8. pbgn \in Int /\ End \in Int
  BY <1>2, <1>4
<1>9. HoldsLast(sps, 7, TRUE, End)
  BY <1>4, <1>5, <1>7, <1>8, LastKept
<1>10. ProperEnd => HoldsLast(pps, 8, FALSE, End)
  BY <1>4, <1>5, <1>7, <1>8, LastKept
<1>11. End \in 0..End
  BY <1>2
<1> QED
  BY <1>1, <1>4, <1>9, <1>10, <1>11

\* vector::assign throws for an SPS of less than four bytes that nothing
\* follows, and for nothing else.
LEMMA ThrowsKeepsInv == ScanInv /\ TakeThrows => ScanInv'
<1> SUFFICES ASSUME ScanInv, TakeThrows PROVE ScanInv'
  OBVIOUS
<1> DEFINE b == FindNextNal(pbgn)
           e == FindNextNal(b)
<1>1. /\ UNCHANGED <<data, junk, pbgn, pend, sps, pps>>
      /\ scanPC = "loop" /\ scanPC' = "thrown"
      /\ pbgn < End /\ b # End /\ AssignThrows(b, e)
  BY DEF TakeThrows
<1>2. ScanTypeOK /\ End \in Nat
  BY EndIsNat DEF ScanInv
<1>3. ScanTypeOK'
  BY <1>1, <1>2 DEF ScanTypeOK
<1> SUFFICES ASSUME JunkHarmless
             PROVE  \E u \in NalsOf(7) : NalEnd(u) = End /\ End - u < 4
  BY <1>1, <1>3, BufferStays, LastOfSameBuffer DEF ScanInv
<1>4. pbgn \in 0..(End - 1)
  <2>1. pbgn \in 0..End
    BY DEF ScanInv
  <2> QED
    BY <1>1, <1>2, <2>1
<1>5. /\ b \in Nals /\ b \in 0..(End - 1) /\ e \in 0..End
      /\ \/ NalEnd(b) = End /\ e = End
         \/ NalEnd(b) = e - 4 /\ b <= e - 4
  <2> HIDE DEF b, e
  <2> QED
    BY <1>1, <1>2, <1>4, TurnTakes DEF b, e
<1> HIDE DEF b, e
<1>6. ~(b <= e - 4) /\ NalType(b) = 7
  BY <1>1, <1>2, <1>5 DEF AssignThrows, SpsEnd, PpsEnd
<1>7. b \in NalsOf(7) /\ NalEnd(b) = End /\ End - b < 4
  BY <1>2, <1>5, <1>6, NalsType
<1> QED
  BY <1>7

\* The loop ends at the end of the buffer.
LEMMA EndsKeepsInv == ScanInv /\ LoopEnds => ScanInv'
<1> SUFFICES ASSUME ScanInv, LoopEnds PROVE ScanInv'
  OBVIOUS
<1>1. /\ UNCHANGED <<data, junk, pbgn, pend, sps, pps>>
      /\ pbgn >= End /\ scanPC = "loop" /\ scanPC' = "done"
  BY DEF LoopEnds
<1>2. ScanTypeOK /\ End \in Nat
  BY EndIsNat DEF ScanInv
<1>3. ScanTypeOK'
  BY <1>1, <1>2 DEF ScanTypeOK
<1>4. JunkHarmless => pbgn \in 0..End /\ pbgn = End
  BY <1>1, <1>2 DEF ScanInv
<1> QED
  BY <1>1, <1>3, <1>4, BufferStays, LastOfSameBuffer DEF ScanInv

LEMMA StutterKeepsScanInv == ScanInv /\ UNCHANGED scanVars => ScanInv'
<1> SUFFICES ASSUME ScanInv, UNCHANGED scanVars PROVE ScanInv'
  OBVIOUS
<1>1. UNCHANGED <<data, junk, pbgn, pend, sps, pps, scanPC>>
  BY DEF scanVars
<1> QED
  BY <1>1, BufferStays, LastOfSameBuffer DEF ScanInv

\* ScanInv is an invariant of the loop, whatever is in the buffer and behind it.
THEOREM ScanInvariance == ScanSpec => []ScanInv
<1>1. ScanInv /\ [ScanNext]_scanVars => ScanInv'
  BY TakeKeepsInv, NoMoreKeepsInv, ThrowsKeepsInv, EndsKeepsInv,
     StutterKeepsScanInv DEF ScanNext
<1> QED
  BY <1>1, ScanInitInv, PTL DEF ScanSpec

-----------------------------------------------------------------------------
(* What the function returns.                                              *)

\* The last of a set of offsets, once one is known to be the greatest.
LEMMA LastOfIs ==
    ASSUME NEW S \in SUBSET Int, NEW b \in S, \A a \in S : a <= b
    PROVE  LastOf(S) = b
<1> DEFINE Greatest(x) == \A a \in S : a <= x
<1>1. LastOf(S) = CHOOSE x \in S : Greatest(x)
  BY DEF LastOf
<1>2. \A x \in S : Greatest(x) => x = b
  OBVIOUS
<1>3. Greatest(b)
  OBVIOUS
<1> HIDE DEF Greatest
<1> QED
  BY <1>1, <1>2, <1>3

\* At the end of the buffer the last unit passed is the last of the buffer.
LEMMA HeldIsReference ==
    ASSUME ScanTypeOK, NEW set, NEW t, NEW short,
           HoldsLast(set, t, short, End)
    PROVE  \/ NalsOf(t) = {} /\ set = <<>>
           \/ \E b \in NalsOf(t) :
                 /\ LastOf(NalsOf(t)) = b
                 /\ b <= UnitEnd(b, short)
                 /\ set = Bytes(b, UnitEnd(b, short))
<1>1. End \in Nat /\ NalsOf(t) \in SUBSET Int /\ \A a \in NalsOf(t) : a < End
  BY EndIsNat, NalsType
<1>2. \A a \in NalsOf(t) : a - 4 < End
  BY <1>1
<1>3. CASE \A a \in NalsOf(t) : a - 4 >= End
  <2>1. NalsOf(t) = {}
    BY <1>1, <1>2, <1>3
  <2> QED
    BY <1>2, <2>1 DEF HoldsLast
<1>4. CASE \E b \in NalsOf(t) :
              /\ \A a \in NalsOf(t) : a - 4 < End => a <= b
              /\ b <= UnitEnd(b, short)
              /\ set = Bytes(b, UnitEnd(b, short))
  <2>1. PICK b \in NalsOf(t) :
              /\ \A a \in NalsOf(t) : a - 4 < End => a <= b
              /\ b <= UnitEnd(b, short)
              /\ set = Bytes(b, UnitEnd(b, short))
    BY <1>4
  <2>2. LastOf(NalsOf(t)) = b
    BY <1>1, <1>2, <2>1, LastOfIs
  <2> QED
    BY <2>1, <2>2
<1> QED
  BY <1>3, <1>4 DEF HoldsLast

\* Cutting four bytes off a unit that reaches to the end of the buffer.
LEMMA UnitCut ==
    ASSUME ScanTypeOK, NEW b \in 0..End, b <= End - 4
    PROVE  SubSeq(Bytes(b, End), 1, Len(Bytes(b, End)) - 4) = Bytes(b, End - 4)
<1>1. End \in Nat /\ End = Len(data) /\ data \in Seq(0..255)
  BY EndIsNat, NaluAssumption DEF ScanTypeOK, End
<1>2. \A i \in (b + 1)..End : data[i] \in 0..255
  <2> SUFFICES ASSUME NEW i \in (b + 1)..End PROVE data[i] \in 0..255
    OBVIOUS
  <2>1. i \in 1..Len(data)
    BY <1>1
  <2> QED
    BY <1>1, <2>1, ElementOfSeq
<1> DEFINE whole == SubSeq(data, b + 1, End)
           cut == SubSeq(data, b + 1, End - 4)
           n == End - b - 4
<1>3. /\ whole \in Seq(0..255) /\ Len(whole) = n + 4
      /\ \A i \in 1..(n + 4) : whole[i] = data[b + i]
  BY <1>1, <1>2, SubSeqProperties
<1>4. /\ cut \in Seq(0..255) /\ Len(cut) = n
      /\ \A i \in 1..n : cut[i] = data[b + i]
  <2>1. \A i \in (b + 1)..(End - 4) : data[i] \in 0..255
    <3> SUFFICES ASSUME NEW i \in (b + 1)..(End - 4)
                 PROVE  i \in (b + 1)..End
      BY <1>2
    <3> QED
      BY <1>1
  <2> QED
    BY <1>1, <2>1, SubSeqProperties
<1>5. n \in Nat
  BY <1>1
<1>6. /\ SubSeq(whole, 1, n) \in Seq(0..255) /\ Len(SubSeq(whole, 1, n)) = n
      /\ \A i \in 1..n : SubSeq(whole, 1, n)[i] = data[b + i]
  <2> HIDE DEF whole, n
  <2>1. \A i \in 1..n : whole[i] \in 0..255
    <3> SUFFICES ASSUME NEW i \in 1..n PROVE whole[i] \in 0..255
      OBVIOUS
    <3>1. i \in 1..Len(whole)
      BY <1>3, <1>5
    <3> QED
      BY <1>3, <3>1, ElementOfSeq
  <2> QED
    BY <1>3, <1>5, <2>1, SubSeqProperties
<1> HIDE DEF whole, cut, n
<1>7. SubSeq(whole, 1, n) = cut
  BY <1>4, <1>6, SeqEqual
<1>8. Len(whole) - 4 = n
  BY <1>3, <1>5
<1> QED
  BY <1>7, <1>8 DEF whole, cut, Bytes

\* The scan finds what the definition without pointers says, for every buffer
\* and every memory behind it.
THEOREM ScanIsExact == ScanSpec => []ScanFindsSets
<1>1. ScanInv => ScanFindsSets
  <2> SUFFICES ASSUME ScanInv, JunkHarmless, scanPC = "done", ProperEnd
               PROVE  /\ pps = RefNal(8)
                      /\ sps = IF SpsFollowed THEN RefNal(7)
                               ELSE SubSeq(RefNal(7), 1, Len(RefNal(7)) - 4)
    BY DEF ScanInv, ScanFindsSets
  <2>1. /\ ScanTypeOK /\ End \in Nat
        /\ HoldsLast(sps, 7, TRUE, End)
        /\ HoldsLast(pps, 8, FALSE, End)
    BY EndIsNat DEF ScanInv
  <2>2. pps = RefNal(8)
    BY <2>1, HeldIsReference DEF RefNal, UnitEnd
  <2>3. CASE NalsOf(7) = {} /\ sps = <<>>
    BY <2>2, <2>3 DEF RefNal, SpsFollowed
  <2>4. CASE \E b \in NalsOf(7) :
                /\ LastOf(NalsOf(7)) = b
                /\ b <= UnitEnd(b, TRUE)
                /\ sps = Bytes(b, UnitEnd(b, TRUE))
    <3>1. PICK b \in NalsOf(7) :
                /\ LastOf(NalsOf(7)) = b
                /\ b <= UnitEnd(b, TRUE)
                /\ sps = Bytes(b, UnitEnd(b, TRUE))
      BY <2>4
    <3>2. RefNal(7) = Bytes(b, NalEnd(b))
      BY <3>1 DEF RefNal
    <3>3. SpsFollowed <=> NalEnd(b) # End
      BY <3>1 DEF SpsFollowed
    <3>4. CASE NalEnd(b) # End
      BY <2>2, <3>1, <3>2, <3>3, <3>4 DEF UnitEnd
    <3>5. CASE NalEnd(b) = End
      <4>1. b \in 0..End /\ b <= End - 4 /\ sps = Bytes(b, End - 4)
        BY <2>1, <3>1, <3>5, NalsType DEF UnitEnd
      <4> QED
        BY <2>1, <2>2, <3>2, <3>3, <3>5, <4>1, UnitCut
    <3> QED
      BY <3>4, <3>5
  <2> QED
    BY <2>1, <2>3, <2>4, HeldIsReference
<1> QED
  BY <1>1, ScanInvariance, PTL

\* Where the loop's pointer goes, whichever of its branches a turn takes.
PointerAfterTurn ==
    LET b == FindNextNal(pbgn)
    IN IF b = End THEN End ELSE NextFrom(b, FindNextNal(b))

\* Every turn moves the pointer forward and not over the end, although it sets
\* it back by four bytes: the loop has no more turns than the buffer has bytes.
THEOREM ScanAlwaysAdvances ==
    ScanSpec => [](JunkHarmless /\ scanPC = "loop" /\ pbgn < End
                     => PointerAfterTurn \in (pbgn + 1)..End)
<1>1. ScanInv => (JunkHarmless /\ scanPC = "loop" /\ pbgn < End
                    => PointerAfterTurn \in (pbgn + 1)..End)
  <2> SUFFICES ASSUME ScanInv, JunkHarmless, pbgn < End
               PROVE  PointerAfterTurn \in (pbgn + 1)..End
    OBVIOUS
  <2> DEFINE b == FindNextNal(pbgn)
             e == FindNextNal(b)
  <2>1. ScanTypeOK /\ End \in Nat /\ pbgn \in 0..(End - 1)
    BY EndIsNat DEF ScanInv
  <2>2. PointerAfterTurn = IF b = End THEN End ELSE e - 4
    BY DEF PointerAfterTurn, NextFrom
  <2>3. b # End => pbgn < e - 4 /\ e \in 0..End
    BY <2>1, TurnTakes
  <2> HIDE DEF b, e
  <2> QED
    BY <2>1, <2>2, <2>3
<1> QED
  BY <1>1, ScanInvariance, PTL

-----------------------------------------------------------------------------
(* The session (PushSession).                                              *)

\* The stream is started by a message dealt with, and only after parameter
\* sets have been found; those that were found stay.
StartedBySets ==
    /\ initNal => mediainfo \in ParamSets
    /\ fPusherHandle => initNal /\ startedAt \in 1..Len(dealtMsgs)

\* The inductive invariant of a session.
SessionInv ==
    /\ SessionTypeOK
    /\ StartedBySets
    /\ KeyFramesMatchStream
    /\ EveryFramePushed
    /\ AbortsForLackOnly

-----------------------------------------------------------------------------
(* What a call of dealMsg does to the histories.                           *)

\* The message dealt with is the last one, those before it stay.
LEMMA DealsAppends ==
    ASSUME SessionTypeOK, NEW m \in Messages, Deals(m)
    PROVE  /\ dealtMsgs' \in Seq(Messages)
           /\ Len(dealtMsgs) \in Nat
           /\ Len(dealtMsgs') = Len(dealtMsgs) + 1
           /\ DOMAIN dealtMsgs = 1..Len(dealtMsgs)
           /\ DOMAIN dealtMsgs' = 1..(Len(dealtMsgs) + 1)
           /\ dealtMsgs'[Len(dealtMsgs) + 1] = m
           /\ \A i \in 1..Len(dealtMsgs) : dealtMsgs'[i] = dealtMsgs[i]
           /\ dealtMsgs' # <<>>
<1>1. dealtMsgs \in Seq(Messages) /\ dealtMsgs' = Append(dealtMsgs, m)
  BY DEF SessionTypeOK, Deals
<1>2. /\ Append(dealtMsgs, m) \in Seq(Messages)
      /\ Len(Append(dealtMsgs, m)) = Len(dealtMsgs) + 1
      /\ \A i \in 1..Len(dealtMsgs) : Append(dealtMsgs, m)[i] = dealtMsgs[i]
      /\ Append(dealtMsgs, m)[Len(dealtMsgs) + 1] = m
  BY <1>1, AppendProperties
<1>3. Len(dealtMsgs) \in Nat /\ DOMAIN dealtMsgs = 1..Len(dealtMsgs)
  BY <1>1, LenProperties
<1>4. DOMAIN dealtMsgs' = 1..Len(dealtMsgs')
  BY <1>1, <1>2, LenProperties
<1>5. dealtMsgs' # <<>>
  BY <1>1, <1>2, <1>3, EmptySeq
<1> QED
  BY <1>1, <1>2, <1>3, <1>4, <1>5

\* Frames are pushed for messages dealt with.
LEMMA PushedForDealt ==
    ASSUME SessionInv
    PROVE  /\ Len(pushed) \in Nat /\ DOMAIN pushed = 1..Len(pushed)
           /\ \A i \in DOMAIN pushed : pushed[i].msg \in 1..Len(dealtMsgs)
           /\ pushed \in Seq(Frames)
<1>1. pushed \in Seq(Frames) /\ dealtMsgs \in Seq(Messages)
  BY DEF SessionInv, SessionTypeOK
<1>2. Len(pushed) \in Nat /\ DOMAIN pushed = 1..Len(pushed)
  BY <1>1, LenProperties
<1>3. DOMAIN dealtMsgs = 1..Len(dealtMsgs)
  BY <1>1, LenProperties
<1>4. {pushed[i].msg : i \in DOMAIN pushed} \subseteq DOMAIN dealtMsgs
  BY DEF SessionInv, EveryFramePushed
<1> QED
  BY <1>1, <1>2, <1>3, <1>4

\* FrameOf is empty or one frame, and one frame just for a message that has
\* one.
LEMMA FrameOfMessage ==
    ASSUME NEW m \in Messages, m.json = "object", NEW n \in Nat,
           NEW sets \in ParamSets
    PROVE  \/ ~HasFrame(m) /\ FrameOf(m, n, sets) = <<>>
           \/ /\ HasFrame(m)
              /\ \E f \in Frames : /\ FrameOf(m, n, sets) = <<f>>
                                   /\ f.msg = n
                                   /\ f.key => f.sets = sets
<1>1. CASE m.data = "key"
  <2> DEFINE f == [msg |-> n, key |-> TRUE, sets |-> sets]
  <2>1. f \in Frames /\ FrameOf(m, n, sets) = <<f>>
    BY <1>1 DEF Frames, FrameOf
  <2> QED
    BY <1>1, <2>1 DEF HasFrame
<1>2. CASE m.data = "delta"
  <2> DEFINE f == [msg |-> n, key |-> FALSE, sets |-> Unset]
  <2>1. f \in Frames /\ FrameOf(m, n, sets) = <<f>>
    BY <1>2 DEF Frames, FrameOf, Unset
  <2> QED
    BY <1>2, <2>1 DEF HasFrame
<1>3. CASE m.data \notin {"key", "delta"}
  BY <1>3 DEF FrameOf, HasFrame
<1> QED
  BY <1>1, <1>2, <1>3

\* A call that pushes nothing, and need not, keeps the frames complete.
LEMMA NothingToPush ==
    ASSUME SessionInv, NEW m \in Messages, Deals(m), pushed' = pushed,
           fPusherHandle' = fPusherHandle, startedAt' = startedAt,
           fPusherHandle => ~HasFrame(m)
    PROVE  EveryFramePushed'
<1> DEFINE n == Len(dealtMsgs)
           due == {k \in DOMAIN dealtMsgs :
                     fPusherHandle /\ k >= startedAt /\ HasFrame(dealtMsgs[k])}
<1>1. /\ n \in Nat /\ DOMAIN dealtMsgs = 1..n /\ DOMAIN dealtMsgs' = 1..(n + 1)
      /\ dealtMsgs'[n + 1] = m
      /\ \A k \in 1..n : dealtMsgs'[k] = dealtMsgs[k]
  BY DealsAppends DEF SessionInv
<1>2. {k \in DOMAIN dealtMsgs' :
          fPusherHandle' /\ k >= startedAt' /\ HasFrame(dealtMsgs'[k])} = due
  <2>1. \A k \in 1..(n + 1) : k \in 1..n \/ k = n + 1
    BY <1>1
  <2>2. 1..n \subseteq 1..(n + 1)
    BY <1>1
  <2> HIDE DEF n
  <2> QED
    BY <1>1, <2>1, <2>2
<1>3. EveryFramePushed
  BY DEF SessionInv
<1> QED
  BY <1>2, <1>3 DEF EveryFramePushed

\* A call that has a stream pushes the message's frame, if it has one, behind
\* all the others.
LEMMA FramePushed ==
    ASSUME SessionInv, NEW m \in Messages, Deals(m), m.json = "object",
           NEW sets \in ParamSets, fPusherHandle', startedAt' \in Nat,
           fPusherHandle => startedAt' = startedAt,
           ~fPusherHandle => startedAt' = Len(dealtMsgs) + 1,
           pushed' = pushed \o FrameOf(m, Len(dealtMsgs) + 1, sets)
    PROVE  /\ EveryFramePushed'
           /\ pushed' \in Seq(Frames)
           /\ \A i \in DOMAIN pushed' : \/ i \in DOMAIN pushed /\ pushed'[i] = pushed[i]
                                        \/ pushed'[i].key => pushed'[i].sets = sets
<1> DEFINE n == Len(dealtMsgs)
           k == Len(pushed)
           due == {d \in DOMAIN dealtMsgs :
                     fPusherHandle /\ d >= startedAt /\ HasFrame(dealtMsgs[d])}
           dueAfter == {d \in DOMAIN dealtMsgs' :
                     fPusherHandle' /\ d >= startedAt' /\ HasFrame(dealtMsgs'[d])}
<1>1. /\ n \in Nat /\ DOMAIN dealtMsgs = 1..n /\ DOMAIN dealtMsgs' = 1..(n + 1)
      /\ dealtMsgs'[n + 1] = m
      /\ \A d \in 1..n : dealtMsgs'[d] = dealtMsgs[d]
  BY DealsAppends DEF SessionInv
<1>2. /\ k \in Nat /\ DOMAIN pushed = 1..k /\ pushed \in Seq(Frames)
      /\ \A i \in 1..k : pushed[i].msg \in 1..n
  BY PushedForDealt
<1>3. /\ {pushed[i].msg : i \in 1..k} = due
      /\ \A i, j \in 1..k : i < j => pushed[i].msg < pushed[j].msg
  BY <1>2 DEF SessionInv, EveryFramePushed
<1>4. n + 1 >= startedAt'
  BY <1>1 DEF SessionInv, StartedBySets
<1>5. dueAfter = due \cup (IF HasFrame(m) THEN {n + 1} ELSE {})
  <2>1. \A d \in 1..(n + 1) : d \in 1..n \/ d = n + 1
    BY <1>1
  <2>2. 1..n \subseteq 1..(n + 1) /\ n + 1 \in 1..(n + 1) /\ n + 1 \notin 1..n
    BY <1>1
  <2>3. ~fPusherHandle => \A d \in 1..n : ~(d >= startedAt')
    BY <1>1
  <2> HIDE DEF n
  <2> QED
    BY <1>1, <1>4, <2>1, <2>2, <2>3
<1>6. CASE ~HasFrame(m)
  <2>1. FrameOf(m, n + 1, sets) = <<>>
    BY <1>1, <1>6, FrameOfMessage
  <2>2. pushed' = pushed
    BY <1>2, <2>1, ConcatEmptySeq
  <2>3. dueAfter = due
    BY <1>5, <1>6
  <2> QED
    BY <1>2, <1>3, <2>2, <2>3 DEF EveryFramePushed
<1>7. CASE HasFrame(m)
  <2>1. PICK f \in Frames : /\ FrameOf(m, n + 1, sets) = <<f>>
                            /\ f.msg = n + 1
                            /\ f.key => f.sets = sets
    BY <1>1, <1>7, FrameOfMessage
  <2>2. <<f>> \in Seq(Frames) /\ Len(<<f>>) = 1 /\ <<f>>[1] = f
    OBVIOUS
  <2>3. pushed' = pushed \o <<f>>
    BY <2>1
  <2>4. /\ pushed' \in Seq(Frames) /\ Len(pushed') = k + 1
        /\ \A i \in 1..(k + 1) : pushed'[i] = IF i <= k THEN pushed[i] ELSE <<f>>[i - k]
    <3>1. /\ pushed \o <<f>> \in Seq(Frames)
          /\ Len(pushed \o <<f>>) = Len(pushed) + Len(<<f>>)
          /\ \A i \in 1..Len(pushed) + Len(<<f>>) :
               (pushed \o <<f>>)[i] = IF i <= Len(pushed) THEN pushed[i]
                                      ELSE <<f>>[i - Len(pushed)]
      BY <1>2, <2>2, ConcatProperties
    <3> QED
      BY <2>2, <2>3, <3>1
  <2>5. DOMAIN pushed' = 1..(k + 1)
    BY <2>4, LenProperties
  <2>6. (\A i \in 1..k : i \in 1..(k + 1) /\ pushed'[i] = pushed[i]) /\ pushed'[k + 1] = f
    BY <1>2, <2>2, <2>4
  <2>7. \A i \in 1..(k + 1) : i \in 1..k \/ i = k + 1
    BY <1>2
  <2>8. dueAfter = due \cup {n + 1}
    BY <1>5, <1>7
  <2>9. {pushed'[i].msg : i \in 1..(k + 1)} = dueAfter
    <3>1. k + 1 \in 1..(k + 1)
      BY <1>2
    <3> HIDE DEF n, k, due, dueAfter
    <3> QED
      BY <1>3, <2>1, <2>6, <2>7, <2>8, <3>1
  <2>10. \A i, j \in 1..(k + 1) : i < j => pushed'[i].msg < pushed'[j].msg
    <3> SUFFICES ASSUME NEW i \in 1..(k + 1), NEW j \in 1..(k + 1), i < j
                 PROVE  pushed'[i].msg < pushed'[j].msg
      OBVIOUS
    <3>1. i \in 1..k
      BY <1>2
    <3>2. CASE j \in 1..k
      <4>1. pushed[i].msg < pushed[j].msg
        BY <1>3, <3>1, <3>2
      <4> QED
        BY <2>6, <3>1, <3>2, <4>1
    <3>3. CASE j = k + 1
      <4>1. pushed'[i].msg \in 1..n /\ pushed'[j].msg = n + 1
        BY <1>2, <2>1, <2>6, <3>1, <3>3
      <4>2. \A a \in 1..n : a < n + 1
        BY <1>1
      <4> QED
        BY <4>1, <4>2, Zenon
    <3> QED
      BY <2>7, <3>2, <3>3
  <2>11. EveryFramePushed'
    BY <2>5, <2>9, <2>10 DEF EveryFramePushed
  <2> QED
    BY <1>2, <2>1, <2>4, <2>5, <2>6, <2>7, <2>11
<1> QED
  BY <1>6, <1>7

-----------------------------------------------------------------------------
(* The three outcomes of dealMsg.                                          *)

\* The message is given up, or dealing with it ends the process in front of
\* the part that looks for parameter sets.
LEMMA NothingKeepsInv ==
    ASSUME SessionInv, NEW m \in Messages, DealNothing(m) \/ DealAborts(m)
    PROVE  SessionInv'
<1>1. /\ Deals(m)
      /\ UNCHANGED <<initNal, mediainfo, fPusherHandle, startedWith, startedAt,
                     pushed>>
      /\ aborted' \in BOOLEAN
  BY DEF DealNothing, DealAborts, SessionInv, SessionTypeOK
<1>2. /\ dealtMsgs' \in Seq(Messages) /\ dealtMsgs' # <<>>
      /\ Len(dealtMsgs) \in Nat /\ Len(dealtMsgs') = Len(dealtMsgs) + 1
      /\ dealtMsgs'[Len(dealtMsgs')] = m
  BY <1>1, DealsAppends DEF SessionInv
<1>3. fPusherHandle => initNal
  BY DEF SessionInv, StartedBySets
<1>4. SessionTypeOK'
  BY <1>1, <1>2 DEF SessionInv, SessionTypeOK
<1>5. StartedBySets'
  <2>1. startedAt \in 1..Len(dealtMsgs) => startedAt \in 1..Len(dealtMsgs')
    BY <1>2
  <2> QED
    BY <1>1, <2>1 DEF SessionInv, StartedBySets
<1>6. KeyFramesMatchStream'
  BY <1>1 DEF SessionInv, KeyFramesMatchStream
<1>7. EveryFramePushed'
  <2>1. fPusherHandle => ~HasFrame(m)
    BY <1>3 DEF HasFrame, DealNothing, DealAborts, GivesUp, Lacks, LooksForSets
  <2> QED
    BY <1>1, <2>1, NothingToPush
<1>8. AbortsForLackOnly'
  <2>1. CASE DealNothing(m)
    <3>1. ~aborted'
      BY <2>1 DEF DealNothing, Deals
    <3>2. ~(\/ m.json = "noMsg"
            \/ /\ m.json = "object"
               /\ \/ m.encoding.kind = "absent" /\ ~initNal
                  \/ m.data = "absent" /\ fPusherHandle)
      BY <1>3, <2>1 DEF DealNothing, GivesUp, LooksForSets
    <3> QED
      BY <1>1, <1>2, <3>1, <3>2 DEF AbortsForLackOnly
  <2>2. CASE DealAborts(m)
    BY <1>1, <1>2, <2>2 DEF DealAborts, Lacks, AbortsForLackOnly
  <2> QED
    BY <2>1, <2>2
<1> QED
  BY <1>4, <1>5, <1>6, <1>7, <1>8 DEF SessionInv

\* The sets found in a message, if they are looked for, are parameter sets.
LEMMA SetsFound ==
    ASSUME SessionInv, NEW m \in Messages, ~GivesUp(m), ~Lacks(m), HasSets(m)
    PROVE  SetsAfter(m) \in ParamSets
<1>1. m.json = "object"
  BY DEF GivesUp, Lacks, Messages
<1>2. CASE LooksForSets(m)
  <2>1. m.encoding \in Encodings
    BY <1>1 DEF Messages
  <2>2. m.encoding.kind = "sets"
    BY <1>1, <1>2, <2>1 DEF GivesUp, LooksForSets, Encodings
  <2>3. m.encoding.sets \in ParamSets
    BY <2>1, <2>2 DEF Encodings
  <2> QED
    BY <1>2, <2>3 DEF SetsAfter
<1>3. CASE ~LooksForSets(m)
  BY <1>3 DEF HasSets, SetsAfter, SessionInv, StartedBySets
<1> QED
  BY <1>2, <1>3

\* dealMsg gets past that part.
LEMMA DealKeepsInv ==
    ASSUME SessionInv, NEW m \in Messages, NEW created \in BOOLEAN,
           DealMsg(m, created)
    PROVE  SessionInv'
<1>1. /\ Deals(m) /\ ~GivesUp(m) /\ ~Lacks(m)
      /\ created => HasSets(m) /\ ~fPusherHandle
      /\ initNal' = HasSets(m)
      /\ mediainfo' = SetsAfter(m)
      /\ fPusherHandle' = (fPusherHandle \/ created)
      /\ aborted' = LacksData(m, created)
      /\ startedWith' = IF created THEN SetsAfter(m) ELSE startedWith
      /\ startedAt' = IF created THEN Len(dealtMsgs) + 1 ELSE startedAt
      /\ pushed' = IF HandleThen(created)
                   THEN pushed \o FrameOf(m, Len(dealtMsgs) + 1, SetsAfter(m))
                   ELSE pushed
  BY DEF DealMsg
<1>2. m.json = "object"
  BY <1>1 DEF GivesUp, Lacks, Messages
<1>3. /\ dealtMsgs' \in Seq(Messages) /\ dealtMsgs' # <<>>
      /\ Len(dealtMsgs) \in Nat /\ Len(dealtMsgs') = Len(dealtMsgs) + 1
      /\ dealtMsgs'[Len(dealtMsgs')] = m
  BY <1>1, DealsAppends DEF SessionInv
<1>4. /\ fPusherHandle => initNal /\ startedAt \in 1..Len(dealtMsgs)
      /\ initNal => HasSets(m) /\ SetsAfter(m) = mediainfo
      /\ HasSets(m) => SetsAfter(m) \in ParamSets
      /\ ~HasSets(m) => SetsAfter(m) = mediainfo
  BY <1>1, SetsFound DEF SessionInv, StartedBySets, HasSets, SetsAfter, LooksForSets
<1>5. fPusherHandle' => HasSets(m) /\ startedAt' \in 1..Len(dealtMsgs')
  BY <1>1, <1>3, <1>4
<1>6. /\ initNal \in BOOLEAN /\ fPusherHandle \in BOOLEAN /\ aborted \in BOOLEAN
      /\ mediainfo \in ParamSets \cup {Unset}
      /\ startedWith \in ParamSets \cup {Unset}
      /\ startedAt \in Nat /\ pushed \in Seq(Frames)
  BY DEF SessionInv, SessionTypeOK
<1>7. HandleThen(created) = fPusherHandle'
  BY <1>1 DEF HandleThen
<1>8. /\ EveryFramePushed'
      /\ pushed' \in Seq(Frames)
      /\ fPusherHandle' =>
           \A i \in DOMAIN pushed' : \/ i \in DOMAIN pushed /\ pushed'[i] = pushed[i]
                                     \/ pushed'[i].key => pushed'[i].sets = SetsAfter(m)
      /\ ~fPusherHandle' => pushed' = pushed
  <2>1. CASE fPusherHandle'
    <3>1. /\ startedAt' \in Nat
          /\ fPusherHandle => startedAt' = startedAt
          /\ ~fPusherHandle => startedAt' = Len(dealtMsgs) + 1
          /\ SetsAfter(m) \in ParamSets
      BY <1>1, <1>3, <1>4, <1>5, <1>6, <2>1
    <3>2. pushed' = pushed \o FrameOf(m, Len(dealtMsgs) + 1, SetsAfter(m))
      BY <1>1, <1>7, <2>1
    <3> QED
      BY <1>1, <1>2, <2>1, <3>1, <3>2, FramePushed
  <2>2. CASE ~fPusherHandle'
    <3>1. /\ pushed' = pushed /\ ~fPusherHandle /\ fPusherHandle' = fPusherHandle
          /\ startedAt' = startedAt
      BY <1>1, <1>6, <1>7, <2>2
    <3> QED
      BY <1>1, <1>6, <2>2, <3>1, NothingToPush
  <2> QED
    BY <2>1, <2>2
<1>9. SessionTypeOK'
  <2>1. initNal' \in BOOLEAN /\ fPusherHandle' \in BOOLEAN /\ aborted' \in BOOLEAN
    BY <1>1, <1>6 DEF HasSets, LooksForSets, LacksData, HandleThen
  <2>2. mediainfo' \in ParamSets \cup {Unset} /\ startedWith' \in ParamSets \cup {Unset}
    BY <1>1, <1>4, <1>6
  <2>3. startedAt' \in Nat
    BY <1>1, <1>3, <1>6
  <2> QED
    BY <1>3, <1>8, <2>1, <2>2, <2>3 DEF SessionTypeOK
<1>10. StartedBySets'
  BY <1>1, <1>4, <1>5 DEF StartedBySets
<1>11. KeyFramesMatchStream'
  <2>1. /\ pushed # <<>> => fPusherHandle
        /\ fPusherHandle => startedWith = mediainfo
        /\ \A i \in DOMAIN pushed : pushed[i].key => pushed[i].sets = startedWith
    BY DEF SessionInv, KeyFramesMatchStream
  <2>2. CASE fPusherHandle'
    <3>1. initNal' /\ startedWith' = mediainfo' /\ mediainfo' \in ParamSets
      BY <1>1, <1>4, <1>5, <2>1, <2>2
    <3>2. ~fPusherHandle => DOMAIN pushed = {}
      BY <2>1
    <3>3. \A i \in DOMAIN pushed' : pushed'[i].key => pushed'[i].sets = startedWith'
      BY <1>1, <1>4, <1>8, <2>1, <2>2, <3>1, <3>2
    <3> QED
      BY <2>2, <3>1, <3>3 DEF KeyFramesMatchStream
  <2>3. CASE ~fPusherHandle'
    <3>1. pushed' = <<>>
      BY <1>1, <1>8, <2>1, <2>3
    <3>2. DOMAIN pushed' = {}
      BY <3>1
    <3> QED
      BY <2>3, <3>1, <3>2 DEF KeyFramesMatchStream
  <2> QED
    BY <2>2, <2>3
<1>12. AbortsForLackOnly'
  <2>1. ~(m.encoding.kind = "absent" /\ ~initNal')
    BY <1>1, <1>2 DEF Lacks, HasSets
  <2>2. aborted' <=> m.data = "absent" /\ fPusherHandle'
    BY <1>1, <1>7 DEF LacksData
  <2> QED
    BY <1>2, <1>3, <2>1, <2>2 DEF AbortsForLackOnly
<1> QED
  BY <1>8, <1>9, <1>10, <1>11, <1>12 DEF SessionInv

-----------------------------------------------------------------------------
(* Theorems.                                                               *)

\* The invariant holds from the first message on (easy_client::dealMsg).
THEOREM SessionInvariance == SessionSpec => []SessionInv
<1>1. SessionInit => SessionInv
  <2> SUFFICES ASSUME SessionInit PROVE SessionInv
    OBVIOUS
  <2>1. dealtMsgs = <<>> /\ pushed = <<>> /\ ~fPusherHandle /\ ~initNal /\ ~aborted
    BY DEF SessionInit
  <2>2. SessionTypeOK
    BY EmptySeq DEF SessionInit, SessionTypeOK
  <2>3. DOMAIN dealtMsgs = {} /\ DOMAIN pushed = {}
    BY <2>1
  <2>4. StartedBySets /\ KeyFramesMatchStream /\ AbortsForLackOnly
    BY <2>1, <2>3 DEF StartedBySets, KeyFramesMatchStream, AbortsForLackOnly
  <2>5. EveryFramePushed
    BY <2>3 DEF EveryFramePushed
  <2> QED
    BY <2>2, <2>4, <2>5 DEF SessionInv
<1>2. SessionInv /\ [SessionNext]_sessionVars => SessionInv'
  <2> SUFFICES ASSUME SessionInv, [SessionNext]_sessionVars
               PROVE  SessionInv'
    OBVIOUS
  <2>1. CASE SessionNext
    <3>1. PICK m \in Messages : \/ DealNothing(m) \/ DealAborts(m)
                                \/ \E created \in BOOLEAN : DealMsg(m, created)
      BY <2>1 DEF SessionNext
    <3> QED
      BY <3>1, NothingKeepsInv, DealKeepsInv
  <2>2. CASE UNCHANGED sessionVars
    BY <2>2 DEF sessionVars, SessionInv, SessionTypeOK, StartedBySets,
        KeyFramesMatchStream, EveryFramePushed, AbortsForLackOnly
  <2> QED
    BY <2>1, <2>2
<1> QED
  BY <1>1, <1>2, PTL DEF SessionSpec

\* The session's variables keep their types for every collection of sets.
THEOREM SessionTypeCorrect == SessionSpec => []SessionTypeOK
<1>1. SessionInv => SessionTypeOK
  BY DEF SessionInv
<1> QED
  BY <1>1, SessionInvariance, PTL

\* Key frames carry the parameter sets the stream was started with, however
\* often EasyPusher_Create was refused.
THEOREM SessionSetsMatch == SessionSpec => []KeyFramesMatchStream
<1>1. SessionInv => KeyFramesMatchStream
  BY DEF SessionInv
<1> QED
  BY <1>1, SessionInvariance, PTL

\* No early return of dealMsg drops a frame of a stream that has started, and
\* none is pushed twice or out of order.
THEOREM SessionPushesAll == SessionSpec => []EveryFramePushed
<1>1. SessionInv => EveryFramePushed
  BY DEF SessionInv
<1> QED
  BY <1>1, SessionInvariance, PTL

\* The process ends for want of a member that is needed, and for nothing else.
THEOREM SessionAbortsForLack == SessionSpec => []AbortsForLackOnly
<1>1. SessionInv => AbortsForLackOnly
  BY DEF SessionInv
<1> QED
  BY <1>1, SessionInvariance, PTL
=============================================================================
