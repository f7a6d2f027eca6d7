------------------------------ MODULE NaluScan ------------------------------
(***************************************************************************)
(* rtsptool::get_sps_pps_nalu (h264_pusher/nalu.hpp), one turn of its loop *)
(* per step, on one buffer.  Pointers are offsets into the buffer.         *)
(*                                                                         *)
(* find_next_nal compares four bytes at every offset up to and including   *)
(* the end of the buffer, so it reads up to four bytes behind it.  The     *)
(* buffer is a std::string: the first of these bytes is its terminating    *)
(* zero, the others are whatever the memory holds ("junk").                *)
(***************************************************************************)
EXTENDS Integers, Sequences

CONSTANTS Buffers,      \* the byte strings "encoding" may decode to
          Junks         \* what the four bytes after the terminator may be

ASSUME NaluAssumption ==
    /\ \A d \in Buffers : d \in Seq(0..255)
    /\ \A j \in Junks : j \in [1..4 -> 0..255]

VARIABLES data,         \* the buffer
          junk,         \* the bytes behind its terminating zero
          pbgn, pend,   \* the loop's two pointers
          sps, pps,     \* the vectors filled so far
          scanPC        \* "loop", "done", or "thrown" out of the function

scanVars == <<data, junk, pbgn, pend, sps, pps, scanPC>>

End == Len(data)                          \* pkt_end
Mem == data \o <<0>> \o junk
At(p) == Mem[p + 1]

\* p[0..3] is 00 00 00 01.
IsStartCode(p) == At(p) = 0 /\ At(p + 1) = 0 /\ At(p + 2) = 0 /\ At(p + 3) = 1

\* How far find_next_nal moves on from an offset without a start code.
Skip(p) == IF At(p) = 0 /\ At(p + 1) # 0 THEN 2 ELSE 1

\* find_next_nal from an offset it can reach: the offset behind the next start
\* code, or the end.
NextNalFrom[p \in 0..(End + 2)] ==
    IF p > End THEN End
    ELSE IF IsStartCode(p) THEN p + 4
    ELSE NextNalFrom[p + Skip(p)]

FindNextNal(start) == IF start > End THEN End ELSE NextNalFrom[start]

NalType(p) == At(p) % 32                  \* (*p) & 0x1F

\* The bytes from offset b up to, not including, offset e.
Bytes(b, e) == SubSeq(data, b + 1, e)

-----------------------------------------------------------------------------

ScanInit ==
    /\ data \in Buffers
    /\ junk \in Junks
    /\ pbgn = 0
    /\ pend = End
    /\ sps = <<>>
    /\ pps = <<>>
    /\ scanPC = "loop"

\* Where an SPS found at b, with the next start code found before e, ends:
\* always four bytes before e, even where e is the end of the buffer.
SpsEnd(e) == e - 4

\* Mistake: a PPS is cut like an SPS.
PpsCut(e) == e - 4

\* Where a PPS ends.
PpsEnd(e) == IF e = End THEN e ELSE e - 4

\* vector::assign of a range that ends before it begins throws.
AssignThrows(b, e) ==
    \/ NalType(b) = 7 /\ SpsEnd(e) < b
    \/ NalType(b) = 8 /\ PpsEnd(e) < b

\* Mistake: the next turn starts from the same start code.
ScanAgainFrom(b, e) == b - 4

\* Where the next turn starts.
NextFrom(b, e) == e - 4

\* No further start code: the loop's continue.
NoMoreNal ==
    /\ scanPC = "loop"
    /\ pbgn < End
    /\ FindNextNal(pbgn) = End
    /\ pbgn' = End
    /\ UNCHANGED <<data, junk, pend, sps, pps, scanPC>>

TakeNal ==
    /\ scanPC = "loop"
    /\ pbgn < End
    /\ LET b == FindNextNal(pbgn)
           e == FindNextNal(b)
       IN /\ b # End
          /\ ~AssignThrows(b, e)
          /\ sps' = IF NalType(b) = 7 THEN Bytes(b, SpsEnd(e)) ELSE sps
          /\ pps' = IF NalType(b) = 8 THEN Bytes(b, PpsEnd(e)) ELSE pps
          /\ pend' = e
          /\ pbgn' = NextFrom(b, e)
    /\ UNCHANGED <<data, junk, scanPC>>

\* std::length_error leaves the function; dealMsg catches it.
TakeThrows ==
    /\ scanPC = "loop"
    /\ pbgn < End
    /\ LET b == FindNextNal(pbgn)
       IN b # End /\ AssignThrows(b, FindNextNal(b))
    /\ scanPC' = "thrown"
    /\ UNCHANGED <<data, junk, pbgn, pend, sps, pps>>

LoopEnds ==
    /\ scanPC = "loop"
    /\ pbgn >= End
    /\ scanPC' = "done"
    /\ UNCHANGED <<data, junk, pbgn, pend, sps, pps>>

ScanNext == NoMoreNal \/ TakeNal \/ TakeThrows \/ LoopEnds

\* The function runs on the worker thread, which is scheduled.
ScanSpec == ScanInit /\ [][ScanNext]_scanVars /\ WF_scanVars(ScanNext)

-----------------------------------------------------------------------------
(* What the function is for, without pointers and loop: the last SPS and   *)
(* the last PPS between start codes.                                       *)

\* The bytes behind the buffer do not complete a start code begun in it.
JunkHarmless == \A p \in 0..End : p + 4 > End => ~IsStartCode(p)

Codes == {p \in 0..(End - 4) : SubSeq(data, p + 1, p + 4) = <<0, 0, 0, 1>>}

\* NAL units that have at least their type byte, by the offset of that byte.
Nals == {p + 4 : p \in Codes} \ {End}

NalEnd(b) ==
    IF \E p \in Codes : p >= b
    THEN CHOOSE p \in Codes : p >= b /\ \A q \in Codes : q >= b => p <= q
    ELSE End

NalsOf(t) == {b \in Nals : data[b + 1] % 32 = t}

LastOf(S) == CHOOSE b \in S : \A a \in S : a <= b

RefNal(t) ==
    IF NalsOf(t) = {} THEN <<>>
    ELSE LET b == LastOf(NalsOf(t)) IN Bytes(b, NalEnd(b))

\* The last SPS unit is followed by another start code.
SpsFollowed == NalsOf(7) = {} \/ NalEnd(LastOf(NalsOf(7))) # End

\* The buffer does not end in a bare start code.
ProperEnd == End - 4 \notin Codes

-----------------------------------------------------------------------------
(* Properties.                                                             *)

\* The scan finds what the definition says: the PPS always, the SPS whenever
\* another start code follows it, as in the usual SPS PPS order.  An SPS at
\* the end of the buffer loses its last four bytes and nothing else; and the
\* function throws only if such an SPS has less than four.  With harmless
\* memory behind the buffer both pointers stay within it, although one is set
\* back by four bytes on every turn.
ScanFindsSets ==
    /\ JunkHarmless => pbgn \in 0..End /\ pend \in 0..End
    /\ scanPC = "done" /\ JunkHarmless /\ ProperEnd =>
         /\ pps = RefNal(8)
         /\ LET whole == RefNal(7)
            IN sps = IF SpsFollowed THEN whole ELSE SubSeq(whole, 1, Len(whole) - 4)
    /\ scanPC = "thrown" /\ JunkHarmless =>
         \E b \in NalsOf(7) : NalEnd(b) = End /\ End - b < 4

\* Unless a start code reaches over the end of the buffer, the loop ends
\* although it sets its pointer back by four bytes on every turn.
ScanTerminates == JunkHarmless ~> scanPC # "loop"
=============================================================================
