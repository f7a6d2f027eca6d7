----------------------------- MODULE WireRead -----------------------------
(***************************************************************************)
(* The bytes of one client connection: what a client's websocket thread    *)
(* makes of the bytes the server sends (handle_read_http_response,         *)
(* handle_read_frame, process_control_frame), however the socket cuts them *)
(* into reads, and the bytes it sends back.  Beside it a thread of the     *)
(* program may send a message or close the connection.                     *)
(*                                                                         *)
(* Timers, the write queue and the end of the connection are               *)
(* WsConnection's; here a connection that has been terminated is "closed". *)
(***************************************************************************)
EXTENDS HttpResponse, Hybi13

CONSTANT MaskKeys        \* what m_rng may return, four bytes each

ASSUME KeysAssumption == MaskKeys \subseteq [1..4 -> 0..255]

VARIABLES
    answer,          \* external: the lines of the server's answer, ended by a blank one
    frames,          \* external: the frames it sends behind it
    frameEnds,       \* where they end in the input
    program,         \* external: the calls another thread makes, in order
    cutFrom,         \* bound: where the first read may end at the earliest
    link,            \* m_state of the connection: connecting, open, closing, closed
    reading,         \* reads go on; a consume error ends them
    wasClean,        \* m_was_clean
    delivered,       \* messages given to the message handler
    sent,            \* the frames sent, in bytes
    reads            \* history: how many reads there were before the link opened

serverVars == <<answer, frames, frameEnds, input, cutFrom>>
linkVars == <<link, reading, wasClean>>
wireVars == <<serverVars, lim, p, httpVars, procVars, linkVars, delivered,
              sent, reads, program>>

\* The answer, one line of each of its symbols, ended by a blank one.
AnswerBytes(symbols) ==
    [i \in 1..3 * Len(symbols) |-> CASE i % 3 = 1 -> symbols[(i + 2) \div 3]
                                      [] i % 3 = 2 -> CR
                                      [] i % 3 = 0 -> LF] \o <<CR, LF>>

\* A frame as the server writes it; width is the number of bits its size is
\* written in.
WireFrame == [op : 0..15, fin : BOOLEAN, rsv : 0..7, masked : BOOLEAN,
              width : {7, 16, 64}, size : Nat, payload : Seq(0..255)]

FrameBytes(f) ==
    <<(IF f.fin THEN 128 ELSE 0) + f.rsv * 16 + f.op,
      (IF f.masked THEN 128 ELSE 0) + (CASE f.width = 7 -> f.size
                                         [] f.width = 16 -> 126
                                         [] f.width = 64 -> 127)>>
    \o (CASE f.width = 7  -> <<>>
          [] f.width = 16 -> <<f.size \div 256, f.size % 256>>
          [] f.width = 64 -> <<0, 0, 0, 0, f.size \div 16777216, (f.size \div 65536) % 256,
                               (f.size \div 256) % 256, f.size % 256>>)
    \o (IF f.masked THEN <<0, 0, 0, 0>> ELSE <<>>)
    \o f.payload

\* The number of frames that have been dealt with: the one that basic belongs
\* to has not.
HandledFrames ==
    Cardinality({e \in frameEnds : e <= p})
    - (IF basic # <<>> /\ p \in frameEnds THEN 1 ELSE 0)

\* What a server reads from a frame sent to it: its length, its key, its
\* payload; of a close frame, the code.
Decoded(bytes) ==
    LET at == CASE bytes[2] = 254 -> 8 [] bytes[2] = 255 -> 14 [] OTHER -> 6
        size == CASE bytes[2] = 254 -> bytes[3] * 256 + bytes[4]
                  [] bytes[2] = 255 -> ((bytes[7] * 256 + bytes[8]) * 256
                                        + bytes[9]) * 256 + bytes[10]
                  [] OTHER          -> bytes[2] - 128
        payload == [i \in 1..size |-> Xor(bytes[at + i], bytes[at - 3 + ((i - 1) % 4)])]
        op == bytes[1] - 128
    IN [op |-> op,
        payload |-> IF op = CLOSE THEN <<payload[1] * 256 + payload[2]>> ELSE payload]

Frames == INSTANCE FrameSession WITH
    MaxPayload <- MaxMessage, sequence <- frames, handled <- HandledFrames,
    session <- link, listening <- reading, messages <- delivered,
    answers <- [i \in DOMAIN sent |-> Decoded(sent[i])]

\* Where frame n ends in the input; the answer, for n = 0.
EndOf(n) == Len(AnswerBytes(answer))
            + Len(FlattenSeq([i \in 1..n |-> FrameBytes(frames[i])]))

Whole(f) == Len(f.payload) = f.size
FaultOf(n) == Frames!Fault(frames[n], Frames!OpenPieces(n - 1))

\* The ends of the frames that come whole or, with nothing behind their header,
\* should not have come.
EndsOfFrames == {EndOf(n) : n \in {i \in DOMAIN frames : Whole(frames[i]) \/ FaultOf(i) # 0}}

\* The size can be written in the frame's bits.
SizeFits(f) == f.size < CASE f.width = 7  -> 126
                          [] f.width = 16 -> 65536
                          [] f.width = 64 -> 1073741824

\* Each frame's size fits; only of the last one the payload may still be on its
\* way, and no body stands in front of them.
FramesFit ==
    /\ \A i \in DOMAIN frames :
         /\ SizeFits(frames[i])
         /\ Whole(frames[i]) \/ (frames[i].payload = <<>> /\ i = Len(frames))
    /\ frames = <<>> \/ \A i \in DOMAIN answer : answer[i] # Length2

\* Its size fits in the 32 bits that prepare writes.
Addressable(payload) == Len(payload) \div 16777216 < 256

\* What the program calls: messages that can be addressed, and closes with a
\* code it may send.
CallFits(call) ==
    \/ /\ call.op \in {TEXT, BINARY}
       /\ call.payload \in Seq(0..255)
       /\ Addressable(call.payload)
    \/ /\ call.op = CLOSE
       /\ call.code \in Nat
       /\ ~ReservedCode(call.code) /\ ~InvalidCode(call.code)

ProgramFits == \A i \in DOMAIN program : CallFits(program[i])

\* What FrameSession speaks of: a server that writes frames, and a program that
\* keeps to the interface.
Orderly == FramesFit /\ ProgramFits

WireInit ==
    /\ answer \in Seq(Symbols)
    /\ frames \in Seq(WireFrame)
    /\ input = AnswerBytes(answer) \o FlattenSeq([i \in DOMAIN frames |-> FrameBytes(frames[i])])
    /\ frameEnds = EndsOfFrames
    /\ program \in Seq(Range(program))
    /\ lim = 0 /\ p = 0
    /\ HttpInit
    /\ ProcInit
    /\ link = "connecting"
    /\ reading = TRUE
    /\ wasClean = FALSE
    /\ delivered = <<>>
    /\ sent = <<>>
    /\ reads = 0

\* The bytes that have been read and not processed.
Rest == SubSeq(input, p + 1, lim)

\* Everything read has been processed: the loops of consume and of
\* handle_read_frame have ended and a read of the socket is under way.
Idle ==
    /\ reading
    /\ p = lim
    /\ link = "connecting" => ~HeadersReady /\ ~httpError
    /\ procState # "READY" /\ consumeError = 0 /\ ~Turns(<<>>)

\* The read of the socket completes.
Read(n) ==
    /\ Idle
    /\ lim + n >= cutFrom
    /\ lim' = lim + n
    /\ reads' = IF link = "connecting" THEN reads + 1 ELSE reads
    /\ UNCHANGED <<serverVars, p, httpVars, procVars, linkVars, delivered, sent, program>>

-----------------------------------------------------------------------------
(* handle_read_http_response.                                              *)

ReadResponse ==
    /\ link = "connecting"
    /\ HttpTurn
    /\ UNCHANGED <<answer, frames, frameEnds, cutFrom, procVars, linkVars, delivered, sent, reads, program>>

Terminate == link' = "closed" /\ reading' = FALSE

\* The exception, or a response that is not valid, ends the attempt.
ResponseFails ==
    /\ link = "connecting"
    /\ httpError \/ (HeadersReady /\ ~HandshakeValid)
    /\ Terminate
    /\ UNCHANGED <<serverVars, lim, p, httpVars, procVars, wasClean, delivered, sent,
                   reads, program>>

\* What is left behind the response is read as frames.
Opens ==
    /\ link = "connecting"
    /\ HeadersReady /\ HandshakeValid
    /\ link' = "open"
    /\ UNCHANGED <<serverVars, lim, p, httpVars, procVars, reading, wasClean,
                   delivered, sent, reads, program>>

-----------------------------------------------------------------------------
(* handle_read_frame.                                                      *)

FrameTurn ==
    /\ link \notin {"connecting", "closed"}
    /\ reading
    /\ HeaderBasicTurn(Rest) \/ HeaderExtendedTurn(Rest) \/ ApplicationTurn(Rest)
    /\ p' = p + Len(Taken(Rest))
    /\ UNCHANGED <<serverVars, lim, httpVars, linkVars, delivered, sent, reads, program>>

\* The message of an error: one letter stands for it.
Text(code) == <<97 + (code % 26)>>

\* send_close_frame
SendClose(code, reason, ack) ==
    \E key \in MaskKeys :
      /\ sent' = Append(sent, Prepared(CLOSE, ClosePayload(code, reason), key))
      /\ link' = "closing"
      /\ wasClean' = (wasClean \/ ack)

\* consume returned an error: the connection is closed with the error's code
\* and nothing is read any more; if it was closing already, it is terminated.
ConsumeFails ==
    /\ consumeError # 0
    /\ reading
    /\ reading' = FALSE
    /\ IF link = "open"
       THEN SendClose(consumeError, Text(consumeError), FALSE)
       ELSE link' = "closed" /\ UNCHANGED <<wasClean, sent>>
    /\ UNCHANGED <<serverVars, lim, p, httpVars, procVars, delivered, reads, program>>

\* A data message goes to the message handler, if the connection is open.
Deliver ==
    /\ ~IsControl(ReadyMessage.op)
    /\ delivered' = IF link # "open" THEN delivered
                    ELSE Append(delivered, [op |-> ReadyMessage.op,
                                            payload |-> ReadyMessage.payload])
    /\ UNCHANGED <<linkVars, sent>>

\* A ping is answered with its payload while the connection is open.
AnswerPing ==
    /\ ReadyMessage.op = PING
    /\ IF link = "open"
       THEN \E key \in MaskKeys :
              sent' = Append(sent, Prepared(PONG, ReadyMessage.payload, key))
       ELSE UNCHANGED sent
    /\ UNCHANGED <<linkVars, delivered>>

TakePong ==
    /\ ReadyMessage.op = PONG
    /\ UNCHANGED <<linkVars, delivered, sent>>

\* The code a close frame is acknowledged with.
CloseCodeOf(payload) ==
    IF ExtractCode(payload) = 0 \/ ~Validate(Reason(payload)) THEN protocol_error
    ELSE IF ExtractCode(payload) = no_status THEN normal
    ELSE ExtractCode(payload)

\* What is said of it: why it is bad, or the reason that came with it.
CloseReasonOf(payload) ==
    CASE ExtractCode(payload) = 0    -> Text(0)
      [] ~Validate(Reason(payload))  -> Text(1)
      [] OTHER                       -> Reason(payload)

CloseIsBad(payload) == ExtractCode(payload) = 0 \/ ~Validate(Reason(payload))

\* send_close_ack if the connection is open or the frame is bad; otherwise it
\* is the acknowledgement of our own.  prepare_close refuses no code that
\* extract_code lets pass.
AnswerClose ==
    /\ ReadyMessage.op = CLOSE
    /\ LET payload == ReadyMessage.payload
       IN IF link = "open" \/ CloseIsBad(payload)
          THEN SendClose(CloseCodeOf(payload), CloseReasonOf(payload), TRUE)
          ELSE wasClean' = TRUE /\ UNCHANGED <<link, sent>>
    /\ UNCHANGED <<reading, delivered>>

\* get_message, and what handle_read_frame does with the message.
Dispatch ==
    /\ link \notin {"connecting", "closed"}
    /\ reading
    /\ GetMessage
    /\ Deliver \/ AnswerPing \/ TakePong \/ AnswerClose
    /\ UNCHANGED <<serverVars, lim, p, httpVars, reads, program>>

-----------------------------------------------------------------------------
(* The other thread.                                                       *)

\* connection::send; what is not UTF-8 is refused.
Send ==
    /\ link = "open"
    /\ program # <<>> /\ Head(program).op # CLOSE
    /\ program' = Tail(program)
    /\ LET message == Head(program)
       IN IF DataFrameRefused(message.op, message.payload)
          THEN UNCHANGED sent
          ELSE \E key \in MaskKeys :
                 sent' = Append(sent, Prepared(message.op, message.payload, key))
    /\ UNCHANGED <<serverVars, lim, p, httpVars, procVars, linkVars, delivered,
                   reads>>

\* connection::close
Close ==
    /\ link = "open"
    /\ program # <<>> /\ Head(program).op = CLOSE
    /\ program' = Tail(program)
    /\ SendClose(Head(program).code, <<>>, FALSE)
    /\ UNCHANGED <<serverVars, lim, p, httpVars, procVars, reading, delivered,
                   reads>>

WireNext ==
    \/ \E n \in 1..Len(input) - lim : Read(n)
    \/ ReadResponse \/ ResponseFails \/ Opens
    \/ FrameTurn \/ ConsumeFails \/ Dispatch
    \/ Send \/ Close

WireSpec == WireInit /\ [][WireNext]_wireVars

-----------------------------------------------------------------------------
(* Properties.                                                             *)

\* However the reads cut the bytes, the client deals with one whole frame
\* after the other: it delivers the messages, answers pings and closes, and
\* finds the faults of FrameSession, in the order of the frames, and a server
\* that decodes what it sends finds just these answers.
ImplementsFrameSession == Frames!SessionSpec

\* When the client waits for the socket, no frame that has come whole is left
\* lying in its buffer, no message in its processor, and it does not wait for
\* the rest of a frame it should have refused by its header.
NothingHeldBack ==
    Idle /\ link # "connecting" =>
        HandledFrames = Cardinality({e \in frameEnds : e <= lim})

\* The answer as the handshake wants it.
AnswerValid ==
    /\ answer # <<>> /\ answer[1] = Status101
    /\ \A i \in 2..Len(answer) :
         \/ answer[i] \in {Upgrade, Connection, AcceptKey, Length2}
         \/ answer[i] = LengthBad /\ \E j \in 2..i - 1 : answer[j] = Length2
    /\ \A needed \in {Upgrade, Connection} : \E i \in DOMAIN answer : answer[i] = needed
    /\ Cardinality({i \in DOMAIN answer : answer[i] = AcceptKey}) = 1

\* What the limit counts: each line and three bytes more; and three for each
\* read that does not complete the answer, so that the limit depends on how
\* the answer is cut into reads.
AnswerCounted ==
    Len(answer) * (1 + DelimiterSize) + DelimiterSize + reads * DelimiterSize

\* The connection opens on a valid answer only, and then processes every byte
\* behind it; it fails on a valid answer only if the limit's count, with its
\* three bytes a read, comes to more than the limit.
HandshakeDecided ==
    /\ link \in {"open", "closing"} =>
          AnswerValid /\ p >= Len(AnswerBytes(answer))
    /\ link = "closed" /\ sent = <<>> /\ delivered = <<>> /\ AnswerValid =>
          AnswerCounted > MaxHeader

\* "Text messages end on a valid UTF8 code point": what the message handler is
\* given as text is UTF-8.
TextEndsOnCodePoint ==
    \A i \in DOMAIN delivered :
      delivered[i].op = TEXT => WellFormed(delivered[i].payload)

-----------------------------------------------------------------------------
(* What the proof of HandshakeDecided adds to it.                          *)

WireTypeOK ==
    /\ answer \in Seq(Symbols)
    /\ input \in Seq(Nat)
    /\ lim \in 0..Len(input) /\ p \in 0..lim
    /\ link \in {"connecting", "open", "closing", "closed"}
    /\ reads \in Nat
    /\ sent \in Seq(Range(sent))
    /\ httpError \in BOOLEAN

\* The processor needs as many bytes as its header is short of.
ProcTypeOK ==
    /\ procState \in {"HEADER_BASIC", "HEADER_EXTENDED", "APPLICATION", "READY"}
    /\ bytesNeeded \in Nat
    /\ basic \in Seq(Nat) /\ ext \in Seq(Nat)
    /\ procState = "HEADER_BASIC" /\ consumeError = 0 =>
         Len(basic) + bytesNeeded = 2 /\ ext = <<>>
    /\ procState = "HEADER_EXTENDED" /\ consumeError = 0 =>
         Len(basic) = 2 /\ Len(ext) + bytesNeeded = ExtendedLen(basic)
    /\ link = "connecting" => consumeError = 0

\* The input begins with the lines of the answer and a blank one.
AnswerComes ==
    LET n == Len(answer)
    IN /\ Len(input) >= 3 * n + 2
       /\ \A i \in 1..n : /\ input[3 * i - 2] = answer[i]
                          /\ input[3 * i - 1] = CR /\ input[3 * i] = LF
       /\ input[3 * n + 1] = CR /\ input[3 * n + 2] = LF

\* The parser has taken whole lines, each in its place, and its count is that
\* of these lines and of the reads that ended between or inside them.
LinesTaken ==
    /\ lines \in Seq(Symbols) /\ Len(lines) <= Len(answer)
    /\ lineStart = 3 * Len(lines) /\ lineStart <= lim
    /\ \A i \in DOMAIN lines :
         /\ lines[i] = answer[i]
         /\ lines[i] \in IF i = 1 THEN StatusLines ELSE HeaderLines
    /\ httpState \in {"RESPONSE_LINE", "HEADERS", "BODY", "DONE"}
    /\ ~HeadersReady => (httpState = "RESPONSE_LINE" <=> lines = <<>>)
    /\ HeadersReady =>
         /\ Len(lines) = Len(answer)
         /\ p >= Len(AnswerBytes(answer))
         /\ ~LengthFails
    /\ ~HeadersReady /\ ~httpError =>
         headerBytes = (1 + DelimiterSize) * Len(lines)
                       + DelimiterSize * (IF p < lim THEN reads - 1 ELSE reads)

\* A valid answer is not refused but for the limit.
RefusedForLimit == httpError /\ AnswerValid => AnswerCounted > MaxHeader

\* What the link's state says of the answer and of what has been sent.
LinkFollowsAnswer ==
    /\ link = "connecting" => reading
    /\ link = "closed" => ~reading
    /\ link \in {"open", "closing"} => HeadersReady /\ HandshakeValid
    /\ link = "closing" => sent # <<>>
    /\ link = "closed" /\ sent = <<>> =>
         httpError \/ (HeadersReady /\ ~HandshakeValid)

HandshakeInv ==
    /\ WireTypeOK /\ ProcTypeOK
    /\ AnswerComes /\ LinesTaken /\ RefusedForLimit
    /\ LinkFollowsAnswer

-----------------------------------------------------------------------------
(* What the proofs of NothingHeldBack and ImplementsFrameSession add.      *)

\* The message the processor keeps for the bytes of a message of kind op.
MessageOf(op, bytes) ==
    <<[op |-> op, payload |-> bytes,
       utf8 |-> IF op = TEXT THEN DecodeAll(Accept, bytes) ELSE Accept]>>

DataOf(pieces) ==
    IF pieces = <<>> THEN <<>> ELSE MessageOf(pieces[1].op, Frames!Payload(pieces))

HeaderLen(f) == Len(FrameBytes(f)) - Len(f.payload)

\* i frames have been dealt with, and the processor stands behind them, in the
\* next frame if it has read a part of a header.
StandsBehind(i) ==
    /\ i \in 0..Len(frames)
    /\ \A j \in 1..i : Whole(frames[j])
    /\ EndOf(i) <= p
    /\ IF i = Len(frames) THEN p = EndOf(i) ELSE p <= EndOf(i + 1)
    /\ (basic = <<>>) <=> (p = EndOf(i))

\* The header's bytes are those behind frame i, and the processor needs the
\* others.
InHeader(i) ==
    /\ procState = "HEADER_BASIC"
    /\ p < EndOf(i) + 2
    /\ basic = SubSeq(input, EndOf(i) + 1, p) /\ ext = <<>>
    /\ bytesNeeded = EndOf(i) + 2 - p
    /\ dataMsg = DataOf(Frames!OpenPieces(i))

InExtendedHeader(i) ==
    LET f == frames[i + 1]
        open == Frames!OpenPieces(i)
    IN /\ procState = "HEADER_EXTENDED"
       /\ i < Len(frames) /\ p >= EndOf(i) + 2
       /\ basic = SubSeq(input, EndOf(i) + 1, EndOf(i) + 2)
       /\ ext = SubSeq(input, EndOf(i) + 3, p)
       /\ bytesNeeded = EndOf(i) + HeaderLen(f) - p
       /\ dataMsg = DataOf(open)
       /\ ~Frames!Malformed(f, open)

\* The message holds the bytes of the payload that have been read.
InPayload(i) ==
    LET f == frames[i + 1]
        open == Frames!OpenPieces(i)
        taken == p - (EndOf(i) + HeaderLen(f))
        read == SubSeq(f.payload, 1, taken)
    IN /\ procState \in {"APPLICATION", "READY"}
       /\ i < Len(frames) /\ taken >= 0
       /\ basic = SubSeq(input, EndOf(i) + 1, EndOf(i) + 2)
       /\ bytesNeeded = f.size - taken
       /\ ~Frames!Malformed(f, open) /\ ~Frames!Wasteful(f) /\ ~Frames!TooLong(f, open)
       /\ IF Frames!Control(f)
          THEN controlMsg = MessageOf(f.op, read) /\ dataMsg = DataOf(open)
          ELSE dataMsg = MessageOf(Append(open, f)[1].op, Frames!Payload(open) \o read)
       /\ procState = "READY" => bytesNeeded = 0 /\ f.fin /\ FaultOf(i + 1) = 0

\* The processor has found the fault of the frame it is in.
HasFailed(i) ==
    i < Len(frames) /\ consumeError = FaultOf(i + 1) /\ procState # "READY"

\* The processor is where the bytes behind frame i have brought it.
OnCourse(i) ==
    IF consumeError # 0 THEN HasFailed(i)
    ELSE /\ InHeader(i) \/ InExtendedHeader(i) \/ InPayload(i)
         /\ dataMsg # <<>> => dataMsg[1].utf8 # Reject

\* Everything read has been dealt with up to some frame.
InStep == \E i \in 0..Len(frames) : StandsBehind(i) /\ (reading => OnCourse(i))

\* Until the connection opens no frame is begun.
NotBegun ==
    /\ procState = "HEADER_BASIC" /\ bytesNeeded = 2
    /\ basic = <<>> /\ ext = <<>> /\ dataMsg = <<>>
    /\ delivered = <<>> /\ sent = <<>>
    /\ p <= EndOf(0)
    /\ HeadersReady => p = EndOf(0)

FrameInv ==
    /\ frames \in Seq(WireFrame) /\ FramesFit
    /\ program \in Seq(Range(program)) /\ ProgramFits
    /\ frameEnds = EndsOfFrames
    /\ input = AnswerBytes(answer)
               \o FlattenSeq([i \in DOMAIN frames |-> FrameBytes(frames[i])])
    /\ IF link = "connecting" THEN NotBegun
       ELSE (sent = <<>> /\ link = "closed") \/ InStep
=============================================================================
