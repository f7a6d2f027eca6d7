------------------------------ MODULE Hybi13 ------------------------------
(***************************************************************************)
(* websocketpp's frame processor for version 13 (processors/hybi13.hpp,    *)
(* frame.hpp), on the client's side: consume, which turns bytes into       *)
(* messages, one turn of its loop a step, and the functions that prepare   *)
(* frames for writing.  permessage_deflate is not enabled in the programs' *)
(* configurations, so no message is compressed.                            *)
(*                                                                         *)
(* A frame's bytes are numbers 0..255.  Lengths from 2^30 on, all of them  *)
(* too big for any message, are not told apart.                            *)
(***************************************************************************)
EXTENDS Utf8, FiniteSetsExt

CONSTANT MaxMessage          \* m_max_message_size

ASSUME MaxMessageAssumption == MaxMessage \in 0..1073741823

VARIABLES
    procState,       \* m_state: HEADER_BASIC, HEADER_EXTENDED, APPLICATION, READY
    bytesNeeded,     \* m_bytes_needed
    basic,           \* the bytes read into m_basic_header
    ext,             \* the bytes read into m_extended_header
    dataMsg,         \* m_data_msg: empty, or one message
    controlMsg,      \* m_control_msg, likewise
    consumeError     \* ec of consume, as the close code to_ws makes of it; 0: none

procVars == <<procState, bytesNeeded, basic, ext, dataMsg, controlMsg,
              consumeError>>

CONTINUATION == 0
TEXT == 1
BINARY == 2
CLOSE == 8
PING == 9
PONG == 10

IsControl(op) == op >= 8
Reserved(op) == op \in 3..7 \cup 11..15

\* close::status
normal == 1000
protocol_error == 1002
no_status == 1005
invalid_payload == 1007
message_too_big == 1009
internal_endpoint_error == 1011

PayloadSizeBasic == 125
PayloadSizeExtended == 65535

-----------------------------------------------------------------------------
(* The basic header, <<b0, b1>>.                                           *)

Fin(h) == h[1] >= 128
Rsv(h) == (h[1] \div 16) % 8
Opcode(h) == h[1] % 16
Masked(h) == h[2] >= 128
BasicSize(h) == h[2] % 128

\* get_header_len, without the two bytes of the basic header.
ExtendedLen(h) ==
    (CASE BasicSize(h) = 126 -> 2
       [] BasicSize(h) = 127 -> 8
       [] OTHER              -> 0) + (IF Masked(h) THEN 4 ELSE 0)

\* get_payload_size: big-endian.
PayloadSize(h, e) ==
    CASE BasicSize(h) = 126 -> e[1] * 256 + e[2]
      [] BasicSize(h) = 127 -> IF (\E i \in 1..4 : e[i] # 0) \/ e[5] >= 64 THEN 1073741824
                               ELSE ((e[5] * 256 + e[6]) * 256 + e[7]) * 256 + e[8]
      [] OTHER              -> BasicSize(h)

\* validate_incoming_basic_header: its errors all become the same code.
BasicHeaderError(h, newMsg) ==
    IF \/ IsControl(Opcode(h)) /\ BasicSize(h) > PayloadSizeBasic
       \/ Rsv(h) # 0
       \/ Reserved(Opcode(h))
       \/ IsControl(Opcode(h)) /\ ~Fin(h)
       \/ newMsg /\ Opcode(h) = CONTINUATION
       \/ ~newMsg /\ ~IsControl(Opcode(h)) /\ Opcode(h) # CONTINUATION
       \/ Masked(h)
    THEN protocol_error ELSE 0

\* validate_incoming_extended_header: to_ws has no case for its error.
NotMinimal(h, size) ==
    \/ BasicSize(h) = 126 /\ size <= PayloadSizeBasic
    \/ BasicSize(h) = 127 /\ size <= PayloadSizeExtended

-----------------------------------------------------------------------------
(* consume.                                                                *)

ProcInit ==
    /\ procState = "HEADER_BASIC"
    /\ bytesNeeded = 2
    /\ basic = <<>> /\ ext = <<>>
    /\ dataMsg = <<>> /\ controlMsg = <<>>
    /\ consumeError = 0

\* Mistake: an empty frame is not finished before more bytes come.
TurnsOnBytes(avail) ==
    procState # "READY" /\ consumeError = 0 /\ Len(avail) > 0

\* The condition of consume's loop, with the bytes that are left.
Turns(avail) ==
    procState # "READY" /\ consumeError = 0
    /\ (Len(avail) > 0 \/ bytesNeeded = 0)

\* The bytes one turn reads.
Taken(avail) == SubSeq(avail, 1, Min({bytesNeeded, Len(avail)}))

HeaderBasicTurn(avail) ==
    /\ procState = "HEADER_BASIC"
    /\ Turns(avail)
    /\ basic' = basic \o Taken(avail)
    /\ IF Len(basic') < 2
       THEN /\ bytesNeeded' = 2 - Len(basic')
            /\ UNCHANGED <<procState, consumeError>>
       ELSE /\ consumeError' = BasicHeaderError(basic', dataMsg = <<>>)
            /\ IF consumeError' # 0
               THEN bytesNeeded' = 0 /\ UNCHANGED procState
               ELSE /\ procState' = "HEADER_EXTENDED"
                    /\ bytesNeeded' = ExtendedLen(basic')
    /\ UNCHANGED <<ext, dataMsg, controlMsg>>

NewMessage(op) == <<[op |-> op, payload |-> <<>>, utf8 |-> Accept]>>

\* The size limit, for a data frame and what its message holds already.
TooBig(size) ==
    (IF dataMsg = <<>> THEN 0 ELSE Len(dataMsg[1].payload)) + size > MaxMessage

HeaderExtendedTurn(avail) ==
    /\ procState = "HEADER_EXTENDED"
    /\ Turns(avail)
    /\ ext' = ext \o Taken(avail)
    /\ LET missing == bytesNeeded - Len(Taken(avail))
           size == PayloadSize(basic, ext')
           op == Opcode(basic)
       IN IF missing > 0
          THEN /\ bytesNeeded' = missing
               /\ UNCHANGED <<procState, dataMsg, controlMsg, consumeError>>
          ELSE IF NotMinimal(basic, size)
          THEN /\ consumeError' = internal_endpoint_error
               /\ bytesNeeded' = 0
               /\ UNCHANGED <<procState, dataMsg, controlMsg>>
          ELSE /\ procState' = "APPLICATION"
               /\ bytesNeeded' = size
               /\ IF IsControl(op)
                  THEN /\ controlMsg' = NewMessage(op)
                       /\ UNCHANGED <<dataMsg, consumeError>>
                  ELSE /\ consumeError' = IF TooBig(size) THEN message_too_big ELSE 0
                       /\ dataMsg' = IF dataMsg = <<>> /\ ~TooBig(size)
                                     THEN NewMessage(op) ELSE dataMsg
                       /\ UNCHANGED controlMsg
    /\ UNCHANGED basic

\* What process_payload_bytes makes of the message, given more of its bytes.
WithBytes(msg, bytes) ==
    <<[msg[1] EXCEPT !.payload = @ \o bytes,
                     !.utf8 = IF msg[1].op = TEXT THEN DecodeAll(@, bytes) ELSE @]>>

\* Mistake: finalize_message does not look.
EndsInsideCharacterNever(msg) == FALSE

\* finalize_message, which asks the frame, not the message, whether it is text.
EndsInsideCharacter(msg) == Opcode(basic) = TEXT /\ msg[1].utf8 # Accept

ResetHeaders ==
    /\ procState' = "HEADER_BASIC"
    /\ bytesNeeded' = 2
    /\ basic' = <<>> /\ ext' = <<>>

ApplicationTurn(avail) ==
    /\ procState = "APPLICATION"
    /\ Turns(avail)
    /\ LET control == IsControl(Opcode(basic))
           msg == WithBytes(IF control THEN controlMsg ELSE dataMsg, Taken(avail))
           missing == bytesNeeded - Len(Taken(avail))
           error == IF \/ msg[1].utf8 = Reject
                       \/ missing = 0 /\ Fin(basic) /\ EndsInsideCharacter(msg)
                    THEN invalid_payload ELSE 0
       IN /\ IF control THEN controlMsg' = msg /\ UNCHANGED dataMsg
                        ELSE dataMsg' = msg /\ UNCHANGED controlMsg
          /\ consumeError' = error
          /\ IF error = 0 /\ missing = 0 /\ ~Fin(basic)
             THEN ResetHeaders
             ELSE /\ procState' = IF error = 0 /\ missing = 0 THEN "READY" ELSE procState
                  /\ bytesNeeded' = missing
                  /\ UNCHANGED <<basic, ext>>

\* get_message: the caller takes the message that is ready.
ReadyMessage == IF IsControl(Opcode(basic)) THEN controlMsg[1] ELSE dataMsg[1]

GetMessage ==
    /\ procState = "READY"
    /\ IF IsControl(Opcode(basic)) THEN controlMsg' = <<>> /\ UNCHANGED dataMsg
                                   ELSE dataMsg' = <<>> /\ UNCHANGED controlMsg
    /\ ResetHeaders
    /\ UNCHANGED consumeError

-----------------------------------------------------------------------------
(* Frames to write.                                                        *)

\* The exclusive or of two bytes, bit by bit.
Xor(a, b) ==
    LET bit(w) == w * ((a \div w + b \div w) % 2)
    IN bit(1) + bit(2) + bit(4) + bit(8) + bit(16) + bit(32) + bit(64) + bit(128)

\* masked_copy
MaskedCopy(bytes, key) ==
    [i \in DOMAIN bytes |-> Xor(bytes[i], key[((i - 1) % 4) + 1])]

\* basic_header, extended_header and prepare_header, always fin and masked.
Header(op, size, key) ==
    <<128 + op>> \o
    (CASE size <= PayloadSizeBasic    -> <<128 + size>>
       [] size \in 126..PayloadSizeExtended
                                      -> <<254, size \div 256, size % 256>>
       [] size > PayloadSizeExtended  -> <<255, 0, 0, 0, 0, size \div 16777216,
                                           (size \div 65536) % 256,
                                           (size \div 256) % 256, size % 256>>) \o key

\* prepare_control and prepare_data_frame
Prepared(op, payload, key) ==
    Header(op, Len(payload), key) \o MaskedCopy(payload, key)

\* prepare_data_frame refuses text that is not UTF-8.
DataFrameRefused(op, payload) == op = TEXT /\ ~Validate(payload)

\* prepare_close: the payload of a close frame.
ClosePayload(code, reason) ==
    IF code = no_status THEN <<>> ELSE <<code \div 256, code % 256>> \o reason

ReservedCode(code) == code \in 1016..2999 \/ code = 1004
InvalidCode(code) == code <= 999 \/ code >= 5000 \/ code \in {1005, 1006, 1015}

\* extract_code; 0 stands for the error.
ExtractCode(payload) ==
    CASE Len(payload) = 0 -> no_status
      [] Len(payload) = 1 -> 0
      [] OTHER -> LET code == payload[1] * 256 + payload[2]
                  IN IF ReservedCode(code) \/ InvalidCode(code) THEN 0 ELSE code

\* extract_reason
Reason(payload) == SubSeq(payload, 3, Len(payload))
=============================================================================
