--------------------------- MODULE FrameSession ---------------------------
(***************************************************************************)
(* What a client of websocketpp makes of a server's frames, one whole      *)
(* frame a step: no bytes, no reads, no processor state.  WireRead reads   *)
(* the same frames byte by byte and implements this.                       *)
(*                                                                         *)
(* A frame is a record: its bits, the size it announces and in how many    *)
(* bits it does so, and its payload.                                       *)
(***************************************************************************)
EXTENDS Utf8

CONSTANT MaxPayload          \* the size no message may exceed

VARIABLES
    sequence,        \* the frames the server sends
    handled,         \* how many of them have been dealt with
    session,         \* "connecting", "open", "closing" or "closed"
    listening,       \* no fault has been found yet
    messages,        \* the messages delivered
    answers          \* the frames sent: op and payload, of a close frame the code

sessionVars == <<sequence, handled, session, listening, messages, answers>>

Text == 1
Close == 8
Ping == 9

Control(f) == f.op >= 8

\* The pieces of the message that has begun and not ended after n frames:
\* control frames come between them, a final piece ends it.
OpenPieces(n) ==
    LET open[i \in 0..Len(sequence)] ==
            IF i = 0 THEN <<>>
            ELSE IF Control(sequence[i]) THEN open[i - 1]
            ELSE IF sequence[i].fin THEN <<>>
            ELSE Append(open[i - 1], sequence[i])
    IN open[n]

Payload(pieces) == FlattenSeq([i \in DOMAIN pieces |-> pieces[i].payload])

\* A frame that may not come here.
Malformed(f, open) ==
    \/ f.rsv # 0 \/ f.masked
    \/ f.op \in 3..7 \cup 11..15
    \/ Control(f) /\ (~f.fin \/ f.width # 7)
    \/ f.op = 0 /\ open = <<>>
    \/ f.op \in {1, 2} /\ open # <<>>

\* Its size could have been written in fewer bits.
Wasteful(f) == \/ f.width = 16 /\ f.size < 126
               \/ f.width = 64 /\ f.size < 65536

TooLong(f, open) == ~Control(f) /\ Len(Payload(open)) + f.size > MaxPayload

\* Text that cannot be UTF-8 any more, or that ends in the middle of a
\* character; the latter is only seen in a message of one frame.
BadText(f, open) ==
    LET pieces == Append(open, f)
        text == Payload(pieces)
    IN /\ ~Control(f)
       /\ pieces[1].op = Text
       /\ IF f.fin /\ Len(pieces) = 1 THEN ~WellFormed(text) ELSE ~Completable(text)

\* The close code that says what is wrong with the frame; 0 if nothing is.
Fault(f, open) ==
    IF Malformed(f, open) THEN 1002
    ELSE IF Wasteful(f) THEN 1011
    ELSE IF TooLong(f, open) THEN 1009
    ELSE IF BadText(f, open) THEN 1007
    ELSE 0

\* A code an endpoint may send, as far as this one knows.
Sendable(code) ==
    code \in 1000..4999 \ ({1004, 1005, 1006, 1015} \cup 1016..2999)

CodeIn(payload) == payload[1] * 256 + payload[2]

GoodClose(payload) ==
    \/ payload = <<>>
    \/ /\ Len(payload) > 1
       /\ Sendable(CodeIn(payload))
       /\ WellFormed(SubSeq(payload, 3, Len(payload)))

\* The code that acknowledges a close frame.
AckCode(payload) ==
    IF ~GoodClose(payload) THEN 1002
    ELSE IF payload = <<>> THEN 1000 ELSE CodeIn(payload)

CloseAnswer(code) == [op |-> Close, payload |-> <<code>>]

-----------------------------------------------------------------------------

SessionInit ==
    /\ handled = 0
    /\ session = "connecting"
    /\ listening = TRUE
    /\ messages = <<>>
    /\ answers = <<>>

Open ==
    /\ session = "connecting"
    /\ session' = "open"
    /\ UNCHANGED <<sequence, handled, listening, messages, answers>>

Refused ==
    /\ session = "connecting"
    /\ session' = "closed"
    /\ listening' = FALSE
    /\ UNCHANGED <<sequence, handled, messages, answers>>

Following == sequence[handled + 1]
OpenNow == OpenPieces(handled)

Hears ==
    /\ session \in {"open", "closing"}
    /\ listening
    /\ handled < Len(sequence)

\* A piece of a message; the message is delivered when it is whole, unless
\* the connection is closing.
HandleData ==
    /\ Hears
    /\ handled' = handled + 1
    /\ ~Control(Following) /\ Fault(Following, OpenNow) = 0
    /\ LET pieces == Append(OpenNow, Following)
       IN messages' = IF session = "open" /\ Following.fin
                      THEN Append(messages, [op |-> pieces[1].op,
                                             payload |-> Payload(pieces)])
                      ELSE messages
    /\ UNCHANGED <<sequence, session, listening, answers>>

\* A ping is answered while the connection is open; a pong means nothing.
HandlePingPong ==
    /\ Hears
    /\ handled' = handled + 1
    /\ Following.op \in {Ping, 10} /\ Fault(Following, OpenNow) = 0
    /\ answers' = IF Following.op = Ping /\ session = "open"
                  THEN Append(answers, [op |-> 10, payload |-> Following.payload])
                  ELSE answers
    /\ UNCHANGED <<sequence, session, listening, messages>>

\* A close frame is acknowledged, unless it acknowledges ours itself; one that
\* is bad is always answered, even with a second close frame.
HandleClose ==
    /\ Hears
    /\ handled' = handled + 1
    /\ Following.op = Close /\ Fault(Following, OpenNow) = 0
    /\ session' = "closing"
    /\ answers' = IF session = "open" \/ ~GoodClose(Following.payload)
                  THEN Append(answers, CloseAnswer(AckCode(Following.payload)))
                  ELSE answers
    /\ UNCHANGED <<sequence, listening, messages>>

\* A fault is answered with its code; nothing is heard any more.
HandleFault ==
    /\ Hears
    /\ listening' = FALSE
    /\ Fault(Following, OpenNow) # 0
    /\ IF session = "open"
       THEN /\ session' = "closing"
            /\ answers' = Append(answers, CloseAnswer(Fault(Following, OpenNow)))
       ELSE session' = "closed" /\ UNCHANGED answers
    /\ UNCHANGED <<sequence, handled, messages>>

\* The program sends a message or closes.
Says ==
    /\ session = "open"
    /\ Len(answers') = Len(answers) + 1 /\ IsPrefix(answers, answers')
    /\ \/ /\ Last(answers').op \in {1, 2}
          /\ Last(answers').op = 1 => WellFormed(Last(answers').payload)
          /\ UNCHANGED session
       \/ /\ Last(answers').op = Close
          /\ Sendable(Last(answers').payload[1])
          /\ session' = "closing"
    /\ UNCHANGED <<sequence, handled, listening, messages>>

SessionNext ==
    Open \/ Refused \/ HandleData \/ HandlePingPong \/ HandleClose \/ HandleFault
    \/ Says

SessionSpec == SessionInit /\ [][SessionNext]_sessionVars
=============================================================================
