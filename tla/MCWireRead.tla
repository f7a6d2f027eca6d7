---------------------------- MODULE MCWireRead ----------------------------
(* What the server sends:
     - every kind of answer, good and bad, cut into reads anywhere;
     - a good answer and up to three frames of every kind, the frames cut
       anywhere; with a few of these, the program sends or closes meanwhile;
     - a good answer and one text, each that the validator can tell from
       another, read at once. *)
EXTENDS WireRead

GoodAnswer == <<Status101, Upgrade, Connection, AcceptKey>>

Answers ==
    {GoodAnswer, <<>>,
     <<Status404, Upgrade, Connection, AcceptKey>>, <<StatusBad>>,
     <<Status101, AcceptKey, Connection, Upgrade>>,
     <<Status101, Upgrade, Connection>>, <<Status101, Upgrade, AcceptKey>>,
     <<Status101, Connection, AcceptKey>>,
     <<Status101, Upgrade, Connection, AcceptOther>>,
     <<Status101, Upgrade, Connection, AcceptKey, AcceptKey>>,
     <<Status101, Upgrade, Upgrade, Connection, AcceptKey>>,
     <<Status101, Upgrade, NoColon>>, <<Status101, BadName>>,
     <<Status404, Length2>>, <<Status101, LengthBad>>,
     <<Status101, Upgrade, Connection, AcceptKey, Length2>>,
     <<Status101, Length2, LengthBad, Upgrade, Connection, AcceptKey>>,
     <<Status101, LengthBad, Length2, Upgrade, Connection, AcceptKey>>,
     <<Upgrade, Connection, AcceptKey>>}

Frame(op, fin, payload) ==
    [op |-> op, fin |-> fin, rsv |-> 0, masked |-> FALSE, width |-> 7,
     size |-> Len(payload), payload |-> payload]

\* C3 A9 is one character of two bytes.
Pieces1 == {Frame(op, fin, t) : op \in {TEXT, CONTINUATION}, fin \in BOOLEAN,
                                t \in {<<>>, <<195>>, <<169>>}}
Pings == {Frame(PING, TRUE, <<>>), Frame(PING, TRUE, <<1, 2, 3, 4, 5>>)}
Long == [i \in 1..126 |-> 97]
Others ==
    {Frame(BINARY, TRUE, <<255>>), Frame(BINARY, FALSE, <<255, 0>>),
     Frame(PONG, TRUE, <<7>>),
     Frame(CLOSE, TRUE, <<>>), Frame(CLOSE, TRUE, <<3>>),
     Frame(CLOSE, TRUE, <<3, 232>>), Frame(CLOSE, TRUE, <<3, 236, 104>>),
     Frame(CLOSE, TRUE, <<19, 136>>), Frame(CLOSE, TRUE, <<3, 233, 195>>)}
BadFrames ==
    {[Frame(TEXT, TRUE, <<97>>) EXCEPT !.rsv = 4],
     [Frame(BINARY, TRUE, <<97>>) EXCEPT !.rsv = 1],
     [Frame(TEXT, TRUE, <<97>>) EXCEPT !.masked = TRUE],
     [Frame(TEXT, TRUE, <<97>>) EXCEPT !.width = 16],
     [Frame(BINARY, TRUE, <<97>>) EXCEPT !.width = 64],
     Frame(PING, FALSE, <<1>>),
     Frame(3, TRUE, <<>>), Frame(11, TRUE, <<>>)}
\* Frames of which only the header comes.
Headers ==
    {[Frame(BINARY, TRUE, <<>>) EXCEPT !.width = 64, !.size = n] :
         n \in {65536, 16777216, 1073741823}}
    \cup {[Frame(PING, TRUE, <<>>) EXCEPT !.width = 16, !.size = 126]}
    \cup {[Frame(op, TRUE, <<>>) EXCEPT !.width = 16, !.size = n] :
              op \in {CONTINUATION, BINARY}, n \in {126, 127, 128}}
GoodFrames == Pieces1 \cup Pings \cup Others

FewFrames == {Frame(TEXT, FALSE, <<195>>), Frame(CONTINUATION, TRUE, <<169>>),
              Frame(CONTINUATION, TRUE, <<>>), Frame(PING, TRUE, <<9>>),
              Frame(BINARY, FALSE, <<255, 0>>), Frame(CLOSE, TRUE, <<>>)}

Sessions == {<<f>> : f \in GoodFrames \cup BadFrames \cup Headers}
            \cup (GoodFrames \X GoodFrames)
            \cup (FewFrames \X (BadFrames \cup Headers))
            \cup (FewFrames \X FewFrames \X FewFrames)

\* The bytes at which the validator's classes change, and every sequence of
\* them that is a character's beginning and one byte more.
ByteBounds == {0, 127, 128, 143, 144, 159, 160, 191, 192, 193, 194, 223, 224, 225,
               236, 237, 238, 239, 240, 241, 243, 244, 245, 255}
Beginnings ==
    LET leads == {194, 223, 224, 225, 236, 237, 238, 239, 240, 241, 243, 244}
    IN {<<>>} \cup {<<b>> : b \in leads}
       \cup {c \in leads \X TrailBounds : ~WellFormed(c) /\ Completable(c)}
       \cup {c \in leads \X TrailBounds \X TrailBounds :
               ~WellFormed(c) /\ Completable(c)}
Texts == {Append(c, b) : c \in Beginnings, b \in ByteBounds}
         \cup ({224, 225, 237, 239} \X TrailBounds \X TrailBounds)
         \cup ({240, 241, 244} \X TrailBounds \X TrailBounds \X TrailBounds)

SmallSessions == {<<>>, <<Frame(PING, TRUE, <<9>>)>>,
                  <<Frame(TEXT, TRUE, <<97>>), Frame(CLOSE, TRUE, <<3, 232>>)>>,
                  <<Frame(CLOSE, TRUE, <<3>>), Frame(BINARY, TRUE, <<>>)>>}

Saying(op, payload) == [op |-> op, payload |-> payload]
Programs == {<<Saying(TEXT, <<97>>)>>, <<Saying(TEXT, <<195>>)>>,
             <<[op |-> CLOSE, code |-> 1001], Saying(BINARY, <<>>)>>}

MCKeys == {<<90, 255, 1, 128>>, <<0, 0, 0, 0>>}

MCInit ==
    /\ \/ /\ answer \in Answers
          /\ frames \in {<<>>, <<Frame(TEXT, TRUE, <<97>>)>>}
          /\ program = <<>>
          /\ cutFrom = 0
       \/ /\ answer = GoodAnswer
          /\ \/ frames \in Sessions /\ program = <<>>
             \/ frames \in SmallSessions /\ program \in Programs
             \/ frames = <<>> /\ program = <<Saying(BINARY, Long)>>
          /\ cutFrom = Len(AnswerBytes(GoodAnswer))
       \/ /\ answer = GoodAnswer
          /\ frames \in {<<Frame(TEXT, TRUE, t)>> : t \in Texts}
                        \cup {<<[Frame(BINARY, TRUE, Long) EXCEPT !.width = 16]>>}
          /\ program = <<>>
          /\ cutFrom = Len(AnswerBytes(GoodAnswer)) + Len(FrameBytes(frames[1]))
    /\ WireInit /\ Orderly

MCSpec == MCInit /\ [][WireNext]_wireVars
=============================================================================
