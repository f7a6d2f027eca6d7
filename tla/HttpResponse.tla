--------------------------- MODULE HttpResponse ---------------------------
(***************************************************************************)
(* The client's parser of the server's answer to its handshake             *)
(* (http/impl/response.hpp, http/impl/parser.hpp), one line a step, and    *)
(* hybi13's judgement of the answer.                                       *)
(*                                                                         *)
(* The answer is a sequence of symbols: 13 and 10 are themselves, and each *)
(* of the constants below is what is on one line, so a line is as long as  *)
(* the number of symbols on it.  The parser keeps the bytes it has not     *)
(* finished in m_buf; here they are input's from lineStart on.             *)
(***************************************************************************)
EXTENDS Integers, Sequences, FiniteSets, FiniteSetsExt

CONSTANT MaxHeader           \* max_header_size

ASSUME HttpAssumption == MaxHeader \in Nat

VARIABLES
    input,           \* external: all the server sends
    lim,             \* how much of it has been read from the socket
    p,               \* how much of it has been processed
    httpState,       \* m_state of the response: RESPONSE_LINE, HEADERS, BODY, DONE
    lineStart,       \* where the line being read begins
    headerBytes,     \* m_header_bytes
    lines,           \* the status line and the headers, in the order they came
    bodyLeft,        \* m_read, once the headers are complete
    httpError        \* consume has thrown an exception

httpVars == <<httpState, lineStart, headerBytes, lines, bodyLeft, httpError>>

CR == 13
LF == 10

\* What can be on a line.
Status101 == 1001
Status404 == 1002
StatusBad == 1003            \* no code, or one that is not a number
Upgrade == 1011              \* Upgrade: websocket
Connection == 1012           \* Connection: Upgrade
AcceptKey == 1013            \* Sec-WebSocket-Accept: the digest of our key
AcceptOther == 1014
NoColon == 1015
BadName == 1016              \* a name that is no token
Length2 == 1017              \* Content-Length: 2
LengthBad == 1018            \* Content-Length: not a number

StatusLines == {Status101, Status404}
HeaderLines == {Upgrade, Connection, AcceptKey, AcceptOther, Length2, LengthBad}
Symbols == StatusLines \cup HeaderLines \cup {StatusBad, NoColon, BadName}

HttpInit ==
    /\ httpState = "RESPONSE_LINE"
    /\ lineStart = 0
    /\ headerBytes = 0
    /\ lines = <<>>
    /\ bodyLeft = 0
    /\ httpError = FALSE

\* headers_ready
HeadersReady == httpState \in {"BODY", "DONE"}

\* The ends of lines among the bytes that have been read and not processed.
LineEnds == {e \in lineStart..lim - 2 : input[e + 1] = CR /\ input[e + 2] = LF}

\* sizeof(header_delimiter), which counts the terminating zero.
DelimiterSize == 3

Throws == httpError' = TRUE /\ UNCHANGED <<httpState, lineStart, lines, bodyLeft, p>>

\* Mistake: the bytes that stay in the buffer are not taken off again.
OutOfBytesCountsTwice ==
    /\ LineEnds = {}
    /\ headerBytes' = headerBytes + (lim - lineStart) + DelimiterSize
    /\ IF headerBytes' > MaxHeader
       THEN Throws
       ELSE p' = lim /\ UNCHANGED <<httpState, lineStart, lines, bodyLeft, httpError>>

\* No line is complete: wait for more.
OutOfBytes ==
    /\ LineEnds = {}
    /\ LET counted == headerBytes + (lim - lineStart) + DelimiterSize
       IN IF counted > MaxHeader
          THEN headerBytes' = counted /\ Throws
          ELSE /\ headerBytes' = counted - (lim - lineStart)
               /\ p' = lim
               /\ UNCHANGED <<httpState, lineStart, lines, bodyLeft, httpError>>

\* process: the status line; process_header and append_header: the others.
LineIsGood(line) ==
    line \in {<<s>> : s \in IF httpState = "RESPONSE_LINE" THEN StatusLines
                                                           ELSE HeaderLines}

Line(end) ==
    /\ end > lineStart
    /\ headerBytes' = headerBytes + (end - lineStart) + DelimiterSize
    /\ IF headerBytes' > MaxHeader \/ ~LineIsGood(SubSeq(input, lineStart + 1, end))
       THEN Throws
       ELSE /\ httpState' = "HEADERS"
            /\ lines' = Append(lines, input[end])
            /\ lineStart' = end + 2
            /\ UNCHANGED <<bodyLeft, httpError, p>>

Has(symbol) == \E i \in DOMAIN lines : lines[i] = symbol

\* Content-Length: several values are joined and the first number counts.
LengthFails ==
    \E i \in DOMAIN lines :
        lines[i] = LengthBad /\ \A j \in 1..i - 1 : lines[j] # Length2
ContentLength == IF Has(Length2) THEN 2 ELSE 0

\* The blank line: of the bytes behind it, those are taken that belong to the
\* body as announced; process_body.
BlankLine(end) ==
    /\ end = lineStart
    /\ headerBytes' = headerBytes + DelimiterSize
    /\ IF headerBytes' > MaxHeader \/ httpState = "RESPONSE_LINE" \/ LengthFails
       THEN Throws
       ELSE LET behind == lim - (end + 2)
                body == Min({ContentLength, behind})
            IN /\ httpState' = IF behind > 0 /\ body = ContentLength
                               THEN "DONE" ELSE "BODY"
               /\ p' = end + 2 + body
               /\ bodyLeft' = ContentLength - body
               /\ UNCHANGED <<lineStart, lines, httpError>>

\* One turn of response::consume's loop.
HttpTurn ==
    /\ p < lim
    /\ ~HeadersReady
    /\ ~httpError
    /\ \/ OutOfBytes
       \/ /\ LineEnds # {}
          /\ Line(Min(LineEnds)) \/ BlankLine(Min(LineEnds))
    /\ UNCHANGED <<input, lim>>

\* validate_server_handshake_response
HandshakeValid ==
    /\ Has(Status101)
    /\ Has(Upgrade)
    /\ Has(Connection)
    /\ Has(AcceptKey) /\ ~Has(AcceptOther)
    /\ Cardinality({i \in DOMAIN lines : lines[i] = AcceptKey}) = 1
=============================================================================
