----------------------------- MODULE MessagePath -----------------------------
(***************************************************************************)
(* What the programs make of a JSON text: the first half of                *)
(* easy_client::dealMsg, which takes two payloads out of a message, and    *)
(* loadJson, which takes the streams out of the configuration.  Both read  *)
(* the document with lookups whose assertions end the process.             *)
(***************************************************************************)
EXTENDS JsonReader, Base64

CONSTANT Keys          \* the fields loadJson knows, each with its name and
                       \* its kind, "String" or "Int"

\* What a std::string made of GetString() holds: the characters up to the
\* first zero.
CString(s) ==
    IF Contains(s, 0) THEN SubSeq(s, 1, SelectInSeq(s, LAMBDA c : c = 0) - 1)
                      ELSE s

\* FindMember: the places of the values under a name, whole and with zeros.
Named(v, name) == {i \in DOMAIN v.parts : i % 2 = 0 /\ v.parts[i - 1].chars = name}

\* Mistake: of two members with one name the last one counts.
MemberLast(v, name) ==
    v.parts[CHOOSE i \in Named(v, name) : \A j \in Named(v, name) : j <= i]

\* operator[]: of the members with one name, the first.
Member(v, name) ==
    v.parts[CHOOSE i \in Named(v, name) : \A j \in Named(v, name) : i <= j]

-----------------------------------------------------------------------------
(* dealMsg.                                                                *)

msg == <<109, 115, 103>>
encoding == <<101, 110, 99, 111, 100, 105, 110, 103>>
data_ == <<100, 97, 116, 97>>

\* A member of "msg": operator[] asserts that "msg" is an object that has it.
Payload(v, name) ==
    IF v.kind # "Object" \/ Named(v, name) = {} THEN [kind |-> "absent", bytes |-> <<>>]
    ELSE LET s == Member(v, name)
         IN IF s.kind = "String" THEN [kind |-> "string", bytes |-> CString(s.chars)]
            ELSE [kind |-> "notString", bytes |-> <<>>]

Decoded(payload) ==
    IF payload.kind = "string"
    THEN [kind |-> "decoded", bytes |-> Decode64(payload.bytes)]
    ELSE payload

NoPayload == [kind |-> "absent", bytes |-> <<>>]

\* What dealMsg takes a text for, and "encoding" and "data" should they be
\* asked for (PushSession says when).
NoMessage(json) == [json |-> json, encoding |-> NoPayload, data |-> NoPayload]

\* An "encoding" of less than 16 characters is not decoded.
EncodingOf(e) ==
    IF e.kind = "string" /\ Len(e.bytes) < 16
    THEN [kind |-> "short", bytes |-> <<>>] ELSE Decoded(e)

PayloadsOf(v) ==
    [json |-> "object", encoding |-> EncodingOf(Payload(v, encoding)),
     data |-> Decoded(Payload(v, data_))]

DealtDocument(doc) ==
    IF doc.err # None THEN NoMessage("error")
    ELSE IF doc.value.kind # "Object" THEN NoMessage("notObject")
    ELSE IF Named(doc.value, msg) = {} THEN NoMessage("noMsg")
    ELSE PayloadsOf(Member(doc.value, msg))

\* dealMsg up to the scan and to the frame.
MessageOf(text) == DealtDocument(Document(Recursive(text)))

-----------------------------------------------------------------------------
(* loadJson.                                                               *)

\* TakeBOM: as much of a byte order mark as there is, is passed over.
WithoutMark(t) ==
    CASE Peek(t, 1) # 239 -> t
      [] Peek(t, 1) = 239 /\ Peek(t, 2) # 187 -> SubSeq(t, 2, Len(t))
      [] Peek(t, 1) = 239 /\ Peek(t, 2) = 187 ->
             SubSeq(t, IF Peek(t, 3) = 191 THEN 4 ELSE 3, Len(t))

\* The field a member's name stands for, if any.
Key(k) == {f \in Keys : f.name = CString(k.chars)}

\* GetInt asserts a value that an int can hold.
HoldsInt(v) ==
    /\ v.kind = "Number"
    /\ \/ v.num.kind = "Int"
       \/ v.num.kind = "Uint" /\ v.num.mag < IntHalf

\* Whether GetString or GetInt gets past its assertion.
Readable(f, v) == IF f.kind = "Int" THEN HoldsInt(v) ELSE v.kind = "String"

NoValue == [field |-> "unset"]      \* a string is empty, an int has no value

FieldOf(f, v) ==
    IF f.kind = "Int" THEN [int |-> IF v.num.minus THEN - v.num.mag ELSE v.num.mag]
                      ELSE [string |-> CString(v.chars)]

\* The members of a station that name a field, as pairs of places.
Fields(station) == {i \in DOMAIN station.parts :
                        i % 2 = 0 /\ Key(station.parts[i - 1]) # {}}

StationReadable(station) ==
    \A i \in Fields(station) :
        \A f \in Key(station.parts[i - 1]) : Readable(f, station.parts[i])

\* Mistake: of two members with one name the first counts.
LastAssignedFirst(S) == CHOOSE i \in S : \A j \in S : i <= j

\* Every member is assigned as it comes: the last one stays.
LastAssigned(S) == CHOOSE i \in S : \A j \in S : j <= i

\* A StreamNode.
NodeOf(name, station) ==
    [client_name |-> CString(name),
     fields |-> [f \in Keys |->
        LET given == {i \in Fields(station) : f \in Key(station.parts[i - 1])}
        IN IF given = {} THEN NoValue
           ELSE FieldOf(f, station.parts[LastAssigned(given)])]]

streamsName == <<115, 116, 114, 101, 97, 109, 115>>

\* The stations: the members that are objects; others are passed over.
IsStation(streams, i) == streams.parts[i].kind = "Object"

Stations(streams) ==
    SelectSeq([i \in 1..(Len(streams.parts) \div 2) |-> 2 * i],
              LAMBDA i : IsStation(streams, i))

\* What loadJson makes of a document: "aborts" where an assertion fails,
\* "false", or "true" with the nodes.
Loaded(r, nodes) == [returns |-> r, nodes |-> nodes]

LoadStreams(streams, stations) ==
    IF \E i \in Range(stations) : ~StationReadable(streams.parts[i])
    THEN Loaded("aborts", <<>>)
    ELSE Loaded("true", [n \in DOMAIN stations |->
             NodeOf(streams.parts[stations[n] - 1].chars,
                    streams.parts[stations[n]])])

LoadDocument(doc) ==
    IF doc.err # None THEN Loaded("false", <<>>)
    ELSE IF doc.value.kind # "Object" THEN Loaded("aborts", <<>>)
    ELSE IF Named(doc.value, streamsName) = {} THEN Loaded("false", <<>>)
    ELSE LET streams == Member(doc.value, streamsName)
         IN IF streams.kind # "Object" THEN Loaded("false", <<>>)
            ELSE LoadStreams(streams, Stations(streams))

\* loadJson of a file's text.
LoadJson(text) == LoadDocument(Document(Recursive(WithoutMark(text))))
=============================================================================
