------------------------------ MODULE MCDealMsg ------------------------------
(***************************************************************************)
(* dealMsg in its three layers: the session (PushSession), the scan for    *)
(* the parameter sets (NaluScan) and the text (MessagePath).  A behaviour  *)
(* is about one of them; the others stand still.  The layer "text" has no  *)
(* steps: its initial states are the texts that are read.                  *)
(***************************************************************************)
EXTENDS PushSession, NaluScan, JsonSamples

VARIABLES layer, sample      \* which layer; what is read, and how it was made

vars == <<layer, sample, sessionVars, scanVars>>

-----------------------------------------------------------------------------
(* The buffers of the scan: every one of at most two NAL units of the      *)
(* three types that matter, with bodies of up to four bytes and zeros      *)
(* where a start code could be mistaken, and of three units with short     *)
(* bodies; behind nothing or a stray zero, with or without a bare start    *)
(* code at the end; and with memory behind the buffer that is clean or     *)
(* that completes a start code.                                            *)

Code == <<0, 0, 0, 1>>
UnitsOf(bodies) == {Code \o <<t>> \o b : t \in {103, 104, 101}, b \in bodies}
Units == UnitsOf({<<>>, <<9>>, <<0, 0>>, <<9, 0, 1, 9>>})
ShortUnits == UnitsOf({<<>>, <<9, 0, 0>>})
Tails == {<<>>, Code}

MCBuffers ==
    Tails \cup {h \o u \o t : h \in {<<>>, <<0>>}, u \in Units, t \in Tails}
          \cup {u \o v \o t : u, v \in Units, t \in Tails}
          \cup {u \o v \o w : u, v, w \in ShortUnits}

MCJunks == {<<0, 0, 0, 0>>, <<1, 9, 9, 9>>, <<0, 1, 103, 9>>, <<0, 1, 9, 9>>}

MCKeys == {[name |-> B("rtsp_ip"), kind |-> "String"],
           [name |-> B("rtsp_port"), kind |-> "Int"]}

-----------------------------------------------------------------------------
(* Texts of base64, messages and configurations.                           *)

Upto(n, S) == UNION {[1..k -> S] : k \in 0..n}

Base64Samples ==
    [bytes : Upto(4, {0, 1, 77, 250, 255}), text : {<<>>}]
    \cup [bytes : {<<>>}, text : Upto(5, {65, 122, 47, Pad, 45})
                                \cup {<<c, c, c>> : c \in Byte}]

\* What a server sends for two payloads.
Quoted(s) == <<34>> \o s \o <<34>>
Slashed(s) == Joined([i \in DOMAIN s |-> IF s[i] = 47 THEN <<92, 47>> ELSE <<s[i]>>])
Layouts == {"plain", "swapped", "spaced", "nested", "doubled", "slashed", "cut",
            "broken", "listed", "bare", "flat", "typed"}

MessageText(m) ==
    LET e == Quoted(Encode(m.encoding))
        d == Quoted(Encode(m.data))
        head == B("{'op':'publish','msg':{'encoding':")
    IN CASE m.layout = "plain" -> head \o e \o B(",'data':") \o d \o B("}}")
         [] m.layout = "swapped" ->
              B("{'msg':{'data':") \o d \o B(",'encoding':") \o e \o B("},'op':1}")
         [] m.layout = "spaced" ->
              B("  { 'msg' : { 'encoding' : ") \o e \o <<10>> \o B(", 'data' :")
              \o d \o B(" } } ")
         [] m.layout = "nested" ->
              B("{'x':{'msg':{'data':[]}},'msg':{'y':{'data':{}},'encoding':")
              \o e \o B(",'data':") \o d \o B("}}")
         [] m.layout = "doubled" ->
              head \o e \o B(",'data':") \o d
              \o B(",'data':'eeee','encoding':null},'msg':0}")
         [] m.layout = "slashed" ->
              head \o Slashed(e) \o B(",'data':") \o Slashed(d) \o B("}}")
         [] m.layout = "cut" ->
              head \o Quoted(Encode(m.encoding) \o B("\\u0000AAAA"))
              \o B(",'data':") \o Quoted(Encode(m.data) \o B("\\u0000")) \o B("}}")
         [] m.layout = "broken" -> head \o e \o B(",'data':") \o d \o B("}")
         [] m.layout = "listed" -> B("[") \o head \o e \o B("}}]")
         [] m.layout = "bare" -> B("{'Msg':{'encoding':") \o e \o B("}}")
         [] m.layout = "flat" -> B("{'msg':") \o e \o B("}")
         [] m.layout = "typed" -> B("{'msg':{'encoding':[") \o e \o B("],'data':null}}")

PayloadSamples ==
    [encoding : {<<0, 0, 0, 1>>, [i \in 1..11 |-> 255], [i \in 1..12 |-> 250],
                 [i \in 1..13 |-> i]},
     data : {<<>>, <<255>>, <<0, 0, 0, 1, 101, 255>>}, layout : Layouts]

\* Stations with up to three members, and what stands for one and is none.
Entry(text, field, value) == [text |-> B(text), field |-> field, value |-> value]
Aborts == [aborts |-> TRUE]
Entries == {Entry("'rtsp_ip':'h'", "rtsp_ip", [string |-> B("h")]),
            Entry("'rtsp_ip':'i\\u0000j'", "rtsp_ip", [string |-> B("i")]),
            Entry("'rtsp_port\\u0000x':15", "rtsp_port", [int |-> 15]),
            Entry("'rtsp_port':-16", "rtsp_port", [int |-> -16]),
            Entry("'rtsp_port':16", "rtsp_port", Aborts),
            Entry("'rtsp_port':-17", "rtsp_port", Aborts),
            Entry("'rtsp_ip':8", "rtsp_ip", Aborts),
            Entry("'rtsp_por':{}", "none", NoValue)}

NoStation == <<Entry("5", "number", NoValue)>>

StationText(s) == IF s = NoStation THEN B("5")
                  ELSE B("{") \o Joined([i \in DOMAIN s |->
                           (IF i = 1 THEN <<>> ELSE B(",")) \o s[i].text]) \o B("}")

Around == {"streams", "marked", "halfMarked", "noStreams", "listed", "notObject",
           "broken"}

ConfigText(c) ==
    LET station(i) == (IF i = 1 THEN <<>> ELSE B(",")) \o B("'s':")
                      \o StationText(c.stations[i])
        inner == B("{") \o Joined([i \in DOMAIN c.stations |-> station(i)]) \o B("}")
        whole == B("{'streams':") \o inner \o B("}")
    IN CASE c.around = "streams"    -> whole
         [] c.around = "marked"     -> <<239, 187, 191>> \o whole
         [] c.around = "halfMarked" -> <<239>> \o whole
         [] c.around = "noStreams"  -> B("{'stream':") \o inner \o B("}")
         [] c.around = "listed"     -> B("{'streams':[") \o inner \o B("]}")
         [] c.around = "notObject"  -> B("[") \o inner \o B("]")
         [] c.around = "broken"     -> whole \o B(",")

ConfigSamples ==
    [stations : Upto(2, {NoStation} \cup Upto(2, Entries)), around : {"streams"}]
    \cup [stations : Upto(2, {NoStation} \cup Upto(1, Entries)), around : Around]

-----------------------------------------------------------------------------

ScanIdle == /\ data = <<>> /\ junk = <<0, 0, 0, 0>> /\ pbgn = 0 /\ pend = 0
            /\ sps = <<>> /\ pps = <<>> /\ scanPC = "done"

Init ==
    /\ SessionInit
    /\ \/ layer = "session" /\ sample = <<>> /\ ScanIdle
       \/ layer = "scan" /\ sample = <<>> /\ ScanInit
       \/ layer = "tokens" /\ sample \in TokenSamples /\ ScanIdle
       \/ layer = "string" /\ sample \in StringSamples /\ ScanIdle
       \/ layer = "number" /\ sample \in NumberSamples /\ ScanIdle
       \/ layer = "base64" /\ sample \in Base64Samples /\ ScanIdle
       \/ layer = "payload" /\ sample \in PayloadSamples /\ ScanIdle
       \/ layer = "config" /\ sample \in ConfigSamples /\ ScanIdle

Next ==
    \/ /\ layer = "session"
       /\ \E m \in Messages :
            \/ DealNothing(m)
            \/ DealAborts(m)
            \/ \E created \in BOOLEAN : DealMsg(m, created)
       /\ UNCHANGED <<layer, sample, scanVars>>
    \/ /\ layer = "scan"
       /\ NoMoreNal \/ TakeNal \/ TakeThrows \/ LoopEnds
       /\ UNCHANGED <<layer, sample, sessionVars>>

Spec == Init /\ [][Next]_vars /\ WF_vars(Next)

-----------------------------------------------------------------------------
(* Properties of the text layer.                                           *)

\* A text is accepted if and only if the grammar has it, and the document is
\* the one it stands for: the counts the parser hands the handler take just
\* the values of their own object or array from its stack.
ReadsJson ==
    layer = "tokens" =>
        LET meant == {g \in Generated[Len(sample.tokens)] : g.tokens = sample.tokens}
            MeantBy(doc) == /\ doc.err = None <=> meant # {}
                            /\ \A g \in meant : g.parts = <<doc.value>>
        IN MeantBy(Document(Recursive(TextOf(sample.tokens, sample.space))))

\* The parser with a stack of its own takes the same texts, builds the same
\* document, and refuses the others with the same error at the same place;
\* but that it calls a text empty that starts with a token no value starts
\* with.
ParsersAgree ==
    layer = "tokens" =>
        LET text == TextOf(sample.tokens, sample.space)
            Agree(recursive, iterative) ==
                IF sample.tokens # <<>>
                   /\ Head(sample.tokens) \in {"]", "}", ",", ":"}
                THEN /\ recursive.at = iterative.at
                     /\ recursive.err = "ValueInvalid"
                     /\ iterative.err = "DocumentEmpty"
                ELSE recursive = iterative
        IN Agree(Document(Recursive(text)), Document(Iterative(text)))

Utf == INSTANCE Utf8

\* A string's characters arrive as they were written, escapes of any kind and
\* pairs of surrogates included, up to the first error, which is reported as
\* what it is; and what arrives is UTF-8 unless the second half of a pair
\* stood alone, which is no error to this parser.
StringsExact ==
    layer = "string" =>
        LET text == <<34>> \o StringText(sample) \o <<34>>
            read == ParseString(text, 1)
            errs == {i \in DOMAIN sample : sample[i].err # None}
        IN IF errs = {}
           THEN /\ read.err = None /\ read.p = Len(text) + 1
                /\ read.out = Joined([i \in DOMAIN sample |-> sample[i].bytes])
                /\ Utf!Validate(read.out) <=> LoneLow \notin Range(sample)
           ELSE read.err = sample[Min(errs)].err

\* A number of digits that fit keeps its value to the last digit and is of
\* the narrowest kind that holds it; of a fraction only digits behind the
\* precision of a double are lost.  It is refused only if it has no digits
\* where it needs some, or if it is too big.
NumbersExact ==
    layer = "number" =>
        LET n == sample
            read == ParseNumber(NumberText(n), 1)
            mag == read.out.mag
            lost == read.out.pow - ExactPow(n)
            int == Nat10(n.int)
            exp == Nat10(ExpDigits(n))
            limit(half) == IF n.minus THEN half ELSE 2 * half - 1
        IN CASE n.int = <<>> -> read.err = "ValueInvalid"
             [] n.int # <<>> /\ n.frac = <<46>> ->
                  read.err \in {"NumberMissFraction", "NumberTooBig"}
             [] OTHER ->
                  IF n.exp # <<>> /\ ExpDigits(n) = <<>>
                  THEN read.err \in {"NumberMissExponent", "NumberTooBig"}
                  ELSE /\ read.err # None =>
                            /\ read.err = "NumberTooBig"
                            /\ \/ int > limit(LongHalf) /\ 10 * (int \div 10) >= DoubleMax - 10
                               \/ ~ExpMinus(n) /\ exp > MaxExp
                       /\ read.err = None =>
                            /\ read.p = Len(NumberText(n)) + 1
                            /\ read.out.minus = n.minus
                            /\ \/ ExpMinus(n) /\ exp >= IntHalf
                               \/ lost >= 0 /\ mag = ExactMag(n) \div Pow10(lost)
                            /\ lost > 0 /\ ~ExpMinus(n) => mag >= Mantissa
                            /\ n.frac \o n.exp = <<>> =>
                                 read.out.kind =
                                   CASE int <= limit(IntHalf) ->
                                          IF n.minus THEN "Int" ELSE "Uint"
                                     [] int \in (limit(IntHalf) + 1)..limit(LongHalf) ->
                                          IF n.minus THEN "Int64" ELSE "Uint64"
                                     [] OTHER -> "Double"

\* Base64 by groups is base64 by bits, whole groups or not, padded or not, up
\* to the first character that is none; and what the one writes the other
\* reads.
Base64Exact ==
    layer = "base64" =>
        /\ Encode(sample.bytes) = RefEncode64(sample.bytes)
        /\ Decode64(sample.text) = RefDecode64(sample.text)
        /\ Decode64(Encode(sample.bytes)) = sample.bytes

\* The two payloads a server sends are the bytes dealMsg gets, wherever in
\* the message they stand, whatever stands beside, behind or inside; only an
\* "encoding" of less than ten bytes is not looked at.  A text that lacks one
\* of them is told from one that has it in another kind, since only the
\* former ends the process.
PayloadArrives ==
    layer = "payload" =>
        LET Arrives(m) ==
              CASE sample.layout = "broken" -> m.json = "error"
                [] sample.layout = "listed" -> m.json = "notObject"
                [] sample.layout = "bare"   -> m.json = "noMsg"
                [] sample.layout = "flat"   ->
                     /\ m.json = "object"
                     /\ m.encoding.kind = "absent" /\ m.data.kind = "absent"
                [] sample.layout = "typed"  ->
                     /\ m.json = "object"
                     /\ m.encoding.kind = "notString" /\ m.data.kind = "notString"
                [] OTHER ->
                     /\ m.json = "object"
                     /\ m.data = [kind |-> "decoded", bytes |-> sample.data]
                     /\ IF Len(sample.encoding) < 10
                        THEN m.encoding.kind = "short"
                        ELSE m.encoding = [kind |-> "decoded",
                                           bytes |-> sample.encoding]
        IN Arrives(MessageOf(MessageText(sample)))

\* The configuration gives one node for every station that is an object, in
\* their order, each with the last value of every field it names; a text
\* that is no document of that form gives none, and a value of another kind,
\* or a port no int holds, ends the process whatever stands around it.
ConfigLoads ==
    layer = "config" =>
        LET stations == SelectSeq(sample.stations, LAMBDA s : s # NoStation)
            entries == UNION {Range(stations[i]) : i \in DOMAIN stations}
            given(s, f) == SelectSeq(s, LAMBDA e : e.field = f)
            value(s, f) == IF given(s, f) = <<>> THEN NoValue
                           ELSE Last(given(s, f)).value
            Loads(load) ==
              CASE sample.around \in {"noStreams", "listed", "broken"} ->
                     load.returns = "false"
                [] sample.around = "notObject" -> load.returns = "aborts"
                [] OTHER ->
                   IF \E e \in entries : e.value = Aborts
                   THEN load.returns = "aborts"
                   ELSE /\ load.returns = "true" /\ Len(load.nodes) = Len(stations)
                        /\ \A i \in DOMAIN stations :
                             load.nodes[i] =
                               [client_name |-> B("s"),
                                fields |-> [k \in Keys |->
                                  value(stations[i], IF k.kind = "Int"
                                                     THEN "rtsp_port"
                                                     ELSE "rtsp_ip")]]
        IN Loads(LoadJson(ConfigText(sample)))
=============================================================================
