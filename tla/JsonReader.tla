----------------------------- MODULE JsonReader -----------------------------
(***************************************************************************)
(* rapidjson's two parsers (reader.h) with the handler that builds the     *)
(* document (document.h): the recursive one, which both programs use, and  *)
(* the one with an explicit stack, which must give the same.               *)
(*                                                                         *)
(* A parser's state is a record: p, where the stream stands; err and at,   *)
(* the parse result; vals, the document's stack of values.  A value has    *)
(* the parts its kind needs; those of an object are its members, a name    *)
(* and a value in turn, the way they lie in memory.                        *)
(***************************************************************************)
EXTENDS JsonText, SequencesExt

NoNumber == Number("none", FALSE, 0, 0)
Scalar(kind) == [kind |-> kind, chars |-> <<>>, num |-> NoNumber, parts |-> <<>>]
StringValue(s) == [Scalar("String") EXCEPT !.chars = s]
NumberValue(n) == [Scalar("Number") EXCEPT !.num = n]
Compound(kind, parts) == [Scalar(kind) EXCEPT !.parts = parts]

White == {32, 10, 13, 9}

RECURSIVE SkipWhitespace(_, _)
SkipWhitespace(t, p) ==
    IF Peek(t, p) \in White THEN SkipWhitespace(t, p + 1) ELSE p

Ok(m) == m.err = None
Fail(m, code) == [m EXCEPT !.err = code, !.at = m.p - 1]
Take(m) == [m EXCEPT !.p = @ + 1]
SkipSpace(t, m) == [m EXCEPT !.p = SkipWhitespace(t, @)]

\* RAPIDJSON_PARSE_ERROR_EARLY_RETURN_VOID.
Then(m, Continue(_)) == IF Ok(m) THEN Continue(m) ELSE m

-----------------------------------------------------------------------------
(* The handler.                                                            *)

Push(m, v) == [m EXCEPT !.vals = Append(@, v)]

\* Mistake: the elements of an array are counted as those of an object are.
PopDoubled(m, kind, n) ==
    LET size == Len(m.vals) - 2 * n
    IN [m EXCEPT !.vals = Append(SubSeq(@, 1, size - 1),
                                 Compound(kind, SubSeq(@, size + 1, Len(@))))]

\* EndObject, EndArray: the value under the n values on top takes them.
Pop(m, kind, n) ==
    LET size == Len(m.vals) - n
    IN [m EXCEPT !.vals = Append(SubSeq(@, 1, size - 1),
                                 Compound(kind, SubSeq(@, size + 1, Len(@))))]

EndObject(m, members) == Pop(m, "Object", 2 * members)
EndArray(m, elements) == Pop(m, "Array", elements)

-----------------------------------------------------------------------------
(* ParseValue and what it calls.                                           *)

\* A scalar's end: the value, or the error.
Scanned(m, r, v) ==
    IF r.err # None THEN [m EXCEPT !.err = r.err, !.at = r.at]
    ELSE Push([m EXCEPT !.p = r.p], v)

StringAt(t, m) == LET r == ParseString(t, m.p)
                  IN Scanned(m, r, StringValue(r.out))

NumberAt(t, m) == LET r == ParseNumber(t, m.p)
                  IN Scanned(m, r, IF r.err = None THEN NumberValue(r.out)
                                                   ELSE Scalar("Null"))

\* ParseNull, ParseTrue, ParseFalse: the letters behind the first one.
LiteralAt(t, m, rest, kind) ==
    LET same(k) == Peek(t, m.p + k) = rest[k]
        last == Len(rest)
    IN IF \A k \in 1..last : same(k)
       THEN Push([m EXCEPT !.p = @ + last + 1], Scalar(kind))
       ELSE LET bad == CHOOSE k \in 1..last : ~same(k) /\ \A j \in 1..(k - 1) : same(j)
            IN Fail([m EXCEPT !.p = @ + bad], "ValueInvalid")

RECURSIVE ParseValue(_, _), Members(_, _, _), Elements(_, _, _)

\* The loop of ParseObject, in front of a member.
Members(t, m, count) ==
    IF Peek(t, m.p) # 34 THEN Fail(m, "ObjectMissName")
    ELSE Then(StringAt(t, m), LAMBDA k :
         LET colon == SkipSpace(t, k) IN
         IF Peek(t, colon.p) # 58 THEN Fail(colon, "ObjectMissColon")
         ELSE Then(ParseValue(t, SkipSpace(t, Take(colon))), LAMBDA v :
              LET end == SkipSpace(t, v) IN
              CASE Peek(t, end.p) = 44 ->
                       Members(t, SkipSpace(t, Take(end)), count + 1)
                [] Peek(t, end.p) = 125 -> EndObject(Take(end), count + 1)
                [] OTHER -> Fail(end, "ObjectMissCommaOrCurlyBracket")))

\* The loop of ParseArray, in front of an element.
Elements(t, m, count) ==
    Then(ParseValue(t, m), LAMBDA v :
         LET end == SkipSpace(t, v) IN
         CASE Peek(t, end.p) = 44 -> Elements(t, SkipSpace(t, Take(end)), count + 1)
           [] Peek(t, end.p) = 93 -> EndArray(Take(end), count + 1)
           [] OTHER -> Fail(end, "ArrayMissCommaOrSquareBracket"))

ParseObject(t, m) ==
    LET in == SkipSpace(t, Push(Take(m), Compound("Object", <<>>)))
    IN IF Peek(t, in.p) = 125 THEN EndObject(Take(in), 0) ELSE Members(t, in, 0)

ParseArray(t, m) ==
    LET in == SkipSpace(t, Push(Take(m), Compound("Array", <<>>)))
    IN IF Peek(t, in.p) = 93 THEN EndArray(Take(in), 0) ELSE Elements(t, in, 0)

ParseValue(t, m) ==
    LET c == Peek(t, m.p)
    IN CASE c = 110 -> LiteralAt(t, m, <<117, 108, 108>>, "Null")
         [] c = 116 -> LiteralAt(t, m, <<114, 117, 101>>, "True")
         [] c = 102 -> LiteralAt(t, m, <<97, 108, 115, 101>>, "False")
         [] c = 34  -> StringAt(t, m)
         [] c = 123 -> ParseObject(t, m)
         [] c = 91  -> ParseArray(t, m)
         [] OTHER   -> NumberAt(t, m)

Start == [p |-> 1, err |-> None, at |-> 0, vals |-> <<>>]

\* Nothing but white space may follow the root.
RootSingular(t, m) ==
    LET end == SkipSpace(t, m)
    IN IF Peek(t, end.p) # 0 THEN Fail(end, "DocumentRootNotSingular") ELSE end

\* GenericReader::Parse.
Recursive(t) ==
    LET m == SkipSpace(t, Start)
    IN IF Peek(t, m.p) = 0 THEN Fail(m, "DocumentEmpty")
       ELSE Then(ParseValue(t, m), LAMBDA v : RootSingular(t, v))

-----------------------------------------------------------------------------
(* IterativeParse.                                                         *)

\* Tokenize.
Token(c) ==
    CASE c = 91  -> "["  [] c = 93  -> "]"  [] c = 123 -> "{"  [] c = 125 -> "}"
      [] c = 44  -> ","  [] c = 58  -> ":"  [] c = 34  -> "String"
      [] OTHER   -> "Plain"      \* false, true, null and numbers

\* The columns of G for a place where a value may stand.
ValueOr(token, plain, otherwise) ==
    CASE token = "[" -> "ArrayInitial"
      [] token = "{" -> "ObjectInitial"
      [] token \in {"String", "Plain"} -> plain
      [] OTHER -> otherwise

\* Predict: the table G.
Predict(state, token) ==
    CASE state = "Start" -> ValueOr(token, "Value", "Error")
      [] state \in {"ObjectInitial", "MemberDelimiter"} ->
             CASE token = "}"      -> "ObjectFinish"
               [] token = "String" -> "MemberKey"
               [] OTHER            -> "Error"
      [] state = "MemberKey" ->
             IF token = ":" THEN "KeyValueDelimiter" ELSE "Error"
      [] state = "KeyValueDelimiter" -> ValueOr(token, "MemberValue", "Error")
      [] state = "MemberValue" ->
             CASE token = "}" -> "ObjectFinish"
               [] token = "," -> "MemberDelimiter"
               [] OTHER       -> "Error"
      [] state \in {"ArrayInitial", "ElementDelimiter"} ->
             ValueOr(token, "Element",
                     IF token = "]" THEN "ArrayFinish" ELSE "Error")
      [] state = "Element" ->
             CASE token = "]" -> "ArrayFinish"
               [] token = "," -> "ElementDelimiter"
               [] OTHER       -> "Error"
      [] state = "Finish" -> "Error"

\* The state a nested array or object returns to.
ReturnsTo(src) ==
    CASE src \in {"ArrayInitial", "ElementDelimiter"} -> "Element"
      [] src = "KeyValueDelimiter" -> "MemberValue"
      [] OTHER -> src

\* Mistake: the last element is not counted.
CountedShort(scope, src) == scope.count

\* The count on top of the stack, with the last member or element.
Counted(scope, src) ==
    IF src \in {"MemberValue", "Element"} THEN scope.count + 1 ELSE scope.count

\* The parser as a record: the state and the stack of reader.h beside m.
Machine(m, state, stack) == [m |-> m, state |-> state, stack |-> stack]

\* Transit for the closing of an array or an object.
Finish(m, src, stack, kind) ==
    LET scope == Last(stack)
        back == IF scope.state = "Start" THEN "Finish" ELSE scope.state
        n == Counted(scope, src)
    IN CASE src = "MemberDelimiter" ->
                Machine(Fail(m, "ObjectMissName"), "Error", stack)
         [] src = "ElementDelimiter" ->
                Machine(Fail(m, "ValueInvalid"), "Error", stack)
         [] OTHER ->
                Machine(Take(IF kind = "Object" THEN EndObject(m, n)
                                                ELSE EndArray(m, n)),
                        back, Front(stack))

\* Transit.
Transit(t, m, src, dst, stack) ==
    LET scope == [state |-> ReturnsTo(src), count |-> 0]
        kind == IF dst = "ObjectInitial" THEN "Object" ELSE "Array"
        after(r, state) == Machine(r, IF Ok(r) THEN state ELSE "Error", stack)
    IN CASE dst = "Error" -> Machine(m, "Error", stack)
         [] dst \in {"ObjectInitial", "ArrayInitial"} ->
                Machine(Take(Push(m, Compound(kind, <<>>))), dst,
                        Append(stack, scope))
         [] dst = "MemberKey" -> after(StringAt(t, m), dst)
         [] dst = "KeyValueDelimiter" -> Machine(Take(m), dst, stack)
         [] dst \in {"MemberValue", "Element"} -> after(ParseValue(t, m), dst)
         [] dst \in {"MemberDelimiter", "ElementDelimiter"} ->
                Machine(Take(m), dst,
                        [stack EXCEPT ![Len(stack)].count = @ + 1])
         [] dst = "ObjectFinish" -> Finish(m, src, stack, "Object")
         [] dst = "ArrayFinish"  -> Finish(m, src, stack, "Array")
         [] dst = "Value" -> after(ParseValue(t, m), "Finish")

\* HandleError.
HandleError(m, src) ==
    IF ~Ok(m) THEN m
    ELSE Fail(m,
         CASE src = "Start"  -> "DocumentEmpty"
           [] src = "Finish" -> "DocumentRootNotSingular"
           [] src \in {"ObjectInitial", "MemberDelimiter"} -> "ObjectMissName"
           [] src = "MemberKey"   -> "ObjectMissColon"
           [] src = "MemberValue" -> "ObjectMissCommaOrCurlyBracket"
           [] src = "Element"     -> "ArrayMissCommaOrSquareBracket"
           [] OTHER               -> "ValueInvalid")

\* The loop of IterativeParse, and its end of one turn.
RECURSIVE Iterate(_, _), Enter(_, _, _)

Enter(t, src, next) ==
    IF next.state = "Error" THEN HandleError(next.m, src)
    ELSE Iterate(t, [next EXCEPT !.m = SkipSpace(t, @)])

Iterate(t, i) ==
    IF Peek(t, i.m.p) = 0
    THEN IF i.state = "Finish" THEN i.m ELSE HandleError(i.m, i.state)
    ELSE Enter(t, i.state,
               Transit(t, i.m, i.state, Predict(i.state, Token(Peek(t, i.m.p))),
                       i.stack))

Iterative(t) == Iterate(t, Machine(SkipSpace(t, Start), "Start", <<>>))

\* GenericDocument::ParseStream: the one value on the stack, if all is well.
Document(result) == [err |-> result.err, at |-> result.at,
                     value |-> IF Ok(result) THEN result.vals[1]
                                             ELSE Scalar("Null")]
=============================================================================
