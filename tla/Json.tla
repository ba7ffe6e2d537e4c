-------------------------------- MODULE Json --------------------------------
(***************************************************************************)
(* Reading and writing JSON (jsoncpp/src/lib_json/json_reader.cpp and      *)
(* json_writer.cpp), by which announcements, requests and answers are      *)
(* exchanged.                                                              *)
(*                                                                         *)
(* A document is a sequence of symbols, one for each character that        *)
(* matters to the reader: "SP", "LF", "NUL", and "SOH" for the control     *)
(* characters that have no escape of their own.  The literals true, false  *)
(* and null are one symbol.  Values are pairs of a type and a content; a   *)
(* string is a sequence of symbols, a real number its sign, its whole part *)
(* and the digits behind the point.  Integers have a width, given by the   *)
(* constants.  A real number can have more digits than are written.        *)
(* Comments are skipped: where they are kept is left out, as are the       *)
(* offsets of values, exponents, and numbers that are not finite.          *)
(***************************************************************************)
EXTENDS Texts, JsonValue

CONSTANTS
  RightMargin,      \* rightMargin_ of the styled writers
  RealDigits        \* the digits of a real number that %.16g writes

ASSUME JsonAssumption == RightMargin \in Nat /\ RealDigits \in Nat \ {0}

NullValue == <<"null", 0>>
Array(elements) == <<"array", elements>>
Object(members) == <<"object", members>>
-----------------------------------------------------------------------------
(* Tokens.                                                                 *)

(* getNextChar gives 0 at the end and stays there.                         *)
CharAt(d, p) == IF p <= Len(d) THEN d[p] ELSE "NUL"
After(d, p) == IF p <= Len(d) THEN p + 1 ELSE p

SkipSpaces(d, p) ==
  CHOOSE q \in p .. Len(d) + 1 :
    /\ q <= Len(d) => d[q] \notin {"SP", "LF"}
    /\ \A i \in p .. q - 1 : d[i] \in {"SP", "LF"}

NumberSymbols == DigitSymbols \cup {".", "e", "E", "+", "-"}

NumberEnd(d, p) ==
  CHOOSE q \in p .. Len(d) + 1 :
    /\ q <= Len(d) => d[q] \notin NumberSymbols
    /\ \A i \in p .. q - 1 : d[i] \in NumberSymbols

Token(type, start, limit) == [type |-> type, start |-> start, limit |-> limit]

(* readString: a backslash hides the symbol behind it.                     *)
RECURSIVE StringToken(_, _, _)
StringToken(d, start, p) ==
  CASE p > Len(d) -> Token("error", start, p)
    [] d[p] = "\"" -> Token("string", start, p + 1)
    [] d[p] = "\\" -> StringToken(d, start, After(d, p + 1))
    [] OTHER -> StringToken(d, start, p + 1)

(* readComment: to the end of the line, or to a star and a slash.          *)
CommentToken(d, start, p) ==
  LET ends == {q \in p + 1 .. Len(d) : d[q] = "*" /\ CharAt(d, q + 1) = "/"}
      first == CHOOSE q \in ends : \A r \in ends : q <= r
  IN  CASE CharAt(d, p) = "/" -> Token("comment", start, After(d, FirstIn(d, p + 1, {"LF"})))
        [] CharAt(d, p) = "*" -> IF ends = {} THEN Token("error", start, Len(d) + 1)
                                 ELSE Token("comment", start, first + 2)
        [] OTHER -> Token("error", start, After(d, p))

(* readToken.                                                              *)
ReadToken(d, from) ==
  LET p == SkipSpaces(d, from)
      c == CharAt(d, p)
      after == After(d, p)
  IN  CASE c \in {"{", "}", "[", "]", ",", ":", "true", "false", "null"} -> Token(c, p, after)
        [] c = "\"" -> StringToken(d, p, after)
        [] c = "/" -> CommentToken(d, p, after)
        [] c \in DigitSymbols \cup {"-"} -> Token("number", p, NumberEnd(d, after))
        [] c = "NUL" -> Token("end", p, after)
        [] OTHER -> Token("error", p, after)

RECURSIVE SkipComments(_, _)
SkipComments(d, p) ==
  LET token == ReadToken(d, p)
  IN  IF token.type = "comment" THEN SkipComments(d, token.limit) ELSE token

(* skipCommentTokens.                                                      *)
NextToken(d, p, features) ==
  IF "allowComments" \in features THEN SkipComments(d, p) ELSE ReadToken(d, p)
-----------------------------------------------------------------------------
(* Numbers and strings.                                                    *)

TextOf(d, token) == SubSeq(d, token.start, token.limit - 1)

(* Is it a number: digits, with a sign before them and a point somewhere?  *)
IsReal(text) ==
  LET body == IF Len(text) > 0 /\ text[1] = "-" THEN Tail(text) ELSE text
  IN  /\ \A i \in DOMAIN body : body[i] \in DigitSymbols \cup {"."}
      /\ Cardinality({i \in DOMAIN body : body[i] = "."}) <= 1
      /\ \E i \in DOMAIN body : body[i] \in DigitSymbols

WholeOf(digits) == FoldLeft(LAMBDA n, c : 10 * n + DigitValue(c), 0, digits)

RECURSIVE WithoutZeros(_)
WithoutZeros(digits) ==
  IF digits # <<>> /\ Last(digits) = "0" THEN WithoutZeros(Front(digits)) ELSE digits

RealOf(text) ==
  LET negative == text[1] = "-"
      body == IF negative THEN Tail(text) ELSE text
      point == FirstIn(body, 1, {"."})
  IN  <<"real", <<IF negative THEN <<"-">> ELSE <<>>, WholeOf(SubSeq(body, 1, point - 1)),
                  WithoutZeros(SubSeq(body, point + 1, Len(body)))>> >>

NoValue == <<"none", 0>>

(* sscanf takes the longest beginning that is a number.                    *)
DecodeDouble(text) ==
  LET good == {n \in 1 .. Len(text) : IsReal(SubSeq(text, 1, n))}
      longest == CHOOSE n \in good : \A m \in good : m <= n
  IN  IF good = {} THEN NoValue ELSE RealOf(SubSeq(text, 1, longest))

RECURSIVE IntegerFrom(_, _, _)
IntegerFrom(text, value, max) ==
  IF text = <<>> THEN value
  ELSE LET digit == DigitValue(text[1])
       IN  IF value >= max \div 10
              /\ (value > max \div 10 \/ Len(text) > 1 \/ digit > max % 10)
           THEN -1
           ELSE IntegerFrom(Tail(text), value * 10 + digit, max)

(* decodeNumber: an integer, unless it is too large or has other symbols   *)
(* than digits behind the sign.                                            *)
DecodeNumber(text) ==
  LET negative == text[1] = "-"
      digits == IF negative THEN Tail(text) ELSE text
      max == IF negative THEN -LargestIntMin ELSE LargestUIntMax
      n == IntegerFrom(digits, 0, max)
  IN  IF (\E i \in DOMAIN digits : digits[i] \notin DigitSymbols) \/ n = -1
      THEN DecodeDouble(text)
      ELSE IF negative THEN <<"int", -n>>
      ELSE IF n <= IntMax THEN <<"int", n>> ELSE <<"uint", n>>

(* Escapes: what is written behind a backslash, and what it stands for.    *)
Escaped == [x \in {"\"", "\\", "LF"} |->
              CASE x = "\"" -> "\"" [] x = "\\" -> "\\" [] x = "LF" -> "n"]
Unescaped == [x \in {"\"", "\\", "/", "n"} |-> IF x = "n" THEN "LF" ELSE x]

(* The code points the documents of the model name.                        *)
CharOf(unicode) ==
  CASE unicode = 0 -> "NUL" [] unicode = 1 -> "SOH" [] unicode = 10 -> "LF" [] OTHER -> "other"

(* decodeString: four decimal digits stand for the hexadecimal ones.       *)
RECURSIVE Unquote(_)
Unquote(s) ==
  IF s = <<>> THEN [ok |-> TRUE, text |-> <<>>]
  ELSE LET then(c, rest) == LET r == Unquote(rest)
                            IN  [ok |-> r.ok, text |-> <<c>> \o r.text]
           bad == [ok |-> FALSE, text |-> <<>>]
       IN  CASE s[1] # "\\" -> then(s[1], Tail(s))
             [] s[1] = "\\" /\ Len(s) > 1 /\ s[2] \in DOMAIN Unescaped ->
                  then(Unescaped[s[2]], SubSeq(s, 3, Len(s)))
             [] s[1] = "\\" /\ Len(s) >= 6 /\ s[2] = "u"
                  /\ (\A i \in 3 .. 6 : s[i] \in DigitSymbols) ->
                  then(CharOf(16 * DigitValue(s[5]) + DigitValue(s[6])), SubSeq(s, 7, Len(s)))
             [] OTHER -> bad

(* A value and a name are kept as C strings.                               *)
CString(s) == SubSeq(s, 1, FirstIn(s, 1, {"NUL"}) - 1)

DecodeString(d, token) == Unquote(SubSeq(d, token.start + 1, token.limit - 2))
-----------------------------------------------------------------------------
(* Values.  A reading has the value, where it ended, whether it succeeded, *)
(* and the places of its errors.                                           *)

Reading(value, p, errors) == [value |-> value, at |-> p, errors |-> errors]
Success(value, p) == Reading(value, p, <<>>)

(* recoverFromError skips to the end of the array or the object, or of the *)
(* document.                                                               *)
RECURSIVE SkipUntil(_, _, _)
SkipUntil(d, p, type) ==
  LET token == ReadToken(d, p)
  IN  IF token.type \in {type, "end"} THEN token.limit ELSE SkipUntil(d, token.limit, type)

FailedAt(value, d, p, errors, type) == Reading(value, SkipUntil(d, p, type), errors)

(* The closing brace is taken where a name is expected if no member came   *)
(* before, or one with an empty name.                                      *)
EndsObject(token, name) == token.type = "}" /\ name = <<>>

RECURSIVE ReadValue(_, _, _, _), ReadMembers(_, _, _, _, _), ReadElements(_, _, _, _)

(* readValue; old is what the value was before, kept if there is none.     *)
ReadValue(d, from, old, features) ==
  LET token == NextToken(d, from, features)
      p == token.limit
      text == DecodeString(d, token)
      number == DecodeNumber(TextOf(d, token))
  IN  CASE token.type = "{" -> ReadMembers(d, p, [n \in {} |-> NullValue], <<>>, features)
        [] token.type = "[" ->
             IF CharAt(d, SkipSpaces(d, p)) = "]" THEN Success(Array(<<>>), SkipSpaces(d, p) + 1)
             ELSE ReadElements(d, p, <<>>, features)
        [] token.type = "number" ->
             IF number = NoValue THEN Reading(old, p, <<token.start>>) ELSE Success(number, p)
        [] token.type = "string" ->
             IF text.ok THEN Success(<<"string", CString(text.text)>>, p)
             ELSE Reading(old, p, <<token.start>>)
        [] token.type \in {"true", "false"} -> Success(<<"bool", token.type = "true">>, p)
        [] token.type = "null" -> Success(NullValue, p)
        [] token.type = "," /\ "allowDroppedNullPlaceholders" \in features ->
             Success(NullValue, p - 1)
        [] OTHER -> Reading(old, p, <<token.start>>)

(* readArray, once an element may follow.                                  *)
ReadElements(d, from, elements, features) ==
  LET r == ReadValue(d, from, NullValue, features)
      token == SkipComments(d, r.at)
      got == Append(elements, r.value)
  IN  CASE r.errors # <<>> -> FailedAt(Array(got), d, r.at, r.errors, "]")
        [] r.errors = <<>> /\ token.type = "," -> ReadElements(d, token.limit, got, features)
        [] r.errors = <<>> /\ token.type = "]" -> Success(Array(got), token.limit)
        [] OTHER -> FailedAt(Array(got), d, token.limit, <<token.start>>, "]")

(* readObject, from where a name is expected; before is the last name.     *)
(* Behind a comment anything is taken for a comma.                         *)
ReadMembers(d, from, members, before, features) ==
  LET token == SkipComments(d, from)
      text == DecodeString(d, token)
      name == CString(text.text)
      colon == ReadToken(d, token.limit)
      old == IF name \in DOMAIN members THEN members[name] ELSE NullValue
      r == ReadValue(d, colon.limit, old, features)
      behind == ReadToken(d, r.at)
      comma == SkipComments(d, r.at)
      got == [n \in DOMAIN members \cup {name} |-> IF n = name THEN r.value ELSE members[n]]
      fails(value, p, error) == FailedAt(Object(value), d, p, error, "}")
  IN  CASE EndsObject(token, before) -> Success(Object(members), token.limit)
        [] ~EndsObject(token, before) /\ token.type # "string" ->
             fails(members, token.limit, <<token.start>>)
        [] token.type = "string" /\ ~text.ok -> fails(members, token.limit, <<token.start>>)
        [] token.type = "string" /\ text.ok /\ colon.type # ":" ->
             fails(members, colon.limit, <<colon.start>>)
        [] OTHER ->
             CASE r.errors # <<>> -> fails(got, r.at, r.errors)
               [] r.errors = <<>> /\ comma.type = "}" -> Success(Object(got), comma.limit)
               [] r.errors = <<>> /\ (comma.type = "," \/ (behind.type = "comment" /\ comma.type # "}")) ->
                    ReadMembers(d, comma.limit, got, text.text, features)
               [] OTHER -> fails(got, comma.limit, <<comma.start>>)

(* Reader::parse.  What follows the value is not looked at.                *)
Parse(d, features) ==
  LET r == ReadValue(d, 1, NullValue, features)
  IN  IF "strictRoot" \in features /\ r.value[1] \notin {"array", "object"}
      THEN [r EXCEPT !.errors = Append(@, 1)] ELSE r

AllFeatures == {"allowComments"}
StrictMode == {"strictRoot"}
-----------------------------------------------------------------------------
(* Writing.                                                                *)

IntText(n) == IF n < 0 THEN <<"-">> \o UIntText(-n) ELSE UIntText(n)


(* valueToQuotedString.                                                    *)
Quote(s) ==
  <<"\"">> \o FlattenSeq([i \in DOMAIN s |->
     CASE s[i] \in DOMAIN Escaped -> <<"\\", Escaped[s[i]]>>
       [] s[i] = "SOH" -> <<"\\", "u", "0", "0", "0", "1">>
       [] OTHER -> <<s[i]>>]) \o <<"\"">>

(* A real number as units of its last digit, and how many of its digits    *)
(* are more than are written.                                              *)
Units(r) == r[2] * 10^Len(r[3]) + WholeOf(r[3])
Surplus(r) == Max({0, (IF Units(r) = 0 THEN 0 ELSE Len(UIntText(Units(r)))) - RealDigits})

(* %.16g: rounded to so many digits, without zeros at the end.  Where it   *)
(* writes an exponent the zeros are written out here.                      *)
RealText(r) ==
  LET cut == 10^Surplus(r)
      units == ((Units(r) + cut \div 2) \div cut) * cut
      one == 10^Len(r[3])
      digit(i) == Digits[((units \div 10^(Len(r[3]) - i)) % 10) + 1]
      fraction == WithoutZeros([i \in DOMAIN r[3] |-> digit(i)])
  IN  r[1] \o UIntText(units \div one) \o (IF fraction = <<>> THEN <<>> ELSE <<".">> \o fraction)

(* valueToString.                                                          *)
Scalar(v) ==
  CASE v[1] = "null" -> <<"null">>
    [] v[1] \in {"int", "uint"} -> IntText(v[2])
    [] v[1] = "real" -> RealText(v[2])
    [] v[1] = "string" -> Quote(v[2])
    [] v[1] = "bool" -> IF v[2] THEN <<"true">> ELSE <<"false">>

(* FastWriter::writeValue.                                                 *)
RECURSIVE FastWrite(_)
FastWrite(v) ==
  CASE v[1] = "array" ->
         <<"[">> \o Joined([i \in DOMAIN v[2] |-> FastWrite(v[2][i])], <<",">>) \o <<"]">>
    [] v[1] = "object" ->
         LET names == SetToSeq(DOMAIN v[2])
         IN  <<"{">> \o Joined([i \in DOMAIN names |->
                          Quote(names[i]) \o <<":">> \o FastWrite(v[2][names[i]])], <<",">>)
                     \o <<"}">>
    [] OTHER -> Scalar(v)

IsComposite(v) == v[1] \in {"array", "object"} /\ v[2] # <<>>

RECURSIVE StyledWrite(_)

(* isMultineArray: it does not fit into a line, or has a child with        *)
(* children.                                                               *)
IsMultilineArray(elements) ==
  \/ 3 * Len(elements) >= RightMargin
  \/ \E i \in DOMAIN elements : IsComposite(elements[i])
  \/ 2 + 2 * Len(elements) + Len(FlattenSeq([i \in DOMAIN elements |-> StyledWrite(elements[i])]))
       >= RightMargin

(* StyledWriter::writeValue and StyledStreamWriter::writeValue: members    *)
(* and the elements of long arrays are written on lines of their own.      *)
StyledWrite(v) ==
  CASE v[1] \in {"array", "object"} /\ v[2] = <<>> ->
         IF v[1] = "array" THEN <<"[", "]">> ELSE <<"{", "}">>
    [] v[1] = "array" /\ v[2] # <<>> ->
         LET texts == [i \in DOMAIN v[2] |-> StyledWrite(v[2][i])]
         IN  IF IsMultilineArray(v[2])
             THEN <<"[", "LF">> \o Joined(texts, <<",", "LF">>) \o <<"LF", "]">>
             ELSE <<"[", "SP">> \o Joined(texts, <<",", "SP">>) \o <<"SP", "]">>
    [] v[1] = "object" /\ v[2] # <<>> ->
         LET names == SetToSeq(DOMAIN v[2])
         IN  <<"{", "LF">> \o Joined([i \in DOMAIN names |->
                Quote(names[i]) \o <<"SP", ":", "SP">> \o StyledWrite(v[2][names[i]])],
                <<",", "LF">>) \o <<"LF", "}">>
    [] OTHER -> Scalar(v)

WrittenTexts(v) == {Append(FastWrite(v), "LF"), Append(StyledWrite(v), "LF")}
-----------------------------------------------------------------------------
(* Properties.                                                             *)

(* A number in units of 10^-k, and the places behind its point.            *)
Numeric == {"int", "uint", "real"}
Places(v) == IF v[1] = "real" THEN Len(v[2][3]) ELSE 0
InUnits(v, k) ==
  10^(k - Places(v)) *
    (IF v[1] = "real" THEN (IF v[2][1] = <<"-">> THEN -1 ELSE 1) * Units(v[2]) ELSE v[2])

(* Integers and real numbers of few digits are the same number when they   *)
(* are read; one of more digits has lost no more than half a unit of the   *)
(* last digit that is written.  Their types may differ: an integer is read *)
(* as a signed one if it is small and as an unsigned one if not, a real    *)
(* number without a fraction as an integer.                                *)
SameNumber(v, w) ==
  LET k == Max({Places(v), Places(w)})
      lost == InUnits(v, k) - InUnits(w, k)
      isExact == v[1] # "real" \/ Surplus(v[2]) = 0
      unit == IF isExact THEN 0 ELSE 10^(Surplus(v[2]) + k - Places(v))
  IN  2 * Max({lost, -lost}) <= unit

(* w is what v is when it was written and read.                            *)
RECURSIVE SameJson(_, _)
SameJson(v, w) ==
  CASE v[1] = "array" -> /\ w[1] = "array" /\ Len(v[2]) = Len(w[2])
                         /\ \A i \in DOMAIN v[2] : SameJson(v[2][i], w[2][i])
    [] v[1] = "object" -> /\ w[1] = "object" /\ DOMAIN v[2] = DOMAIN w[2]
                          /\ \A n \in DOMAIN v[2] : SameJson(v[2][n], w[2][n])
    [] v[1] \in Numeric -> w[1] \in Numeric /\ SameNumber(v, w)
    [] OTHER -> v = w

ReadBack(v) ==
  \A text \in WrittenTexts(v) :
    LET r == Parse(text, AllFeatures) IN r.errors = <<>> /\ SameJson(v, r.value)

(* Whatever is accepted is written so that it is read as the same again;   *)
(* whatever is not has an error with a place in the document.              *)
ReadsOrTells(d) ==
  \A features \in {AllFeatures, StrictMode} :
    LET r == Parse(d, features)
    IN  IF r.errors = <<>> THEN ReadBack(r.value)
        ELSE \A i \in DOMAIN r.errors : r.errors[i] \in 1 .. Len(d) + 1
=============================================================================
