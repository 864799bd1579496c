-------------------------------- MODULE Json --------------------------------
(***************************************************************************)
(* JsonSerializer.cpp: a value is written as JSON and what was written is  *)
(* read back.                                                              *)
(*                                                                         *)
(* The stream is a sequence of items: <<mark>> for punctuation and words,  *)
(* <<"char", c>> and <<"escape", c>> in texts, <<"digits", minus, d>> for  *)
(* the integer part of a number, <<"half">> for the ".5" of a double, and  *)
(* <<"exponent", minus, n>> for a double written with an exponent.         *)
(* A character is "letter", a member of Controls, "quote", "backslash",    *)
(* "slash", "newline", "wide" (of more bytes than one), "far" (beyond four *)
(* hexadecimal digits), or one of the marks a binary is told by: "mark"    *)
(* for the four characters =?B? and "close" for ?=.                        *)
(***************************************************************************)
EXTENDS Integers, Sequences, SequencesExt

CONSTANTS
  Controls,  \* the characters below ' ' that are not white space
  Digits     \* the digits of a double that are written, digits10 + 1: 16 in the code

\* Values: [type |-> "null"], "bool", "int", "float" (v counts halves), "string" (v is a
\* sequence of characters), "binary", "array" (v is a sequence) and "object" (v is a
\* sequence of pairs of a key and a value).
Val(t, x) == [type |-> t, v |-> x]

-----------------------------------------------------------------------------
DigitsOf[n \in Nat, base \in {10, 16}] ==
  IF n < base THEN <<n>> ELSE Append(DigitsOf[n \div base, base], n % base)

\* encodeString(): what a character becomes.  Only ESCAPED_UNICODE looks at the bytes
\* beyond ASCII; it writes a symbol beyond four digits with five.
Escapes(c, unicode) ==
  CASE c \in {"quote", "backslash", "newline"} -> <<<<"escape", c>>>>
    [] c = "slash" /\ unicode -> <<<<"escape", c>>>>
    [] c = "wide" /\ unicode -> <<<<"escape", c>>>>
    [] c = "far" /\ unicode -> <<<<"escape", "wide">>, <<"char", "letter">>>>
    [] OTHER -> <<<<"char", c>>>>

\* An encoding so far: the items, whether std::hex has been put to the stream, and the flag.
Put(e, items) == [e EXCEPT !.out = @ \o items]

\* encodeString(); std::hex is never taken back.
encodeString(e, s) ==
  [Put(e, <<<<"\"">>>> \o FlattenSeq([i \in DOMAIN s |-> Escapes(s[i], e.unicode)]) \o <<<<"\"">>>>)
     EXCEPT !.hex = @ \/ (e.unicode /\ {"wide", "far"} \cap ToSet(s) # {})]

abs(n) == IF n < 0 THEN -n ELSE n

\* A double of h halves rounded to Digits digits, a tie to the even one.
Shown(h) ==
  LET d == Len(DigitsOf[h \div 2, 10])
      unit == IF d < Digits THEN 1 ELSE 2 * 10^(d - Digits)
      q == h \div unit
      twice == 2 * (h % unit)
  IN  (IF twice > unit \/ (twice = unit /\ q % 2 = 1) THEN q + 1 ELSE q) * unit

\* More digits before the point than are written: std::setprecision() has an exponent.
WithExponent(h) == Len(DigitsOf[Shown(h) \div 2, 10]) > Digits

\* encodeNumber(): in base 16 a negative number is the unsigned one of its 64 bits, which
\* starts with an "f".  A double is not touched by the base.
encodeNumber(e, v) ==
  LET base == IF e.hex THEN 16 ELSE 10
      shown == Shown(abs(v.v))
  IN  CASE v.type = "int" /\ e.hex /\ v.v < 0 -> Put(e, <<<<"digits", FALSE, <<15>>>>>>)
        [] v.type = "int" /\ ~(e.hex /\ v.v < 0) ->
             Put(e, <<<<"digits", v.v < 0, DigitsOf[abs(v.v), base]>>>>)
        [] v.type = "float" /\ WithExponent(abs(v.v)) ->
             Put(e, <<<<"exponent", v.v < 0, shown \div 2>>>>)
        [] v.type = "float" /\ ~WithExponent(abs(v.v)) ->
             Put(e, <<<<"digits", v.v < 0, DigitsOf[shown \div 2, 10]>>>>
                    \o (IF shown % 2 = 1 THEN <<<<"half">>>> ELSE <<>>))

\* The end of a list: seekp(-1) has the bracket written over the comma of its last element.
Close(e, last) ==
  IF Last(e.out) = <<",">> THEN [e EXCEPT !.out = Append(Front(@), <<last>>)]
  ELSE Put(e, <<<<last>>>>)

RECURSIVE encodeValue(_, _)
encodeValue(e, v) ==
  CASE v.type = "null" -> Put(e, <<<<"null">>>>)
    [] v.type = "bool" -> Put(e, <<<<IF v.v THEN "true" ELSE "false">>>>)
    [] v.type = "string" -> encodeString(e, v.v)
    [] v.type \in {"int", "float"} -> encodeNumber(e, v)
    [] v.type = "binary" -> Put(e, <<<<"\"">>, <<"char", "mark">>, <<"base64", v.v>>,
                                  <<"char", "close">>, <<"\"">>>>)
    [] v.type = "array" ->
         Close(FoldLeft(LAMBDA f, x : Put(encodeValue(f, x), <<<<",">>>>),
                        Put(e, <<<<"[">>>>), v.v), "]")
    [] v.type = "object" ->
         Close(FoldLeft(LAMBDA f, p : Put(encodeValue(Put(encodeString(f, p[1]), <<<<":">>>>), p[2]),
                                          <<<<",">>>>),
                        Put(e, <<<<"{">>>>), v.v), "}")

-----------------------------------------------------------------------------
\* What is read from a stream: a value, or none, and the rest.
Got(x, rest) == [ok |-> TRUE, value |-> x, in |-> rest]
Failed(in) == [ok |-> FALSE, value |-> Val("none", 0), in |-> in]
From(s, n) == SubSeq(s, n, Len(s))
At(in, n, mark) == Len(in) >= n /\ in[n] = <<mark>>

\* decodeString() and decodeEscaped()
decodeString(in) ==
  LET ends == {i \in 2..Len(in) : in[i] = <<"\"">>}
      end == CHOOSE i \in ends : \A j \in ends : i <= j
      text == SubSeq(in, 2, end - 1)
  IN  IF ~At(in, 1, "\"") \/ ends = {} \/ \E i \in DOMAIN text : text[i][Len(text[i])] \in Controls
        THEN Failed(in)
      ELSE Got(Val("string", [i \in DOMAIN text |-> text[i][2]]), From(in, end + 1))

\* decodeBinary(): whatever stands between the mark and its close, a text's own characters
\* too; the first '"' or '?' after the mark must begin the close.
IsMarked(in) == At(in, 1, "\"") /\ Len(in) >= 2 /\ in[2] = <<"char", "mark">>
decodeBinary(in) ==
  LET ends == {i \in 3..Len(in) : in[i] \in {<<"\"">>, <<"escape", "quote">>,
                                            <<"char", "mark">>, <<"char", "close">>}}
      end == CHOOSE i \in ends : \A j \in ends : i <= j
      content == SubSeq(in, 3, end - 1)
      isBase64 == Len(content) = 1 /\ content[1][1] = "base64"
  IN  IF ends = {} \/ in[end] # <<"char", "close">> \/ ~At(in, end + 1, "\"") THEN Failed(in)
      ELSE Got(Val("binary", IF isBase64 THEN content[1][2] ELSE content), From(in, end + 2))

\* decodeNumber(): what is not a decimal digit must be what can follow a number.
\* (An "e" among the digits of base 16 would be an exponent; ComesBack leaves base 16 out.)
decodeExponent(in) ==
  Got(Val("float", IF in[1][2] THEN -2 * in[1][3] ELSE 2 * in[1][3]), From(in, 2))
decodeNumber(in) ==
  LET d == in[1][3]
      n == FoldLeft(LAMBDA sum, x : 10 * sum + x, 0, d)
      half == At(in, 2, "half")
      sign == IF in[1][2] THEN -1 ELSE 1
  IN  IF \E i \in DOMAIN d : d[i] > 9 THEN Failed(in)
      ELSE IF half THEN Got(Val("float", sign * (2 * n + 1)), From(in, 3))
      ELSE Got(Val("int", sign * n), From(in, 2))

RECURSIVE decodeValue(_), Elements(_, _), Fields(_, _)

\* decodeArray(), past its bracket or a comma
Elements(in, got) ==
  LET x == decodeValue(in)
      now == Append(got, x.value)
  IN  IF got = <<>> /\ At(in, 1, "]") THEN Got(Val("array", got), From(in, 2))
      ELSE IF ~x.ok THEN x
      ELSE IF At(x.in, 1, ",") THEN Elements(From(x.in, 2), now)
      ELSE IF At(x.in, 1, "]") THEN Got(Val("array", now), From(x.in, 2))
      ELSE Failed(x.in)

\* decodeObject(), past its bracket or a comma; of two fields of one name the first stays
Fields(in, got) ==
  LET k == decodeString(in)
      x == decodeValue(From(k.in, 2))
      now == IF \E i \in DOMAIN got : got[i][1] = k.value.v THEN got
             ELSE Append(got, <<k.value.v, x.value>>)
  IN  IF got = <<>> /\ At(in, 1, "}") THEN Got(Val("object", got), From(in, 2))
      ELSE IF ~k.ok \/ ~At(k.in, 1, ":") THEN Failed(k.in)
      ELSE IF ~x.ok THEN x
      ELSE IF At(x.in, 1, ",") THEN Fields(From(x.in, 2), now)
      ELSE IF At(x.in, 1, "}") THEN Got(Val("object", now), From(x.in, 2))
      ELSE Failed(x.in)

decodeValue(in) ==
  CASE in = <<>> -> Failed(in)
    [] in # <<>> /\ in[1][1] = "digits" -> decodeNumber(in)
    [] in # <<>> /\ in[1][1] = "exponent" -> decodeExponent(in)
    [] IsMarked(in) -> decodeBinary(in)
    [] At(in, 1, "\"") /\ ~IsMarked(in) -> decodeString(in)
    [] At(in, 1, "true") \/ At(in, 1, "false") -> Got(Val("bool", At(in, 1, "true")), From(in, 2))
    [] At(in, 1, "null") -> Got(Val("null", 0), From(in, 2))
    [] At(in, 1, "[") -> Elements(From(in, 2), <<>>)
    [] At(in, 1, "{") -> Fields(From(in, 2), <<>>)
    [] OTHER -> Failed(in)

-----------------------------------------------------------------------------
\* unicode stands for the flag ESCAPED_UNICODE.
encode(v, unicode) == encodeValue([out |-> <<>>, hex |-> FALSE, unicode |-> unicode], v)

decode(stream, strict) ==
  LET d == decodeValue(stream)
  IN  IF ~d.ok \/ (strict /\ d.in # <<>>) THEN Val("thrown", 0) ELSE d.value

-----------------------------------------------------------------------------
\* What the format has room for: texts without control characters, those that are values
\* not beginning with the mark of a binary, and doubles that Digits digits can tell.
RECURSIVE Readable(_)
Readable(v) ==
  LET text(s) == ToSet(s) \cap Controls = {}
  IN  CASE v.type = "string" -> text(v.v) /\ (v.v # <<>> => v.v[1] # "mark")
        [] v.type = "float" -> Shown(abs(v.v)) = abs(v.v)
        [] v.type = "array" -> \A i \in DOMAIN v.v : Readable(v.v[i])
        [] v.type = "object" -> \A i \in DOMAIN v.v : text(v.v[i][1]) /\ Readable(v.v[i][2])
        [] OTHER -> TRUE

\* A double without a fraction is read as an integer, unless it has an exponent.
RECURSIVE Settled(_)
Settled(v) ==
  CASE v.type = "float" /\ v.v % 2 = 0 /\ ~WithExponent(abs(v.v)) ->
         Val("int", IF v.v < 0 THEN -(abs(v.v) \div 2) ELSE v.v \div 2)
    [] v.type = "array" -> Val("array", [i \in DOMAIN v.v |-> Settled(v.v[i])])
    [] v.type = "object" -> Val("object", [i \in DOMAIN v.v |-> <<v.v[i][1], Settled(v.v[i][2])>>])
    [] OTHER -> v

\* A readable value comes back from decode(), STRICT or not, as long as no symbol beyond
\* ASCII was escaped before a number in it: encodeString() leaves the stream in base 16,
\* and the numbers after it are others or none.  A text that begins with the mark of a
\* binary comes back as a binary or not at all, a double of more than Digits digits rounded.
ComesBack(v, strict, unicode) ==
  LET e == encode(v, unicode)
  IN  Readable(v) /\ ~e.hex => decode(e.out, strict) = Settled(v)

=============================================================================
