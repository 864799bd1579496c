-------------------------------- MODULE Url ---------------------------------
(***************************************************************************)
(* UrlSerializer.cpp, with urlencode() and urldecode() of HttpUri: a value *)
(* is written as the parameters of a URI, one for each leaf of it, the key *)
(* being the path to the leaf in brackets; they are read back into objects *)
(* of texts.  The texts are percent-encoded, the keys are not.             *)
(*                                                                         *)
(* The stream is the sequence of the characters put out: <<c>> for one     *)
(* that is itself, <<"%", c>> for one that is percent-encoded.             *)
(***************************************************************************)
EXTENDS Integers, Sequences, SequencesExt

CONSTANT IndexNames  \* the indexes of arrays as texts: <<"0">>, <<"1">>, ...

\* Values: [type |-> "text"] and "leaf" (a null, a boolean or a number, written as it is;
\* v is the sequence of characters), "binary", "array" (v is a sequence) and "object" (v
\* is a sequence of pairs of a key and a value, in the order of the keys).
Val(t, x) == [type |-> t, v |-> x]

\* The characters that mean something to the reader and are percent-encoded in a text.
Reserved == {"=", "&", "[", "]", "+", "%", " ", "newline"}
HexDigits == {"0", "1", "2", "3", "4", "5", "6", "7", "8", "9", "a", "b", "c", "d", "e", "f"}

Raw(s) == [i \in DOMAIN s |-> <<s[i]>>]
urlencode(s) == [i \in DOMAIN s |-> IF s[i] \in Reserved THEN <<"%", s[i]>> ELSE <<s[i]>>]

Bracketed(k) == <<"[">> \o k \o <<"]">>
BinaryText == <<"*binary*">>

\* encodeArray() and encodeObject(): each element is followed by an "&".  (Of two in a row
\* seekp(-1) has one overwrite the other; both stand here, and the reader skips what is
\* between them.)  encodeBinary() puts no key and no "=".
RECURSIVE encodeValue(_, _)
encodeValue(path, v) ==
  LET name(k) == IF path = <<>> THEN k ELSE path \o Bracketed(k)
      ended(p, x) == Append(encodeValue(p, x), <<"&">>)
  IN  CASE v.type = "leaf" -> Raw(path \o <<"=">> \o v.v)
        [] v.type = "text" -> Raw(Append(path, "=")) \o urlencode(v.v)
        [] v.type = "binary" -> Raw(BinaryText)
        [] v.type = "array" ->
             FlattenSeq([i \in DOMAIN v.v |-> ended(path \o Bracketed(IndexNames[i]), v.v[i])])
        [] v.type = "object" ->
             FlattenSeq([i \in DOMAIN v.v |-> ended(name(v.v[i][1]), v.v[i][2])])

-----------------------------------------------------------------------------
From(s, n) == SubSeq(s, n, Len(s))
Find(s, c) == SelectInSeq(s, LAMBDA x : x = <<c>>)
UpTo(s, c) == IF Find(s, c) = 0 THEN s ELSE SubSeq(s, 1, Find(s, c) - 1)

Threw == [ok |-> FALSE, text |-> <<>>]

\* urldecode(): a "+" is a space, and a "%" needs two hexadecimal digits, which say a byte.
RECURSIVE urldecode(_)
urldecode(s) ==
  LET hex(i) == i <= Len(s) /\ s[i] \in {<<h>> : h \in HexDigits}
      then(c, n) == LET rest == urldecode(From(s, n))
                    IN  [rest EXCEPT !.text = <<c>> \o @]
  IN  CASE s = <<>> -> [ok |-> TRUE, text |-> <<>>]
        [] s # <<>> /\ s[1] = <<"%">> -> IF hex(2) /\ hex(3) THEN then("byte", 4) ELSE Threw
        [] s # <<>> /\ s[1] = <<"+">> -> then(" ", 2)
        [] s # <<>> /\ s[1] \notin {<<"%">>, <<"+">>} -> then(Last(s[1]), 2)

\* The first name of a key and what follows it.
FirstName(key) ==
  IF key # <<>> /\ key[1] = <<"[">>
  THEN [ok |-> Find(key, "]") # 0, name |-> From(UpTo(key, "]"), 2),
        rest |-> From(key, Find(key, "]") + 1)]
  ELSE [ok |-> TRUE, name |-> UpTo(key, "["), rest |-> From(key, Len(UpTo(key, "[")) + 1)]

Has(o, k) == \E i \in DOMAIN o : o[i][1] = k

\* What emplace() makes of one parameter.  The first name of a path is asked of the object,
\* and get() throws when it is not there; when it is, a new object is built from the rest
\* and thrown away, since std::map::emplace() replaces nothing.
RECURSIVE emplace(_, _, _)
emplace(r, key, val) ==
  LET first == FirstName(key)
      name == urldecode(first.name)
      text == urldecode(val)
  IN  CASE ~r.ok -> r
        [] r.ok /\ (~first.ok \/ ~name.ok) -> [r EXCEPT !.ok = FALSE]
        [] r.ok /\ first.ok /\ name.ok /\ first.rest # <<>> ->
             [r EXCEPT !.ok = /\ Has(r.obj, name.text)
                              /\ emplace([ok |-> TRUE, obj |-> <<>>], first.rest, val).ok]
        [] r.ok /\ first.ok /\ name.ok /\ first.rest = <<>> ->
             [ok |-> text.ok,
              obj |-> IF ~text.ok \/ Has(r.obj, name.text) THEN r.obj
                      ELSE Append(r.obj, <<name.text, Val("text", text.text)>>)]

\* std::istream_iterator with "&" for a white space, and " " for none.
Parameters(stream) ==
  LET cut(ps, c) == IF c \in {<<"&">>, <<"newline">>} THEN Append(ps, <<>>)
                    ELSE Append(Front(ps), Append(Last(ps), c))
  IN  SelectSeq(FoldLeft(cut, <<<<>>>>, stream), LAMBDA p : p # <<>>)

encode(v) == encodeValue(<<>>, v)

\* Without an "=" the whole parameter is both the key and the value.
decode(stream) ==
  LET r == FoldLeft(LAMBDA o, p : emplace(o, UpTo(p, "="), From(p, Find(p, "=") + 1)),
                    [ok |-> TRUE, obj |-> <<>>], Parameters(stream))
  IN  IF r.ok THEN Val("object", r.obj) ELSE Val("thrown", 0)

-----------------------------------------------------------------------------
\* What the format has room for: a flat array or object whose keys hold nothing the reader
\* splits at or decodes, and whose numbers have no "+" of an exponent.
IsPlain(v) ==
  LET elements == IF v.type = "array" THEN v.v ELSE [i \in DOMAIN v.v |-> v.v[i][2]]
      plainKey(k) == {"=", "&", "[", "+", "%", "newline"} \cap ToSet(k) = {} /\ k # BinaryText
  IN  /\ v.type \in {"array", "object"}
      /\ \A i \in DOMAIN v.v : elements[i].type \notin {"array", "object"}
      /\ \A i \in DOMAIN v.v : elements[i].type = "leaf" => "+" \notin ToSet(elements[i].v)
      /\ v.type = "object" => \A i \in DOMAIN v.v : plainKey(v.v[i][1])

\* Of a plain array or object every leaf comes back, as a text and under its own name, but
\* for the binaries, which share one; nothing is lost between the two sides.
ComesBack(v) ==
  LET name(i) == IF v.type = "array" THEN IndexNames[i] ELSE v.v[i][1]
      leaf(i) == IF v.type = "array" THEN v.v[i] ELSE v.v[i][2]
      result == decode(encode(v))
  IN  IsPlain(v) =>
        /\ result.type = "object"
        /\ \A i \in DOMAIN v.v :
             leaf(i).type # "binary" => <<name(i), Val("text", leaf(i).v)>> \in ToSet(result.v)

=============================================================================
