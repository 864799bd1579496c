-------------------------------- MODULE Amf3 --------------------------------
(***************************************************************************)
(* Amf3Serializer.cpp and Amf3Context.cpp: a value is written as AMF3, and *)
(* what was written is read back.  Both sides keep a table of the strings  *)
(* they have met, and a string that is in it goes by its index, so what is *)
(* read depends on the two tables growing in step.                         *)
(*                                                                         *)
(* A byte of an integer is a digit below 2 * Group, the upper half of them *)
(* saying that more follow.  A text and the payload of a double are one    *)
(* item of the stream each; what the payload is, is the number it has as a *)
(* double, whose eight bytes go out and come in as they are.               *)
(***************************************************************************)
EXTENDS Integers, Sequences, SequencesExt, FiniteSets

CONSTANTS
  Group,     \* 2^7: what a byte of an integer holds, beside the bit that says go on
  Precision  \* 53: the bits of a double's significand, less than eight bytes have

\* Values: [type |-> "null"], "bool", "int", "float" (v counts halves), "string",
\* "binary", "array" (v is a sequence) and "object" (v is a sequence of pairs, the
\* keys of a std::map in their order).
Val(t, x) == [type |-> t, v |-> x]

-----------------------------------------------------------------------------
\* encodeHeadlessInteger(): the first group first; a fourth byte is all data.  Its bound
\* is one bit above what four bytes hold.
IntegerBytes(n) ==
  LET more(x) == (x % Group) + Group
      b == 2 * Group
  IN  CASE n < Group -> <<n>>
        [] n \in Group..Group^2 - 1 -> <<more(n \div Group), n % Group>>
        [] n \in Group^2..Group^3 - 1 -> <<more(n \div Group^2), more(n \div Group), n % Group>>
        [] n \in Group^3..4 * Group^4 - 1 ->
             <<more(n \div (Group^2 * b)), more(n \div (Group * b)), more(n \div b), n % b>>

\* encodeNumber() writes the last group first, and a fourth byte is a group too.
NumberBytes(n) ==
  LET more(x) == (x % Group) + Group
  IN  CASE n < Group -> <<n>>
        [] n \in Group..Group^2 - 1 -> <<more(n), n \div Group>>
        [] n \in Group^2..Group^3 - 1 -> <<more(n), more(n \div Group), n \div Group^2>>
        [] n >= Group^3 -> <<more(n), more(n \div Group), more(n \div Group^2), (n \div Group^3) % Group>>

TooBig == 2 * Group^4   \* 1 << 29

IndexIn(table, s) == CHOOSE i \in DOMAIN table : table[i] = s

\* An encoding so far: the items put out and the table.
Put(e, items) == [e EXCEPT !.out = @ \o items]


\* encodeHeadlessString(): the empty string is never put into the table.
HeadlessString(e, s) ==
  IF s \in ToSet(e.table) THEN Put(e, IntegerBytes(2 * (IndexIn(e.table, s) - 1)))
  ELSE IF s = "" THEN Put(e, IntegerBytes(1))
  ELSE [Put(e, Append(IntegerBytes(2 * Len(s) + 1), s)) EXCEPT !.table = Append(@, s)]

\* htobe64() and be64toh(): the bytes of a word of eight, turned round.
Swapped(n) ==
  LET b == 2 * Group
  IN  FoldLeft(LAMBDA word, i : (word * b) + ((n \div b^i) % b), 0, <<0, 1, 2, 3, 4, 5, 6, 7>>)

\* An integer converted to a double: to the nearest, of two the even one.
Rounded(n) ==
  LET e == CHOOSE k \in 0..Precision : /\ n < 2^(Precision + k)
                                       /\ k = 0 \/ n >= 2^(Precision + k - 1)
      unit == 2^e
      up == 2 * (n % unit) > unit \/ (2 * (n % unit) = unit /\ (n \div unit) % 2 = 1)
  IN  ((n \div unit) + IF up THEN 1 ELSE 0) * unit

\* encodeNumber(): an integer that is too big goes as a double, a double without a
\* fraction that is not goes as an integer.  The double goes through htobe64(), which
\* takes an integer and so drops the fraction, and gives one, which is made a double.
Number(v) ==
  LET i == IF v.type = "int" THEN v.v ELSE v.v \div 2
      short == (v.type = "int" \/ v.v % 2 = 0) /\ i < TooBig
  IN  IF short THEN <<"INTEGER">> \o NumberBytes(i) ELSE <<"FLOAT", Rounded(Swapped(Rounded(i)))>>

RECURSIVE encodeValue(_, _)
encodeValue(e, v) ==
  CASE v.type = "null" -> Put(e, <<"NULL">>)
    [] v.type = "bool" -> Put(e, <<IF v.v THEN "TRUE" ELSE "FALSE">>)
    [] v.type \in {"int", "float"} -> Put(e, Number(v))
    [] v.type = "string" -> HeadlessString(Put(e, <<"STRING">>), v.v)
    [] v.type = "binary" -> Put(e, <<"BINARY">> \o IntegerBytes(2 * Len(v.v) + 1) \o v.v)
    [] v.type = "array" ->
         FoldLeft(encodeValue,
                  HeadlessString(Put(e, <<"ARRAY">> \o IntegerBytes(2 * Len(v.v) + 1)), ""), v.v)
    [] v.type = "object" ->
         HeadlessString(
           FoldLeft(LAMBDA f, p : encodeValue(HeadlessString(f, p[1]), p[2]),
                    HeadlessString(Put(e, <<"OBJECT">> \o IntegerBytes(8 + 3)), ""), v.v), "")

-----------------------------------------------------------------------------
\* A decoding so far: the stream from a place on, the table, and what was just read.
Read(d, x) == [d EXCEPT !.value = x]
Skip(d, n) == [d EXCEPT !.in = SubSeq(@, n + 1, Len(@))]
Failed(d) == [d EXCEPT !.ok = FALSE]

\* decodeHeadlessInteger()
Integer(d) ==
  LET byte(i) == d.in[i]
      last(i) == byte(i) < Group
      low(i) == byte(i) % Group
  IN  CASE last(1) -> Skip(Read(d, byte(1)), 1)
        [] ~last(1) /\ last(2) -> Skip(Read(d, low(1) * Group + byte(2)), 2)
        [] ~last(1) /\ ~last(2) /\ last(3) ->
             Skip(Read(d, (low(1) * Group + low(2)) * Group + byte(3)), 3)
        [] OTHER ->
             Skip(Read(d, ((low(1) * Group + low(2)) * Group + low(3)) * 2 * Group + byte(4)), 4)

\* decodeFloat(): a payload that was rounded up to 2^64 is no 64-bit integer; what x86-64
\* makes of it is zero.
Float(d) ==
  Skip(Read(d, Val("float", 2 * Rounded(Swapped(Head(d.in) % (2 * Group)^8)))), 1)

\* decodeHeadlessString()
String(d) ==
  LET h == Integer(d)
  IN  IF h.value % 2 = 0
        THEN IF h.value \div 2 >= Len(h.table) THEN Failed(h)
             ELSE Read(h, h.table[(h.value \div 2) + 1])
      ELSE IF h.value = 1 THEN Read(h, "")
      ELSE [Skip(Read(h, h.in[1]), 1)
              EXCEPT !.table = IF h.in[1] \in ToSet(@) THEN @ ELSE Append(@, h.in[1])]

RECURSIVE decodeValue(_), Members(_, _), Elements(_, _, _)

\* The loop of decodeObject() over dynamic members, to the empty key.
Members(d, got) ==
  LET k == String(d)
      x == decodeValue(k)
  IN  IF ~k.ok THEN k
      ELSE IF k.value = "" THEN Read(k, Val("object", got))
      ELSE IF ~x.ok THEN x
      ELSE Members(x, Append(got, <<k.value, x.value>>))

\* The dense portion of decodeArray().
Elements(d, n, got) ==
  LET x == decodeValue(d)
  IN  IF n = 0 THEN Read(d, Val("array", got))
      ELSE IF ~x.ok THEN x
      ELSE Elements(x, n - 1, Append(got, x.value))

decodeValue(d) ==
  LET t == Head(d.in)
      r == Skip(d, 1)
      h == Integer(r)
      n == h.value \div 2
      s == String(r)      \* of a string
      a == String(h)      \* the associative portion, or the name of the class
  IN  CASE d.in = <<>> -> Failed(d)
        [] t = "NULL" -> Read(r, Val("null", 0))
        [] t \in {"TRUE", "FALSE"} -> Read(r, Val("bool", t = "TRUE"))
        [] t = "INTEGER" -> Read(h, Val("int", h.value))
        [] t = "FLOAT" -> Float(r)
        [] t = "STRING" -> IF s.ok THEN Read(s, Val("string", s.value)) ELSE s
        [] t = "BINARY" -> Skip(Read(h, Val("binary", SubSeq(h.in, 1, n))), n)
        [] t = "ARRAY" -> IF a.ok /\ a.value = "" THEN Elements(a, n, <<>>) ELSE Failed(a)
        [] t = "OBJECT" -> IF a.ok /\ h.value % 16 = 11 THEN Members(a, <<>>) ELSE Failed(a)
        [] OTHER -> Failed(d)

-----------------------------------------------------------------------------
encode(v) == encodeValue([out |-> <<>>, table |-> <<>>], v).out

\* The end of the data was not read when the check for redundant bytes asks for eof(),
\* so that a STRICT reader refuses everything.
decode(stream, strict) ==
  LET d == decodeValue([in |-> stream, table |-> <<>>, value |-> Val("none", 0), ok |-> TRUE])
  IN  IF strict \/ ~d.ok THEN Val("thrown", 0) ELSE d.value

-----------------------------------------------------------------------------
\* Numbers that come back: others lose their order of bytes, their sign, their fraction,
\* or the bits that a double has no room for, be it in their own order or turned round:
\* 2^48 + 129 comes back as 129.
Exact(n) == Rounded(n) = n /\ Rounded(Swapped(n)) = Swapped(n)
RECURSIVE Plain(_)
Plain(v) ==
  CASE v.type = "int" -> v.v \in 0..Group - 1 \/ (v.v >= TooBig /\ Exact(v.v))
    [] v.type = "float" ->
         /\ v.v % 2 = 0
         /\ v.v \in 0..2 * Group - 1 \/ (v.v >= 2 * TooBig /\ Exact(v.v \div 2))
    [] v.type = "array" -> \A i \in DOMAIN v.v : Plain(v.v[i])
    [] v.type = "object" -> \A i \in DOMAIN v.v : Plain(v.v[i][2])
    [] OTHER -> TRUE

\* A number is the same number whichever of the two types it has.
RECURSIVE Same(_, _)
Same(v, w) ==
  CASE v.type \in {"int", "float"} ->
         /\ w.type \in {"int", "float"}
         /\ (IF v.type = "int" THEN 2 * v.v ELSE v.v) = (IF w.type = "int" THEN 2 * w.v ELSE w.v)
    [] v.type = "array" ->
         w.type = "array" /\ Len(v.v) = Len(w.v) /\ \A i \in DOMAIN v.v : Same(v.v[i], w.v[i])
    [] v.type = "object" ->
         /\ w.type = "object" /\ Len(v.v) = Len(w.v)
         /\ \A i \in DOMAIN v.v : v.v[i][1] = w.v[i][1] /\ Same(v.v[i][2], w.v[i][2])
    [] OTHER -> v = w

\* A value comes back from decode() as encode() was given it, when its numbers are among
\* those that do and the reader is not STRICT; the tables of strings of the two grow in
\* step, or an index would name another string.
ComesBack(v, strict) == Plain(v) /\ ~strict => Same(v, decode(encode(v), strict))

=============================================================================
