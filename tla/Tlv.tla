-------------------------------- MODULE Tlv ---------------------------------
(***************************************************************************)
(* TlvSerializer.cpp: a value is written as tokens with their data, and    *)
(* what was written is read back.  Numbers take the fewest of 1, 2, 4 or 8 *)
(* digits below Base, and carry their sign in the token; strings, arrays   *)
(* and objects are closed by END, which is also the character NUL.         *)
(*                                                                         *)
(* A character is one item of the stream, whatever bytes UTF-8 gives it;   *)
(* so is what is left of a double.                                         *)
(***************************************************************************)
EXTENDS Integers, Sequences, SequencesExt, TLC

CONSTANTS
  Base,     \* 2^8
  Controls  \* the characters below ' ' that are not white space

\* Values: [type |-> "null"], "bool", "int", "float" (v counts halves), "string" (v is a
\* sequence of characters), "binary", "array" (v is a sequence) and "object" (v is a
\* sequence of pairs of a key and a value).
Val(t, x) == [type |-> t, v |-> x]

Int64 == Base^8
\* A 64 bit number read as a signed one.
Signed(n) == IF n % Int64 >= Int64 \div 2 THEN (n % Int64) - Int64 ELSE n % Int64

\* enum Token; a number has one for its sign and each of its widths.
END == 0
FALSE_ == 1
TRUE_ == 2
NULL == 3
ZERO == 10
FLOAT == 24
STRING_ == 30
ARRAY == 40
OBJECT == 50
NEG_INT == 1 :> 11 @@ 2 :> 13 @@ 4 :> 15 @@ 8 :> 17
POS_INT == 1 :> 12 @@ 2 :> 14 @@ 4 :> 16 @@ 8 :> 18
BINARY == 1 :> 81 @@ 2 :> 82 @@ 4 :> 83
WidthOf(tokens, t) == CHOOSE w \in DOMAIN tokens : tokens[w] = t

-----------------------------------------------------------------------------
\* Little endian.
Digits(n, width) == [i \in 1..width |-> (n \div Base^(i - 1)) % Base]
Undigits(s) == FoldRight(LAMBDA d, n : d + Base * n, s, 0)

Width(n) ==
  CASE n < Base -> 1 [] n \in Base..Base^2 - 1 -> 2
    [] n \in Base^2..Base^4 - 1 -> 4 [] n >= Base^4 -> 8

encodeInt(n) ==
  LET abs == IF n < 0 THEN -n ELSE n
      w == Width(abs)
  IN  IF n = 0 THEN <<ZERO>>
      ELSE <<IF n < 0 THEN NEG_INT[w] ELSE POS_INT[w]>> \o Digits(abs, w)

\* encodeNumber(): a double without a fraction goes as an integer; htole32() and
\* htole64() take an integer, and so drop the fraction of the others.
encodeNumber(v) ==
  CASE v.type = "int" -> encodeInt(v.v)
    [] v.type = "float" /\ v.v % 2 = 0 -> encodeInt(v.v \div 2)
    [] v.type = "float" /\ v.v % 2 # 0 -> <<FLOAT, v.v \div 2>>

\* The size of a binary takes 1, 2 or 4 bytes.
encodeBinary(s) == <<BINARY[Width(Len(s))]>> \o Digits(Len(s), Width(Len(s))) \o s

encodeString(s) == <<STRING_>> \o s \o <<END>>

RECURSIVE encodeValue(_)
encodeValue(v) ==
  CASE v.type = "string" -> encodeString(v.v)
    [] v.type \in {"int", "float"} -> encodeNumber(v)
    [] v.type = "object" ->
         <<OBJECT>> \o FlattenSeq([i \in DOMAIN v.v |-> encodeString(v.v[i][1])
                                                          \o encodeValue(v.v[i][2])]) \o <<END>>
    [] v.type = "array" ->
         <<ARRAY>> \o FlattenSeq([i \in DOMAIN v.v |-> encodeValue(v.v[i])]) \o <<END>>
    [] v.type = "bool" -> <<IF v.v THEN TRUE_ ELSE FALSE_>>
    [] v.type = "null" -> <<NULL>>
    [] v.type = "binary" -> encodeBinary(v.v)

-----------------------------------------------------------------------------
\* What is read from a stream: a value, or none, and the rest.
Got(x, rest) == [ok |-> TRUE, value |-> x, in |-> rest]
Failed(in) == [ok |-> FALSE, value |-> Val("none", 0), in |-> in]
From(s, n) == SubSeq(s, n, Len(s))

\* decodeString() stops at the first END and refuses the other control characters.
decodeString(in) ==
  LET ends == {i \in 2..Len(in) : in[i] = END \/ in[i] \in Controls}
      first == CHOOSE i \in ends : \A j \in ends : i <= j
  IN  IF in = <<>> \/ Head(in) # STRING_ \/ ends = {} \/ in[first] # END THEN Failed(in)
      ELSE Got(Val("string", SubSeq(in, 2, first - 1)), From(in, first + 1))

decodeInteger(in) ==
  LET minus == Head(in) \in Range(NEG_INT)
      w == WidthOf(IF minus THEN NEG_INT ELSE POS_INT, Head(in))
      n == Undigits(SubSeq(in, 2, 1 + w))
  IN  IF Head(in) = ZERO THEN Got(Val("int", 0), Tail(in))
      ELSE IF Len(in) < 1 + w THEN Failed(in)
      ELSE Got(Val("int", Signed(IF minus THEN -n ELSE n)), From(in, 2 + w))

decodeBinary(in) ==
  LET w == WidthOf(BINARY, Head(in))
      size == Undigits(SubSeq(in, 2, 1 + w))
  IN  IF Len(in) < 1 + w + size THEN Failed(in)
      ELSE Got(Val("binary", SubSeq(in, 2 + w, 1 + w + size)), From(in, 2 + w + size))

RECURSIVE decodeValue(_), Elements(_, _), Fields(_, _)

\* decodeArray(), past its token
Elements(in, got) ==
  LET x == decodeValue(in)
  IN  IF in # <<>> /\ Head(in) = END THEN Got(Val("array", got), Tail(in))
      ELSE IF ~x.ok THEN x
      ELSE Elements(x.in, Append(got, x.value))

\* decodeObject(), past its token; of two fields of one name the first stays
Fields(in, got) ==
  LET k == decodeString(in)
      x == decodeValue(k.in)
      name == k.value.v
  IN  IF in # <<>> /\ Head(in) = END THEN Got(Val("object", got), Tail(in))
      ELSE IF ~k.ok THEN k
      ELSE IF ~x.ok THEN x
      ELSE Fields(x.in, IF \E i \in DOMAIN got : got[i][1] = name THEN got
                        ELSE Append(got, <<name, x.value>>))

decodeValue(in) ==
  CASE in = <<>> -> Failed(in)
    [] Head(in) \in {FALSE_, TRUE_} -> Got(Val("bool", Head(in) = TRUE_), Tail(in))
    [] Head(in) = NULL -> Got(Val("null", 0), Tail(in))
    [] Head(in) \in {ZERO} \cup Range(POS_INT) \cup Range(NEG_INT) -> decodeInteger(in)
    [] Head(in) = FLOAT -> Got(Val("float", 2 * in[2]), From(in, 3))
    [] Head(in) = STRING_ -> decodeString(in)
    [] Head(in) = ARRAY -> Elements(Tail(in), <<>>)
    [] Head(in) = OBJECT -> Fields(Tail(in), <<>>)
    [] Head(in) \in Range(BINARY) -> decodeBinary(in)
    [] OTHER -> Failed(in)

-----------------------------------------------------------------------------
encode(v) == encodeValue(v)

\* As in the other serializers, STRICT refuses everything: nothing has read the end of
\* the data when the check for redundant bytes asks for eof().
decode(stream, strict) ==
  LET d == decodeValue(stream)
  IN  IF strict \/ ~d.ok THEN Val("thrown", 0) ELSE d.value

-----------------------------------------------------------------------------
\* Texts that come back: NUL would end them early, other controls are refused.
Texts(s) == \A i \in DOMAIN s : s[i] \notin Controls \cup {END}

RECURSIVE Plain(_)
Plain(v) ==
  CASE v.type = "float" -> v.v % 2 = 0
    [] v.type = "string" -> Texts(v.v)
    [] v.type = "array" -> \A i \in DOMAIN v.v : Plain(v.v[i])
    [] v.type = "object" -> \A i \in DOMAIN v.v : Texts(v.v[i][1]) /\ Plain(v.v[i][2])
    [] OTHER -> TRUE

\* A double without a fraction comes back as an integer.
RECURSIVE Settled(_)
Settled(v) ==
  CASE v.type = "float" -> Val("int", v.v \div 2)
    [] v.type = "array" -> Val("array", [i \in DOMAIN v.v |-> Settled(v.v[i])])
    [] v.type = "object" ->
         Val("object", [i \in DOMAIN v.v |-> <<v.v[i][1], Settled(v.v[i][2])>>])
    [] OTHER -> v

\* Every value without a control character comes back from decode(), the smallest of the
\* integers and the numbers that fill their bytes included, but for fractions.
ComesBack(v, strict) == Plain(v) /\ ~strict => decode(encode(v), strict) = Settled(v)

=============================================================================
