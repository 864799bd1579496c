------------------------------ MODULE Encodings ------------------------------
(***************************************************************************)
(* Bytes as text and back: Base58 (other/Base58.cpp), Base32 and Base64    *)
(* (utils/encoding), numbers in hex (util/Hex.cpp, types/Blob.hpp),        *)
(* percent-encoding with its repair of UTF-8 (PercentEncoding.cpp), the    *)
(* addresses of http (HttpUri.cpp), and the root of a tree of hashes       *)
(* (other/MerkleTree.hpp).  A character of a Base text is its place in the *)
(* alphabet, a character of the other texts its code.                      *)
(***************************************************************************)
EXTENDS Naturals, SequencesExt

CONSTANT
  Hash(_)   \* the hash whose first four bytes check a Base58 text

\* No bytes.
Failed == <<256>>
Values(f) == f \o <<>>
Drop(s, n) == SubSeq(s, n + 1, Len(s))
\* How many of the first elements have the property.
Leading(s, P(_)) ==
  LET stop == {i \in DOMAIN s : ~P(s[i])} IN IF stop = {} THEN Len(s) ELSE Min(stop) - 1
Groups(s, n) ==
  [i \in 1..((Len(s) + n - 1) \div n) |-> SubSeq(s, (i - 1) * n + 1, Min({i * n, Len(s)}))]
Filled(s, n, with) == s \o [i \in 1..(n - Len(s)) |-> with]

-----------------------------------------------------------------------------
(* Base58: a number with its digits in an array of a size that should do,    *)
(* the lowest first, of which the first "length" are used.                   *)
-----------------------------------------------------------------------------
Space == 100
Nul == 101
Bad == 102

Digits(size) == [d |-> [i \in 1..size |-> 0], length |-> 0, fits |-> TRUE]
\* x is multiplied by "times", and what is carried goes on as long as there is something
\* to carry or a digit in use; the assertion is that nothing is left of it at the end.
Carried(x, times, base, digit) ==
  LET carry[i \in 0..Len(x.d)] == IF i = 0 THEN digit ELSE (x.d[i] * times + carry[i - 1]) \div base
      ends == {i \in x.length..Len(x.d) : carry[i] = 0}
      length == IF ends = {} THEN Len(x.d) ELSE Min(ends)
  IN  [d |-> Values([i \in DOMAIN x.d |->
               IF i <= length THEN (x.d[i] * times + carry[i - 1]) % base ELSE x.d[i]]),
       length |-> length, fits |-> x.fits /\ carry[length] = 0]
\* The used digits, the highest first, without zeros in front.
Result(x) ==
  LET used == Reverse(SubSeq(x.d, 1, x.length))
  IN  Drop(used, Leading(used, LAMBDA digit : digit = 0))

EncodeBase58(data) ==
  LET zeroes == Leading(data, LAMBDA byte : byte = 0)
      size == ((Len(data) - zeroes) * 136566) \div 100000 + 1
      x == FoldLeft(LAMBDA y, byte : Carried(y, 256, 58, byte), Digits(size), Drop(data, zeroes))
  IN  [text |-> SubSeq(data, 1, zeroes) \o Result(x), fits |-> x.fits]

\* Up to the first NUL.
DecodeBase58(str) ==
  LET psz == Drop(str, Leading(str, LAMBDA c : c = Space))
      zeroes == Leading(psz, LAMBDA c : c = 0)
      rest == Drop(psz, zeroes)
      size == (Len(rest) * 73322) \div 100000 + 1
      n == Leading(rest, LAMBDA c : c \notin {Nul, Space})
      x == FoldLeft(LAMBDA y, c : Carried(y, 58, 256, c), Digits(size), SubSeq(rest, 1, n))
      after == Drop(rest, n)
      end == Drop(after, Leading(after, LAMBDA c : c = Space))
  IN  IF Bad \in Range(SubSeq(rest, 1, n)) \/ (end # <<>> /\ end[1] # Nul)
      THEN [ok |-> FALSE, bytes |-> <<>>, fits |-> TRUE]
      ELSE [ok |-> TRUE, bytes |-> SubSeq(psz, 1, zeroes) \o Result(x), fits |-> x.fits]

\* With the first four bytes of a hash of the data.
EncodeBase58Check(data) == EncodeBase58(data \o SubSeq(Hash(data), 1, 4))
DecodeBase58Check(str) ==
  LET decoded == DecodeBase58(str)
      n == Len(decoded.bytes) - 4
      data == SubSeq(decoded.bytes, 1, n)
  IN  IF ~decoded.ok \/ Len(decoded.bytes) < 4 THEN Failed
      ELSE IF SubSeq(Hash(data), 1, 4) # Drop(decoded.bytes, n) THEN Failed
      ELSE data

-----------------------------------------------------------------------------
(* Base32 and Base64: groups of bytes as groups of characters, the last one   *)
(* filled with Pad; what is neither a character nor Pad is skipped.           *)
-----------------------------------------------------------------------------
Pad == 200
Eight(b) ==
  <<b[1] \div 8, ((b[1] * 4) % 32) + b[2] \div 64, (b[2] \div 2) % 32, ((b[2] * 16) % 32) + b[3] \div 16,
    ((b[3] * 2) % 32) + b[4] \div 128, (b[4] \div 4) % 32, ((b[4] * 8) % 32) + b[5] \div 32, b[5] % 32>>
Five(c) ==
  <<c[1] * 8 + c[2] \div 4, c[2] * 64 + c[3] * 2 + c[4] \div 16, c[4] * 16 + c[5] \div 2,
    c[5] * 128 + c[6] * 4 + c[7] \div 8, c[7] * 32 + c[8]>>
Four(b) == <<b[1] \div 4, (b[1] % 4) * 16 + b[2] \div 16, (b[2] % 16) * 4 + b[3] \div 64, b[3] % 64>>
Three(c) == <<c[1] * 4 + c[2] \div 16, c[2] * 16 + c[3] \div 4, c[3] * 64 + c[4]>>
OfByte(s) == [i \in DOMAIN s |-> s[i] % 256]

EncodeGroups(data, n, To(_), Used(_), width) ==
  FlattenSeq([g \in DOMAIN Groups(data, n) |->
    LET group == Groups(data, n)[g]
        chars == To(Filled(group, n, 0))
    IN  Filled(IF Len(group) = n THEN chars ELSE SubSeq(chars, 1, Used(Len(group))), width, Pad)])
DecodeGroups(text, n, From(_), Used(_), width, alphabet) ==
  LET before == SubSeq(text, 1, Leading(text, LAMBDA c : c # Pad))
      chars == SelectSeq(before, LAMBDA c : c < alphabet)
  IN  FlattenSeq([g \in DOMAIN Groups(chars, width) |->
        LET group == Groups(chars, width)[g]
            \* A character that is not found is 255.
            bytes == OfByte(From(Filled(group, width, 255)))
        IN  IF Len(group) = width THEN bytes ELSE SubSeq(bytes, 1, Used(Len(group)))])

Base32Encode(data) == EncodeGroups(data, 5, Eight, LAMBDA i : <<2, 4, 5, 7>>[i], 8)
Base32Decode(text) == DecodeGroups(text, 5, Five, LAMBDA i : <<0, 1, 0, 2, 3, 0, 4>>[i], 8, 32)
Base64Encode(data) == EncodeGroups(data, 3, Four, LAMBDA i : i + 1, 4)
Base64Decode(text) == DecodeGroups(text, 3, Three, LAMBDA i : i - 1, 4, 64)

-----------------------------------------------------------------------------
(* Hex                                                                       *)
-----------------------------------------------------------------------------
NoDigit == 255
digitToInt(c) ==
  CASE c \in 48..57 -> c - 48 [] c \in 65..70 -> c - 65 + 10 [] c \in 97..102 -> c - 97 + 10
    [] OTHER -> NoDigit
isDigit(c) == digitToInt(c) # NoDigit
HexOf(n) == IF n < 10 THEN 48 + n ELSE 87 + n
IsSpace(c) == c \in {9, 10, 11, 12, 13, 32}

\* Pairs up to the first character that is neither a digit nor a space.
Parse(str) ==
  LET shown == SelectSeq(str, LAMBDA c : ~IsSpace(c))
      digits == SubSeq(shown, 1, Leading(shown, isDigit))
  IN  [i \in 1..(Len(digits) \div 2) |-> 16 * digitToInt(digits[2 * i - 1]) + digitToInt(digits[2 * i])]
isHexString(str) == (\A i \in DOMAIN str : isDigit(str[i])) /\ str # <<>> /\ Len(str) % 2 = 0

\* Numbers of n bytes, the lowest first; written the other way round.
BlobOfBytes(data, n) ==
  LET size == IF Len(data) < n THEN Len(data) ELSE n
      \* What does not fit is looked for from the place "size" on, from the front.
      over == \E i \in (size + 1)..Len(data) : data[i] # 0
  IN  IF over THEN Failed ELSE Filled(SubSeq(Reverse(data), 1, size), n, 0)
BlobOfText(str, n) ==
  LET begin == Drop(str, Leading(str, IsSpace))
      prefix == Len(begin) > 1 /\ begin[1] = 48 /\ begin[2] \in {88, 120}
      number == IF prefix THEN Drop(begin, 2) ELSE begin
      value == Drop(number, Leading(number, LAMBDA c : c = 48))
      low == Reverse(SubSeq(value, 1, Leading(value, isDigit)))
      digit(i) == IF i \in DOMAIN low THEN digitToInt(low[i]) ELSE 0
  IN  [i \in 1..n |-> digit(2 * i - 1) + 16 * digit(2 * i)]
BlobText(blob) ==
  FlattenSeq([i \in DOMAIN blob |->
    LET byte == blob[Len(blob) + 1 - i] IN <<HexOf(byte \div 16), HexOf(byte % 16)>>])

-----------------------------------------------------------------------------
(* Percent-encoding.  What is decoded is taken for UTF-8 and written as such  *)
(* again; from the first byte on that cannot begin a symbol, and for a symbol *)
(* that does not go on, bytes are taken for symbols.                          *)
-----------------------------------------------------------------------------
Unreserved == (65..90) \cup (97..122) \cup (48..57) \cup {45, 95, 46, 126}
UpperHex(n) == IF n < 10 THEN 48 + n ELSE 55 + n
Encode(text) ==
  FlattenSeq([i \in DOMAIN text |->
    IF text[i] \in Unreserved THEN <<text[i]>>
    ELSE <<37, UpperHex(text[i] \div 16), UpperHex(text[i] % 16)>>])

\* The byte of the escape that the text begins with.
Escaped(in) ==
  IF Len(in) < 3 THEN Failed
  ELSE IF in[1] # 37 \/ ~isDigit(in[2]) \/ ~isDigit(in[3]) THEN Failed
  ELSE <<16 * digitToInt(in[2]) + digitToInt(in[3])>>

\* How many bytes a symbol has by its first, and what of it is in that byte.
Lengths ==
  <<[from |-> 0, less |-> 0], [from |-> 192, less |-> 192], [from |-> 224, less |-> 224],
    [from |-> 240, less |-> 240], [from |-> 248, less |-> 248], [from |-> 252, less |-> 252]>>
BytesOf(first) == Max({n \in 1..6 : first >= Lengths[n].from})
\* The next bytes of a symbol, as many as there are of the n.
Following(in, n) ==
  LET byte(k) == Escaped(Drop(in, 3 * (k - 1)))
      goes(k) == byte(k) # Failed /\ byte(k)[1] \in 128..191
      upto == CHOOSE k \in 0..n : (\A j \in 1..k : goes(j)) /\ (k = n \/ ~goes(k + 1))
  IN  [k \in 1..upto |-> byte(k)[1] % 64]

\* One symbol: how much of the input it takes, and whether more UTF-8 is expected.
Symbol(in, isUtf8) ==
  LET first == Escaped(in)[1]
      n == BytesOf(first)
      more == Following(Drop(in, 3), n - 1)
      alone == [symbol |-> first, taken |-> 3, utf8 |-> isUtf8]
  IN  IF ~isUtf8 THEN alone
      ELSE IF first \in 128..191 THEN [alone EXCEPT !.utf8 = FALSE]
      ELSE IF Len(more) < n - 1 THEN alone
      ELSE [symbol |-> FoldLeft(LAMBDA s, b : 64 * s + b, first - Lengths[n].less, more),
            taken |-> 3 * n, utf8 |-> TRUE]

\* A symbol as its bytes: the fewest that hold its bits.
Tops == <<128, 2048, 65536, 2097152, 67108864>>
Utf8(symbol) ==
  LET n == IF symbol < Tops[5] THEN Min({k \in 1..5 : symbol < Tops[k]}) ELSE 6
      part(k) == (symbol \div 64^(n - k)) % 64
  IN  IF n = 1 THEN <<symbol>>
      ELSE <<Lengths[n].from + symbol \div 64^(n - 1)>> \o [k \in 1..(n - 1) |-> 128 + part(k + 1)]

Decode(text) ==
  LET step[left \in 0..Len(text), isUtf8 \in BOOLEAN] ==
        LET in == Drop(text, Len(text) - left)
            sym == Symbol(in, isUtf8)
            rest(taken, utf8) == step[left - taken, utf8]
            put(bytes, tail) == IF tail = Failed THEN Failed ELSE bytes \o tail
        IN  IF left = 0 THEN <<>>
            ELSE IF in[1] # 37 THEN put(<<in[1]>>, rest(1, isUtf8))
            ELSE IF Escaped(in) = Failed THEN Failed
            ELSE put(Utf8(sym.symbol), rest(sym.taken, sym.utf8))
  IN  step[Len(text), TRUE]
urldecode(text) == Decode([i \in DOMAIN text |-> IF text[i] = 43 THEN 32 ELSE text[i]])

-----------------------------------------------------------------------------
(* Addresses of http; the prefix before the host is one character.           *)
-----------------------------------------------------------------------------
NoUri ==
  [scheme |-> "UNDEFINED", host |-> <<>>, port |-> 0, path |-> <<>>, hasQuery |-> FALSE,
   query |-> <<>>, hasFragment |-> FALSE, fragment |-> <<>>]
SchemeText == [UNDEFINED |-> 1000, HTTP |-> 1001, HTTPS |-> 1002]
DefaultPort == [UNDEFINED |-> 0, HTTP |-> 80, HTTPS |-> 443]
Wrong == [NoUri EXCEPT !.scheme = "wrong"]
Lower(c) == IF c \in 65..90 THEN c + 32 ELSE c

\* The part up to one of the characters that end it, if the text begins with "sign".
Until(text, ends) == Leading(text, LAMBDA c : c \notin ends \cup {0} /\ ~IsSpace(c))
Part(text, sign, ends) ==
  IF text = <<>> \/ text[1] # sign THEN [has |-> FALSE, v |-> <<>>, rest |-> text]
  ELSE LET n == Until(Tail(text), ends)
       IN  [has |-> TRUE, v |-> SubSeq(text, 2, n + 1), rest |-> Drop(text, n + 1)]

\* Checked after each digit.
PortOf(digits) ==
  LET after[i \in 0..Len(digits)] ==
        IF i = 0 THEN 0
        ELSE IF after[i - 1] = 65536 \/ digits[i] \notin 48..57 THEN 65536
        ELSE LET port == 10 * after[i - 1] + digits[i] - 48 IN IF port \in 1..65535 THEN port ELSE 65536
  IN  after[Len(digits)]

ParseUri(text) ==
  LET scheme == CHOOSE x \in DOMAIN SchemeText : SchemeText[x] = text[1]
      \* "/": there is no host and no port.
      bare == text # <<>> /\ text[1] = 47
      host == IF bare THEN <<>> ELSE SubSeq(text, 2, 1 + Until(Tail(text), {58, 47, 63, 35}))
      port == Part(Drop(text, 1 + Len(host)), 58, {47, 63, 35})
      path == IF bare THEN Part(text, 47, {63, 35}) ELSE Part(port.rest, 47, {63, 35})
      query == Part(path.rest, 63, {35})
      fragment == Part(query.rest, 35, {})
  IN  IF text = <<>> \/ (~bare /\ \A x \in DOMAIN SchemeText : SchemeText[x] # text[1]) THEN Wrong
      ELSE IF \E i \in DOMAIN host : host[i] \notin (48..57) \cup (65..90) \cup (97..122) \cup {45, 46}
      THEN Wrong
      ELSE IF ~bare /\ PortOf(port.v) = 65536 THEN Wrong
      ELSE [scheme |-> IF bare THEN "UNDEFINED" ELSE scheme,
            host |-> Values([i \in DOMAIN host |-> Lower(host[i])]),
            port |-> IF bare THEN 0 ELSE IF port.has THEN PortOf(port.v) ELSE DefaultPort[scheme],
            path |-> IF path.has THEN <<47>> \o path.v ELSE <<>>,
            hasQuery |-> query.has, query |-> query.v,
            hasFragment |-> fragment.has, fragment |-> fragment.v]

Decimal(n) ==
  LET digits == IF n < 10 THEN 1 ELSE IF n < 100 THEN 2 ELSE IF n < 1000 THEN 3
                ELSE IF n < 10000 THEN 4 ELSE 5
  IN  Values([i \in 1..digits |-> 48 + ((n \div 10^(digits - i)) % 10)])
UriText(u) ==
  (IF u.scheme # "UNDEFINED" \/ u.host # <<>> THEN <<SchemeText[u.scheme]>> ELSE <<>>) \o u.host
    \o (IF u.scheme # "UNDEFINED" /\ u.port \notin {0, DefaultPort[u.scheme]}
        THEN <<58>> \o Decimal(u.port) ELSE <<>>)
    \o u.path
    \o (IF u.hasQuery THEN <<63>> \o u.query ELSE <<>>)
    \o (IF u.hasFragment THEN <<35>> \o u.fragment ELSE <<>>)

-----------------------------------------------------------------------------
(* The root of a tree of hashes, level by level in one array: the hashes of   *)
(* the pairs are written over the front while the rest is still read.         *)
-----------------------------------------------------------------------------
\* The hash of two hashes: they stand for it.
Pair(x, y) == <<x, y>>
MerkleLevel(hashes) ==
  LET all == IF Len(hashes) > 1 /\ Len(hashes) % 2 = 1 THEN Append(hashes, hashes[Len(hashes)]) ELSE hashes
      written == FoldLeft(LAMBDA buf, i : [buf EXCEPT ![i] = Pair(buf[2 * i - 1], buf[2 * i])],
                          all, [i \in 1..(Len(all) \div 2) |-> i])
  IN  SubSeq(written, 1, Len(all) \div 2)
MerkleRoot(hashes, null) ==
  LET level[n \in 0..Len(hashes)] ==
        IF n = 0 THEN hashes
        ELSE IF Len(level[n - 1]) > 1 THEN MerkleLevel(level[n - 1]) ELSE level[n - 1]
  IN  IF hashes = <<>> THEN null ELSE level[Len(hashes)][1]

-----------------------------------------------------------------------------
(* What they promise                                                         *)
-----------------------------------------------------------------------------
\* Bytes come back from every text, and room is enough: no assertion of Base58 fails.
BytesComeBack(data) ==
  LET b58 == EncodeBase58(data)  back == DecodeBase58(b58.text)
      checked == EncodeBase58Check(data)
  IN  /\ b58.fits /\ back.fits /\ back.bytes = data
      /\ DecodeBase58(<<Space>> \o b58.text \o <<Space, Nul, Bad>>).bytes = data
      /\ checked.fits /\ DecodeBase58Check(checked.text) = data
      /\ Base32Decode(Base32Encode(data)) = data
      /\ Base64Decode(Base64Encode(data)) = data
      /\ \A n \in {0, Len(data)} :
           Base64Decode(SubSeq(Base64Encode(data), 1, n) \o <<Bad>> \o Drop(Base64Encode(data), n)) = data
      /\ LET number == BlobOfBytes(data, Len(data))
         IN  BlobOfText(BlobText(number), Len(data)) = number /\ Parse(BlobText(number)) = data

\* Text in UTF-8 comes back from its escapes.  (What is not UTF-8 does not: it is taken for
\* symbols of one byte and comes back longer.)
TextComesBack(symbols) ==
  LET text == FlattenSeq([i \in DOMAIN symbols |-> Utf8(symbols[i])])
  IN  urldecode(Encode(text)) = text

\* An address reads back, if it has a scheme or no port, and a path that begins with "/"
\* and cannot be taken for a host.
UriComesBack(u) ==
  /\ u.scheme = "UNDEFINED" => u.port = 0
  /\ u.scheme # "UNDEFINED" => u.port # 0
  /\ u.path # <<>> \/ u.scheme # "UNDEFINED" \/ u.host # <<>>
  => ParseUri(UriText(u)) = u

\* The root of the left half with that of the right half, which is a tree of the same
\* height where what is missing is the last hash, or the last root of each level.
Tree(hashes) ==
  LET root[h \in 0..Len(hashes), i \in 1..Len(hashes)] ==
        IF h = 0 THEN hashes[i]
        ELSE LET below == (Len(hashes) + 2^(h - 1) - 1) \div 2^(h - 1)
                 right == IF 2 * i <= below THEN 2 * i ELSE below
             IN  Pair(root[h - 1, 2 * i - 1], root[h - 1, right])
  IN  root[CHOOSE h \in 0..Len(hashes) : 2^h >= Len(hashes) /\ (h = 0 \/ 2^(h - 1) < Len(hashes)), 1]
RootIsOfTree(hashes) == MerkleRoot(hashes, <<>>) = Tree(hashes)
=============================================================================
