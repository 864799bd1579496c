------------------------------- MODULE MCData -------------------------------
(* Parts that meet nowhere, checked by one run: a script that is executed, a *)
(* value that a serializer writes and reads back, the addresses of the node, *)
(* a text that is encoded, a head of http, the hashes and ciphers, a         *)
(* signature, a hasher and its calls, the pools of locked memory and of      *)
(* database connections.                                                     *)
(* "part" says which of them is looked at; the others stand still.           *)
EXTENDS MCInterpreter, Addresses, Pools

VARIABLES part, value

dataVars == <<part, value, vars, addressVars, pool, db>>

Val(t, x) == [type |-> t, v |-> x]
\* Arrays and objects of two members.
Boxes(S, k, l) ==
  {Val("array", <<x, y>>) : x \in S, y \in S} \cup {Val("array", <<>>)} \cup
  {Val("object", <<<<k, x>>, <<l, y>>>>) : x \in S, y \in S}
Nested(leaves, small, k, l) == leaves \cup Boxes(leaves, k, l) \cup Boxes(Boxes(small, k, l), k, l)
EmptyObject == Val("object", <<>>)

\* Values around the bounds of each format: integers that just fill their bytes, texts
\* with characters that are escaped, and strings that come twice.
Amf3Values ==
  Nested({Val("null", 0), Val("bool", TRUE), Val("float", 6), Val("float", 5)}
           \cup {Val("int", n) : n \in {3, 4, 70, 600, 8^6 + 1, 8^6 + 4}}
           \cup {Val("string", s) : s \in {"", "k", "long"}},
         {Val("string", ""), Val("string", "k"), Val("string", "long")}, "k", "long")
    \cup {Val("binary", <<>>), Val("binary", <<1, 2>>), Val("binary", [i \in 1..9 |-> 5])}
    \cup {Val("float", 2 * n) : n \in {511, 512, 8^6 + 1, 8^6 + 4, 2^20 + 2^12}}
    \cup {Val("int", n) : n \in {511, 512, 8^5 + 7, 2^20 - 1, 2^20 + 1, 8^7 - 1, 7 * 8^7 + 8^6}}

TlvIntegers == {0, 1, 3, 4, 5, 15, 16, 255, 256, 32767}
TlvValues ==
  Nested({Val("null", 0), Val("bool", TRUE), Val("bool", FALSE), Val("float", 6), Val("float", 5)}
           \cup {Val("string", s) : s \in {<<>>, <<100, 9>>, <<100, 0, 100>>, <<7>>}}
           \cup {Val("int", n) : n \in {-32768, -256, -4, -1} \cup TlvIntegers}
           \cup {Val("binary", [i \in 1..n |-> 1]) : n \in {0, 3, 4, 16}},
         {Val("string", <<100>>), Val("int", 70), EmptyObject}, <<100>>, <<101>>)

JsonTexts ==
  {<<>>, <<"letter", "quote">>, <<"backslash", "newline">>, <<"slash", "wide">>, <<"far">>,
   <<"ctl">>, <<"mark">>, <<"mark", "letter", "close">>, <<"letter", "mark">>, <<"close">>}
JsonValues ==
  Nested({Val("null", 0), Val("bool", TRUE), Val("bool", FALSE), EmptyObject}
           \cup {Val("int", n) : n \in {0, -7, 10, 16, 120}}
           \cup {Val("float", n) : n \in {6, -5, -1, 21, 199, 240, -240, 242}}
           \cup {Val("string", s) : s \in JsonTexts} \cup {Val("binary", <<1, 2>>)},
         {Val("string", <<"slash">>), Val("int", 70), EmptyObject}, <<"mark">>, <<"wide">>)

UrlLeaves == {Val("text", <<"a">>), Val("text", <<>>), Val("binary", <<>>)}
\* The keys in the order of a std::map, with characters that the reader splits at.
UrlKeys == <<<<>>, <<"%", "1", "0">>, <<"%", "k">>, <<"[", "a">>, <<"a">>, <<"a", " ">>,
             <<"a", "&">>, <<"a", "+">>, <<"a", "=", "b">>, <<"a", "[", "]">>, <<"a", "]">>,
             <<"k">>>>
UrlValues ==
  LET leaves == UrlLeaves \cup {Val("text", <<"&", "%", " ", "=">>), Val("leaf", <<"-", "1">>),
                                Val("leaf", <<"1", "e", "+", "1">>)}
      keyed(K, S) == {Val("object", [i \in DOMAIN ks |-> <<ks[i], xs[i]>>]) :
                        ks \in K, xs \in [1..2 -> S]}
      one == {<<UrlKeys[i]>> : i \in DOMAIN UrlKeys}
      two == {<<UrlKeys[p[1]], UrlKeys[p[2]]>> : p \in {q \in (1..12) \X (1..12) : q[1] < q[2]}}
  IN  Nested(leaves, UrlLeaves, <<"k">>, <<"l">>) \cup {EmptyObject}
        \cup keyed(one \cup two, leaves)

\* Messages of the protocol.  A byte has 8 values here, so that lists of more than four
\* have a size of two bytes and indexes from 64 and 4096 on are four and eight.
Wire == INSTANCE Wire WITH Base <- 8, HashSize <- 2
Times(n, x) == [j \in 1..n |-> x]
H == <<1, 0>>
I2 == <<3, 1>>
I4 == <<1, 0, 7, 2>>
I8 == <<5, 4, 0, 6, 7, 1, 2, 3>>
AHeader == <<I4, H, H, I4, I4, I4, I4>>
AnAddress == <<I8, Times(16, 1), I2>>
ATimed == <<I4>> \o AnAddress
Inputs == {<<>>, <<<<<<H, I4>>, Times(6, <<2>>), I4>>>>}
Outputs == {<<>>, <<<<I8, <<<<0>>, <<5>>>>>>>>}
Transactions ==
  {<<I4, <<>>, in, out, <<>>, I4, I4, I4>> : in \in Inputs, out \in Outputs} \cup
  {<<I4, <<0, 1>>, in, out, Times(Len(in), w), I4, I4, I4>> :
     in \in Inputs, out \in Outputs,
     w \in {<<>>, <<<<>>, <<>>>>, <<<<4>>>>}}
Blocks == {<<AHeader, ts>> : ts \in {<<>>} \cup {Times(n, t) : n \in {1, 2}, t \in Transactions}}
Message(type, vs) == {[type |-> type, v |-> v] : v \in vs}
WireValues ==
  Message("version", {<<I4, I8, I8, AnAddress, AnAddress, I8, agent, I4, <<1>>>> :
                        agent \in {<<>>, <<4, 2>>, Times(6, 1)}})
  \cup Message("verack", {<<>>, Times(2, I4), Times(70, I4)})
  \cup Message("addr", {Times(n, ATimed) : n \in {0, 1, 5}})
  \cup UNION {Message(t, {Times(n, <<I4, H>>) : n \in {0, 1, 4, 5, 63, 64}}) :
                t \in {"inv", "getdata", "notfound"}}
  \cup UNION {Message(t, {<<I4, Times(n, H), H>> : n \in {0, 4, 5}}) :
                t \in {"getblocks", "getheaders"}}
  \cup Message("headers", {<<>>, <<<<AHeader>>>>} \cup {<<b>> : b \in Blocks}
                          \cup {Times(5, <<AHeader, <<>>>>), <<<<AHeader, <<>>>>, <<AHeader>>>>})
  \cup Message("block", Blocks)
  \cup Message("tx", Transactions)
  \cup UNION {Message(t, {I8}) : t \in {"ping", "pong", "feefilter"}}
  \cup Message("sendcmpct", {<<<<1>>, I8>>}) \cup Message("getaddr", {<<>>})
  \cup Message("sendheaders", {<<>>}) \cup Message("header", {<<I4, Times(12, 3), I4, I4>>})
  \cup Message("cmpctblock", {<<AHeader, I8, Times(n, Times(6, 2)), ts>> : n \in {0, 5},
                                 ts \in {<<>>} \cup {<<<<5, t>>>> : t \in Transactions}})
  \cup Message("blocktxn", {<<H, b[2]>> : b \in Blocks})
  \cup Message("getblocktxn", {<<H, s>> : s \in {<<>>, <<4>>, <<4, 5>>, <<0, 5000>>,
                                 <<2, 5, 70>>, <<63, 4096>>, <<2, 5, 9, 10>>}})

Amf3 == INSTANCE Amf3 WITH Group <- 4, Precision <- 20
Tlv == INSTANCE Tlv WITH Base <- 4, Controls <- {7}
Json == INSTANCE Json WITH Controls <- {"ctl"}, Digits <- 2
Url == INSTANCE Url WITH IndexNames <- <<<<"0">>, <<"1">>>>

\* Bytes that Base58 needs all its room for, and some that begin or end with zeros.
SumOf(data) == <<Len(data) % 256, IF data = <<>> THEN 3 ELSE data[Len(data)], 0, 9>>
Encodings == INSTANCE Encodings WITH Hash <- SumOf
ByteStrings ==
  UNION {[1..n -> {0, 1, 200, 255}] : n \in 0..2} \cup
  {[i \in 1..n |-> (from + step * i) % 256] : n \in {5, 17, 21, 30}, from \in {0, 255, 7}, step \in {0, 1}}
\* The last symbol of each length and the first of the next.
Symbols ==
  {65, 37, 43, 127, 128, 2047, 2048, 65535, 65536, 2097151, 2097152, 67108863, 67108864, 2147483647}
Uris ==
  [scheme : {"UNDEFINED", "HTTP", "HTTPS"}, host : {<<>>, <<97, 46>>}, port : {0, 10, 80, 443, 65535},
   path : {<<>>, <<47>>, <<47, 97, 37>>}, hasQuery : {TRUE}, query : {<<>>, <<97, 63, 47>>},
   hasFragment : {TRUE}, fragment : {<<>>, <<35, 97>>}]

\* Heads with headers that come once, twice and again, are empty, folded or unfit.
Heads == INSTANCE HttpHead WITH
  Spelled <- [w \in {"Host", "Connection", "connection", "Content-Type", "Content-Length"} |->
                CASE w = "Host" -> "HOST" [] w = "Content-Type" -> "CONTENT-TYPE"
                  [] w = "Content-Length" -> "CONTENT-LENGTH" [] OTHER -> "CONNECTION"]
GivenHeaders ==
  {[name |-> n, value |-> v, unique |-> u] :
     n \in {<<"Connection">>, <<"Set">>}, u \in BOOLEAN,
     v \in {<<>>, <<"Close">>, <<" ", "a", ":", "CR", "LF", " ", "b">>}} \cup
  {[name |-> <<"Transfer-Encoding">>, value |-> <<"gzip", ",", "chunked">>, unique |-> TRUE]}
HeadValues ==
  [code : {99, 100, 200}, message : {<<>>, <<"so", " ", "so">>}, body : {0, 7}, old : {FALSE},
   headers : {<<>>} \cup {<<h, k>> : h \in GivenHeaders, k \in GivenHeaders}] \cup
  [code : {404}, message : {<<>>}, body : {7}, old : BOOLEAN, headers : {<<>>}] \cup
  [method : {"GET", "POST"}, uri : {<<"/", "a">>, <<"/", "?", "k", "=">>},
   host : {<<"name", ":", "80">>}, body : {0, 7},
   type : {<<>>, <<"text", "/", "plain">>}]

\* The digests of the empty message that the standards give, of the hashes that have no other.
OfNothing ==
  {<<"CRIPEMD160",
     <<156, 17, 133, 165, 197, 233, 252, 84, 97, 40, 8, 151, 126, 232, 245, 72, 178, 37,
      141, 49>>>>,
   <<"CSHA512",
     <<207, 131, 225, 53, 126, 239, 184, 189, 241, 84, 40, 80, 214, 109, 128, 7, 214,
      32, 228, 5, 11, 87, 21, 220, 131, 244, 169, 33, 211, 108, 233, 206, 71, 208, 209,
      60, 93, 133, 242, 176, 255, 131, 24, 210, 135, 126, 236, 47, 99, 185, 49, 189,
      71, 65, 122, 129, 165, 56, 50, 122, 249, 39, 218, 62>>>>,
   <<"MD5",
     <<212, 29, 140, 217, 143, 0, 178, 4, 233, 128, 9, 152, 236, 248, 66, 126>>>>}

Hashes == INSTANCE Agreement
Everything == {"ASM", "SHANI", "SSE41", "AVX2"}
Processors ==
  {{}, {"sse4", "avx2", "xsave", "avx"}, {"sse4", "avx2", "xsave", "avx", "enabled"}, {"sse4", "shani"}}
Chosen == {Hashes!SHA256AutoDetect(b, c) : b \in SUBSET Everything, c \in Processors}
Sized(of, ns) == {[of |-> of, n |-> n] : n \in ns}
HashCases ==
  Sized("transform", {1, 77}) \cup Sized("hash", {0, 1, 55, 56, 63, 64, 119, 120}) \cup
  Sized("hmac", {0, 64, 65}) \cup Sized("murmur", 0..13) \cup Sized("sip", {0, 7, 8, 15, 16, 32, 36}) \cup
  Sized("sbox", {16 * k : k \in 0..15}) \cup
  {[of |-> "self", choice |-> Hashes!SHA256AutoDetect(Everything, c)] : c \in Processors} \cup
  {[of |-> "double", choice |-> c, n |-> 3] : c \in Chosen} \cup
  {[of |-> "double", choice |-> [Transform |-> "portable", many |-> {2, 4, 8}], n |-> 15]} \cup
  {[of |-> "cipher", size |-> s, n |-> n, pad |-> p] :
     s \in {16, 24, 32}, n \in {0, 1, 16, 17}, p \in BOOLEAN} \cup
  {[of |-> "stream", size |-> s, n |-> 4] : s \in {16, 32}} \cup
  {[of |-> "known", kind |-> d[1], msg |-> <<>>, digest |-> d[2]] : d \in OfNothing}

\* Two inputs and two outputs, and what others make of them.
Signed == INSTANCE Signed
AnInput(p, s) == [prevOut |-> p, sequence |-> s]
Payments ==
  {[version |-> 1, lockTime |-> l, ins |-> ins, outs |-> outs] :
     l \in {0, 9},
     ins \in {<<AnInput("p", s)>> : s \in {1, 2}} \cup
            {<<AnInput("p", s), AnInput(q, t)>> : s \in {1, 2}, t \in {0, 1}, q \in {"q", "r"}},
     outs \in {<<>>, <<"a">>, <<"a", "b">>, <<"b", "a">>, <<"a", "c">>}}
SignatureTypes ==
  {low \cup any : low \in {Signed!SIGHASH_ALL, Signed!SIGHASH_NONE, Signed!SIGHASH_SINGLE},
                 any \in {{}, Signed!SIGHASH_ANYONECANPAY}}
SignCases ==
  {c \in [tx : Payments, nIn : {1, 2}, type : SignatureTypes] : c.nIn <= Len(c.tx.ins)}
ACode == <<"DUP", "CODESEPARATOR", "CHECKSIG">>

Stream == INSTANCE HashStream WITH
  Sizes <- {0, 1, 55, 56, 63, 64, 65, 119, 120, 128, 130}, MaxCalls <- 4, hasher <- value

-----------------------------------------------------------------------------
NoScript ==
  /\ script = <<>> /\ flags = {} /\ version = "BASE" /\ outcome = "OK"
  /\ m = [pc |-> 1, stack |-> <<>>, alt |-> <<>>, cond |-> <<>>, ops |-> 0, sep |-> 1]

DataInit ==
  /\ AddressesInit /\ PoolsInit
  /\ \/ part = "script" /\ Init /\ value = 0
     \/ part = "addresses" /\ NoScript /\ value = 0
     \/ part = "amf3" /\ value \in Amf3Values /\ NoScript
     \/ part = "tlv" /\ value \in TlvValues /\ NoScript
     \/ part = "json" /\ value \in JsonValues /\ NoScript
     \/ part = "url" /\ value \in UrlValues /\ NoScript
     \/ part = "wire" /\ value \in WireValues /\ NoScript
     \/ part = "bytes" /\ value \in ByteStrings /\ NoScript
     \/ part = "text" /\ value \in UNION {[1..n -> Symbols] : n \in 0..2} /\ NoScript
     \/ part = "uri" /\ value \in Uris /\ NoScript
     \/ part = "head" /\ value \in HeadValues /\ NoScript
     \/ part = "tree" /\ value \in {[i \in 1..n |-> i] : n \in 1..9} /\ NoScript
     \/ part = "hash" /\ value \in HashCases /\ NoScript
     \/ part = "signed" /\ value \in SignCases /\ NoScript
     \/ part = "hasher" /\ Stream!Init /\ NoScript
     \/ part \in {"locked", "database"} /\ value = 0 /\ NoScript
  /\ part # "locked" => pool.limit = 0

DataNext ==
  /\ UNCHANGED part
  /\ \/ part = "script" /\ Next /\ UNCHANGED <<value, addressVars, pool, db>>
     \/ part = "addresses" /\ AddressesNext /\ UNCHANGED <<value, vars, pool, db>>
     \/ part = "hasher" /\ Stream!Next /\ UNCHANGED <<vars, addressVars, pool, db>>
     \/ part = "locked" /\ Locked!Next /\ UNCHANGED <<value, vars, addressVars, db>>
     \/ part = "database" /\ Lent!Next /\ UNCHANGED <<value, vars, addressVars, pool>>

DataSpec == DataInit /\ [][DataNext]_dataVars

-----------------------------------------------------------------------------
\* The types of Interpreter and of Addresses.
DataTypeOK == TypeOK /\ AddressesTypeOK


\* Whatever the processor, the build, the library or the cutting of a message, the same
\* bytes have the same hash, and a cipher undoes itself.  Of the inputs that nothing is done
\* to, the initial states are all there are.
DigestsAgree ==
  /\ part = "hash" => Hashes!Agrees(value)
  /\ [][part = "hasher" => Stream!DigestOfMessage']_dataVars
  /\ part = "signed" => Signed!SignsItsPart(ACode, value.tx, Payments, value.nIn, value.type)

\* TransactionSignatureSerializer.hpp of SIGHASH_NONE and SIGHASH_SINGLE: "let the others
\* update at will", "do not lock-in the txout payee at other indices".
OthersUpdateAtWill ==
  part = "signed" => Signed!LeavesTheRest(ACode, value.tx, Payments, value.nIn, value.type)
=============================================================================
