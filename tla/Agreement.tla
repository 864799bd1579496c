------------------------------ MODULE Agreement ------------------------------
(***************************************************************************)
(* What is there twice must agree: the transforms of SHA-256 whichever the *)
(* processor allows, the hashes that the node and the library both have,   *)
(* the variants of MurmurHash2, a hash in pieces and at once; and a cipher *)
(* must undo what it did.  A case says what is compared on which input.    *)
(***************************************************************************)
EXTENDS Sha2Vectors

LOCAL D == INSTANCE Digests
LOCAL S == INSTANCE ShortHashes
LOCAL Stream == INSTANCE HashStream WITH Sizes <- {}, MaxCalls <- 0, hasher <- 0

Input(n, seed) == Tup([i \in 1..n |-> (i * 37 + (i \div 64) * seed + seed) % 256])
First(s, n) == SubSeq(s, 1, n)
Beyond(s, n) == SubSeq(s, n + 1, Len(s))

-----------------------------------------------------------------------------
(* Whole hashes: the blocks that a hasher of HashStream puts together, sent   *)
(* through the transforms.                                                   *)
-----------------------------------------------------------------------------
Blocks(kind, pieces) ==
  LET written == FoldLeft(LAMBDA h, data : Stream!Written(h, data), Stream!New(kind), pieces)
  IN  Cut(Stream!Finalized(written).done, IF kind = "CSHA512" THEN 128 ELSE 64)
Hashed(kind, pieces) ==
  LET through(tr(_, _), start) == After(tr, start, Blocks(kind, pieces))
      little(words) == FlattenSeq([i \in DOMAIN words |-> WriteLE(words[i])])
  IN  CASE kind = "CSHA256" -> WriteWords(through(Transform, Initialize))
        [] kind = "SHA256" -> WriteWords(through(LibraryTransform, Initialize))
        [] kind = "CSHA512" -> WriteWords(through(Transform512, Initial512))
        [] kind = "CSHA1" -> WriteWords(through(D!SHA1_Transform, D!Initial))
        [] kind = "SHA1" -> WriteWords(through(D!LibrarySHA1, D!Initial))
        [] kind = "CRIPEMD160" -> little(through(D!RIPEMD160_Transform, D!Initial))
        [] kind = "MD5" -> little(through(D!md5_process, First(D!Initial, 4)))
HashAtOnce(kind, bytes) == Hashed(kind, <<bytes>>)
LOCAL C == INSTANCE Ciphers WITH Hash <- HashAtOnce

-----------------------------------------------------------------------------
(* The cases                                                                 *)
-----------------------------------------------------------------------------
TransformsAgree(in) ==
  LET next == Transform(Initialize, in)
  IN  /\ TransformSse4(Initialize, in) = next
      /\ TransformShani(Initialize, in) = next
      /\ LibraryTransform(Initialize, in) = next
DoublesAgree(choice, in) ==
  SHA256D64(choice, in) =
    FlattenSeq([i \in 1..(Len(in) \div 64) |->
                  Hashed("CSHA256", <<Hashed("CSHA256", <<Cut(in, 64)[i]>>)>>)])
\* The node's and the library's, the message in two pieces for one of them.
HashesAgree(msg, cut) ==
  LET pieces == <<First(msg, cut), Beyond(msg, cut)>>
  IN  /\ Hashed("CSHA256", <<msg>>) = Hashed("SHA256", pieces)
      /\ Hashed("CSHA1", pieces) = Hashed("SHA1", <<msg>>)
HmacsAgree(key, msg) ==
  C!CHMAC("CSHA256", 64, key, msg) = C!LibraryHMAC("SHA256", 64, key, msg)

Seed == W(\h9747, \hb28c)
MurmursAgree(key) ==
  /\ \A align \in 0..3 : S!MurmurHashAligned2(key, Seed, align) = S!MurmurHash2(key, Seed)
  /\ S!MurmurHashNeutral2(key, Seed) = S!MurmurHash2(key, Seed)
  /\ \A cut \in 0..Len(key) :
       S!End(S!AddPiece(S!AddPiece(S!Begin(Seed), First(key, cut)), Beyond(key, cut)))
         = S!MurmurHash2A(key, Seed)
  /\ \A cut \in 0..Len(key) :
       S!CrcAppend(S!CrcAppend(S!CrcStart, First(key, cut)), Beyond(key, cut))
         = S!CrcAppend(S!CrcStart, key)
SipKey == Words(<<\h0706, \h0504, \h0302, \h0100, \h0f0e, \h0d0c, \h0b0a, \h0908>>, 4)
SipsAgree(data) ==
  LET node == S!SipFinalize(S!WriteBytes(S!CSipHasher(SipKey[1], SipKey[2]), data))
      words(h, bytes) == After(LAMBDA x, w : S!WriteWord(x, ReadLE(w)), h, Cut(bytes, 8))
  IN  /\ \A cut \in 0..Len(data) :
           S!computeHash(S!SipAppend(S!SipAppend(S!SipHash(SipKey[1], SipKey[2]), First(data, cut)),
                                     Beyond(data, cut))) = node
      /\ Len(data) % 8 = 0 =>
           S!SipFinalize(words(S!CSipHasher(SipKey[1], SipKey[2]), data)) = node
      /\ Len(data) = 32 => S!SipHashUint256(SipKey[1], SipKey[2], ReadLE(data)) = node
      /\ Len(data) = 36 =>
           S!SipHashUint256Extra(SipKey[1], SipKey[2], ReadLE(First(data, 32)),
                                 ReadLE(Beyond(data, 32))) = node

\* The substitution of every byte: the inverse of the field of 256 elements and the affine
\* map of FIPS 197.
Times2(a) == IF a < 128 THEN 2 * a ELSE Xor16((2 * a) % 256, 27)
Product(a, b) ==
  LET times[i \in 0..7] == IF i = 0 THEN a ELSE Times2(times[i - 1])
      bit(i) == (b \div 2^i) % 2
  IN  FoldLeft(LAMBDA sum, i : IF bit(i - 1) = 1 THEN Xor16(sum, times[i - 1]) ELSE sum, 0,
               [i \in 1..8 |-> i])
Substituted(x, y) ==
  LET turn(v, n) == ((v * 2^n) % 256) + (v \div 2^(8 - n))
  IN  Xor16(Xor16(Xor16(Xor16(x, turn(x, 1)), turn(x, 2)), Xor16(turn(x, 3), turn(x, 4))), 99) = y
SubstitutesAll(from) ==
  LET bytes == Tup([i \in 1..16 |-> from + i - 1])
      out == C!SaveBytes(C!SubBytes(C!LoadBytes(bytes)))
  IN  /\ C!SaveBytes(C!InvSubBytes(C!LoadBytes(out))) = bytes
      /\ \A i \in 1..16 :
           \E inv \in 0..255 :
             /\ IF bytes[i] = 0 THEN inv = 0 ELSE Product(bytes[i], inv) = 1
             /\ Substituted(inv, out[i])
KeyOf(size) ==
  LET key == Input(size, 5)
  IN  CASE size = 16 -> C!AES128_init(key) [] size = 24 -> C!AES192_init(key)
        [] size = 32 -> C!AES256_init(key)
CipherUndone(size, data, pad) ==
  LET rounds == KeyOf(size)
      text == C!CBCEncrypt(rounds, Input(16, 9), data, pad)
  IN  IF data = <<>> \/ (~pad /\ Len(data) % 16 # 0) THEN text = <<>>
      ELSE /\ Len(text) = IF pad THEN 16 * (Len(data) \div 16 + 1) ELSE Len(data)
           /\ C!CBCDecrypt(rounds, Input(16, 9), text, pad) = data
\* A stream taken in blocks, or from a place on, is the stream; the place has 64 bits.
StreamGoesOn(size, iv) ==
  LET start == C!SetIV(C!SetKey(Input(size, 3)), iv)
      near == C!Seek(start, W(65535, 65535) \o Zero(2))
      whole == C!Output(near, 150)
      first == C!Output(near, 64)
  IN  /\ C!Output(first.input, 86).out = Beyond(whole.out, 64)
      /\ C!Output(C!Seek(start, Zero(2) \o Word(1, 2)), 86).out = Beyond(whole.out, 64)

Agrees(case) ==
  CASE case.of = "transform" -> TransformsAgree(Input(64, case.n))
    [] case.of = "double" -> DoublesAgree(case.choice, Input(64 * case.n, 11))
    [] case.of = "self" -> SelfTest(case.choice)
    [] case.of = "hash" -> HashesAgree(Input(case.n, 1), case.n \div 3)
    [] case.of = "hmac" -> HmacsAgree(Input(case.n, 2), Input(20, 4))
    [] case.of = "murmur" -> MurmursAgree(Input(case.n, 6))
    [] case.of = "sip" -> SipsAgree(Input(case.n, 7))
    [] case.of = "sbox" -> SubstitutesAll(case.n)
    [] case.of = "cipher" -> CipherUndone(case.size, Input(case.n, 8), case.pad)
    [] case.of = "stream" -> StreamGoesOn(case.size, Words(<<1, 2, 3, case.n>>, 4)[1])
    [] case.of = "known" -> Hashed(case.kind, <<case.msg>>) = case.digest
=============================================================================
