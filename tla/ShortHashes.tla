---------------------------- MODULE ShortHashes ----------------------------
(***************************************************************************)
(* The hashes that are not digests: SipHash as the node (other/SipHash)    *)
(* and as the library has it (hash/SipHash), the seven variants of         *)
(* MurmurHash2 and the library's CRC32.  Several of them are meant to be   *)
(* the same function: in one go or in pieces, for any bytes or for the     *)
(* words of a uint256 only, with the data aligned or not.                  *)
(***************************************************************************)
EXTENDS Words

Padded(bytes, n) == bytes \o Tup([i \in 1..(n - Len(bytes)) |-> 0])
Whole(bytes, n) == SubSeq(bytes, 1, Len(bytes) - (Len(bytes) % n))
Rest(bytes, n) == SubSeq(bytes, Len(bytes) - (Len(bytes) % n) + 1, Len(bytes))

-----------------------------------------------------------------------------
(* SipHash-2-4                                                               *)
-----------------------------------------------------------------------------
SIPROUND(v) ==
  LET a0 == Add(v[1], v[2])        a1 == Xor(Rotl(v[2], 13), a0)
      a2 == Add(v[3], v[4])        a3 == Xor(Rotl(v[4], 16), a2)
      b0 == Add(Rotl(a0, 32), a3)  b2 == Add(a2, a1)
  IN  <<b0, Xor(Rotl(a1, 17), b2), Rotl(b2, 32), Xor(Rotl(a3, 21), b0)>>

SipKeys ==
  Words(<<\h736f, \h6d65, \h7073, \h6575, \h646f, \h7261, \h6e64, \h6f6d,
          \h6c79, \h6765, \h6e65, \h7261, \h7465, \h6462, \h7974, \h6573>>, 4)
SipStart(k0, k1) ==
  <<Xor(SipKeys[1], k0), Xor(SipKeys[2], k1), Xor(SipKeys[3], k0), Xor(SipKeys[4], k1)>>
SipMix(v, t) ==
  LET w == SIPROUND(SIPROUND([v EXCEPT ![4] = Xor(v[4], t)]))
  IN  [w EXCEPT ![1] = Xor(w[1], t)]
SipFinish(v) ==
  LET r == SIPROUND(SIPROUND(SIPROUND(SIPROUND([v EXCEPT ![3] = Xor(v[3], Word(255, 4))]))))
  IN  Xor(Xor3(r[1], r[2], r[3]), r[4])
Top(byte) == <<0, 0, 0, 256 * byte>>

\* The node's hasher keeps the bytes of an unfinished word in tmp.
CSipHasher(k0, k1) == [v |-> SipStart(k0, k1), tmp |-> Zero(4), count |-> 0]
WriteWord(h, data) == [h EXCEPT !.v = SipMix(h.v, data), !.count = h.count + 8]
WriteByte(h, byte) ==
  LET t == Or(h.tmp, Shl(Word(byte, 4), 8 * (h.count % 8)))
  IN  IF (h.count + 1) % 8 = 0
      THEN [v |-> SipMix(h.v, t), tmp |-> Zero(4), count |-> h.count + 1]
      ELSE [h EXCEPT !.tmp = t, !.count = h.count + 1]
WriteBytes(h, data) == After(WriteByte, h, data)
SipFinalize(h) == SipFinish(SipMix(h.v, Or(h.tmp, Top(h.count % 256))))

SipHashUint256(k0, k1, val) ==
  SipFinish(SipMix(After(SipMix, SipStart(k0, k1), Cut(val, 4)), Top(32)))
SipHashUint256Extra(k0, k1, val, extra) ==
  SipFinish(SipMix(After(SipMix, SipStart(k0, k1), Cut(val, 4)), Or(Top(36), extra \o Zero(2))))

\* The library's keeps up to seven bytes in d_buf.
SipHash(k0, k1) == [v |-> SipStart(k0, k1), buf |-> <<>>, total |-> 0]
SipAppend(h, data) ==
  LET total == h.total + Len(data)
      rest == IF h.buf = <<>> THEN data ELSE SubSeq(data, 9 - Len(h.buf), Len(data))
      first ==
        IF h.buf = <<>> THEN h.v
        ELSE SipMix(h.v, ReadLE(h.buf \o SubSeq(data, 1, 8 - Len(h.buf))))
  IN  IF Len(h.buf) + Len(data) < 8 THEN [h EXCEPT !.buf = h.buf \o data, !.total = total]
      ELSE [v |-> After(LAMBDA v, b : SipMix(v, ReadLE(b)), first, Cut(rest, 8)),
            buf |-> Rest(rest, 8), total |-> total]
computeHash(h) ==
  SipFinish(SipMix(h.v, Or(Top(h.total % 256), ReadLE(Padded(h.buf, 8)))))

-----------------------------------------------------------------------------
(* MurmurHash2                                                               *)
-----------------------------------------------------------------------------
M32 == <<\he995, \h5bd1>>
M64 == Words(<<\hc6a4, \ha793, \h5bd1, \he995>>, 4)[1]

Mixed(k, m, r) == LET a == Mul(k, m) IN Mul(Xor(a, Shr(a, r)), m)
MIX(h, k) == Xor(Mul(h, M32), Mixed(k, M32, 24))
Fours(data) == LET c == Cut(data, 4) IN Tup([i \in DOMAIN c |-> ReadLE(c[i])])
TailWord(rest) == ReadLE(Padded(rest, 4))
Short(h, rest) == IF rest = <<>> THEN h ELSE Mul(Xor(h, TailWord(rest)), M32)
Last(h) ==
  LET a == Mul(Xor(h, Shr(h, 13)), M32) IN Xor(a, Shr(a, 15))

MurmurHash2(key, seed) ==
  LET h == After(MIX, Xor(seed, Word(Len(key), 2)), Fours(Whole(key, 4)))
  IN  Last(Short(h, Rest(key, 4)))
\* The words put together from their bytes.
MurmurHashNeutral2(key, seed) ==
  LET word(b) == Or(Or(Word(b[1], 2), Shl(Word(b[2], 2), 8)),
                    Or(Shl(Word(b[3], 2), 16), Shl(Word(b[4], 2), 24)))
      h == After(LAMBDA g, b : MIX(g, word(b)), Xor(seed, Word(Len(key), 2)), Cut(key, 4))
  IN  Last(Short(h, Rest(key, 4)))

\* Only aligned reads: t holds the last bytes of one read, d those of the next.
MurmurHashAligned2(key, seed, align) ==
  LET start == Xor(seed, Word(Len(key), 2))
      sr == 8 * align  sl == 8 * (4 - align)
      join(t, d) == Or(Shr(t, sr), Shl(d, sl))
      after == SubSeq(key, 5 - align, Len(key))
      rest == Rest(after, 4)
      aligned == After(LAMBDA x, d : [h |-> MIX(x.h, join(x.t, d)), t |-> d],
                       [h |-> start, t |-> Shl(TailWord(SubSeq(key, 1, 4 - align)), 8 * align)],
                       Fours(Whole(after, 4)))
  IN  IF align = 0 \/ Len(key) < 4 THEN MurmurHash2(key, seed)
      ELSE IF Len(rest) >= align
      THEN Last(Short(MIX(aligned.h, join(aligned.t, TailWord(SubSeq(rest, 1, align)))),
                      SubSeq(rest, align + 1, Len(rest))))
      ELSE Last(Mul(Xor(aligned.h, join(aligned.t, TailWord(rest))), M32))

MurmurHash2A(key, seed) ==
  LET h == After(MIX, seed, Fours(Whole(key, 4)))
  IN  Last(MIX(MIX(h, TailWord(Rest(key, 4))), Word(Len(key), 2)))

\* CMurmurHash2A, the same in pieces: the tail takes the bytes that do not fill a word.
Begin(seed) == [hash |-> seed, tail |-> <<>>, size |-> 0]
MixTail(x, bytes) ==
  IF Len(x.tail) + Len(bytes) = 4
  THEN [x EXCEPT !.hash = MIX(x.hash, ReadLE(x.tail \o bytes)), !.tail = <<>>]
  ELSE [x EXCEPT !.tail = x.tail \o bytes]
AddPiece(x, data) ==
  LET n == IF x.tail = <<>> THEN 0
           ELSE IF Len(data) < 4 - Len(x.tail) THEN Len(data) ELSE 4 - Len(x.tail)
      first == MixTail(x, SubSeq(data, 1, n))
      rest == SubSeq(data, n + 1, Len(data))
      body == [first EXCEPT !.hash = After(MIX, first.hash, Fours(Whole(rest, 4))),
                            !.size = x.size + Len(data)]
  IN  IF n = Len(data) THEN body ELSE MixTail(body, Rest(rest, 4))
End(x) == Last(MIX(MIX(x.hash, TailWord(x.tail)), Word(x.size, 2)))

MurmurHash64A(key, seed) ==
  LET rest == Rest(key, 8)
      step(h, b) == Mul(Xor(h, Mixed(ReadLE(b), M64, 47)), M64)
      h == After(step, Xor(seed, Mul(Word(Len(key), 4), M64)), Cut(key, 8))
      g == IF rest = <<>> THEN h ELSE Mul(Xor(h, ReadLE(Padded(rest, 8))), M64)
      f == Mul(Xor(g, Shr(g, 47)), M64)
  IN  Xor(f, Shr(f, 47))
MurmurHash64B(key, seed) ==
  LET words == Fours(Whole(key, 4))
      pick(k) == Tup([i \in 1..((Len(words) + 1 - k) \div 2) |-> words[2 * i - 1 + k]])
      h1 == After(MIX, Xor(SubSeq(seed, 1, 2), Word(Len(key), 2)), pick(0))
      h2 == Short(After(MIX, SubSeq(seed, 3, 4), pick(1)), Rest(key, 4))
      turn(a, b, n) == Mul(Xor(a, Shr(b, n)), M32)
      a1 == turn(h1, h2, 18)  a2 == turn(h2, a1, 22)
      b1 == turn(a1, a2, 17)  b2 == turn(a2, b1, 19)
  IN  b2 \o b1

-----------------------------------------------------------------------------
(* CRC32                                                                     *)
-----------------------------------------------------------------------------
Polynome(t) ==
  IF t[1] % 2 = 1 THEN Xor(Shr(t, 1), <<\h8320, \hEDB8>>) ELSE Shr(t, 1)
Hash(t) ==
  Polynome(Polynome(Polynome(Polynome(Polynome(Polynome(Polynome(Polynome(t))))))))
crc_table == [t \in 0..255 |-> Hash(Word(t, 2))]
\* A char from 128 up is negative, but only the low byte of the sum is looked up.
CrcByte(crc, byte) ==
  Xor(crc_table[Xor(crc, Word(byte, 2))[1] % 256], Shr(crc, 8))
CrcAppend(crc, bytes) == After(CrcByte, crc, bytes)
CrcStart == <<65535, 65535>>
CrcHash(crc) == Not(crc)
=============================================================================
