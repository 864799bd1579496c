------------------------------ MODULE Ciphers ------------------------------
(***************************************************************************)
(* AES as crypto/ctaes computes it, on eight slices of sixteen bits rather *)
(* than with tables, the CBC mode of crypto/aes.cpp, the ChaCha20 stream   *)
(* of crypto/chacha20.cpp, and HMAC as the node (crypto/hmac_sha256) and as *)
(* the library have it.                                                    *)
(***************************************************************************)
EXTENDS Words

CONSTANT
  Hash(_, _)   \* the hash of some bytes by a kind of hasher

a & b == And16(a, b)
a ^^ b == Xor16(a, b)
a | b == a + b - And16(a, b)
Inv(a) == Radix - 1 - a

-----------------------------------------------------------------------------
(* The state: slice i holds bit i - 1 of every byte, row by row.             *)
-----------------------------------------------------------------------------
Slices(F(_)) == Tup([i \in 1..8 |-> F(i)])
LoadByte(byte, r, c) == Slices(LAMBDA i : ((byte \div 2^(i - 1)) % 2) * 2^(4 * r + c))
Joined(s, t) == Slices(LAMBDA i : s[i] | t[i])
LoadBytes(data16) ==
  After(LAMBDA s, k : Joined(s, LoadByte(data16[k], (k - 1) % 4, (k - 1) \div 4)),
        Slices(LAMBDA i : 0), [k \in 1..16 |-> k])
SaveBytes(s) ==
  LET at(b, k) == ((s[b] \div 2^(4 * ((k - 1) % 4) + (k - 1) \div 4)) % 2) * 2^(b - 1)
  IN  Tup([k \in 1..16 |-> at(1, k) + at(2, k) + at(3, k) + at(4, k)
                             + at(5, k) + at(6, k) + at(7, k) + at(8, k)])

\* The S-box as a circuit: linear, then the inverse in GF(2^8), then linear.
Before(s) ==
  LET U0 == s[8]  U1 == s[7]  U2 == s[6]  U3 == s[5]
      U4 == s[4]  U5 == s[3]  U6 == s[2]  U7 == s[1]
      T1 == U0 ^^ U3    T2 == U0 ^^ U5    T3 == U0 ^^ U6    T4 == U3 ^^ U5
      T5 == U4 ^^ U6    T6 == T1 ^^ T5    T7 == U1 ^^ U2    T8 == U7 ^^ T6
      T9 == U7 ^^ T7    T10 == T6 ^^ T7   T11 == U1 ^^ U5   T12 == U2 ^^ U5
      T13 == T3 ^^ T4   T14 == T6 ^^ T11  T15 == T5 ^^ T11  T16 == T5 ^^ T12
      T17 == T9 ^^ T16  T18 == U3 ^^ U7   T19 == T7 ^^ T18  T20 == T1 ^^ T19
      T21 == U6 ^^ U7   T22 == T7 ^^ T21  T23 == T2 ^^ T22  T24 == T2 ^^ T10
      T25 == T20 ^^ T17 T26 == T3 ^^ T16  T27 == T1 ^^ T12
  IN  <<T1, T2, T3, T4, 0, T6, 0, T8, T9, T10, 0, 0, T13, T14, T15, T16, T17, 0, T19, T20, 0,
        T22, T23, T24, T25, T26, T27, U7>>
BeforeInv(s) ==
  LET U0 == s[8]  U1 == s[7]  U2 == s[6]  U3 == s[5]
      U4 == s[4]  U5 == s[3]  U6 == s[2]  U7 == s[1]
      T23 == U0 ^^ U3         T22 == Inv(U1 ^^ U3)    T2 == Inv(U0 ^^ U1)
      T1 == U3 ^^ U4          T24 == Inv(U4 ^^ U7)    R5 == U6 ^^ U7
      T8 == Inv(U1 ^^ T23)    T19 == T22 ^^ R5        T9 == Inv(U7 ^^ T1)
      T10 == T2 ^^ T24        T13 == T2 ^^ R5         T3 == T1 ^^ R5
      T25 == Inv(U2 ^^ T1)    R13 == U1 ^^ U6         T17 == Inv(U2 ^^ T19)
      T20 == T24 ^^ R13       T4 == U4 ^^ T8          R17 == Inv(U2 ^^ U5)
      R18 == Inv(U5 ^^ U6)    R19 == Inv(U2 ^^ U4)    D == U0 ^^ R17
      T6 == T22 ^^ R17        T16 == R13 ^^ R19       T27 == T1 ^^ R18
      T15 == T10 ^^ T27       T14 == T10 ^^ R18       T26 == T3 ^^ T16
  IN  <<T1, T2, T3, T4, 0, T6, 0, T8, T9, T10, 0, 0, T13, T14, T15, T16, T17, 0, T19, T20, 0,
        T22, T23, T24, T25, T26, T27, D>>
\* The gates M46 to M63; t holds T1 to T27, and D as the last.
Shared(t) ==
  LET M1 == t[13] & t[6]  M6 == t[3] & t[16]  M11 == t[1] & t[15]
      M13 == (t[4] & t[27]) ^^ M11  M15 == (t[2] & t[10]) ^^ M11
      M20 == (t[14] ^^ M1) ^^ ((t[23] & t[8]) ^^ M13)
      M21 == ((t[19] & t[28]) ^^ M1) ^^ (t[24] ^^ M15)
      M22 == (t[26] ^^ M6) ^^ ((t[22] & t[9]) ^^ M13)
      M23 == ((t[20] & t[17]) ^^ M6) ^^ (M15 ^^ t[25])
      M25 == M22 & M20
      M37 == M21 ^^ ((M20 ^^ M21) & (M23 ^^ M25))
      M38 == (M20 ^^ M25) ^^ (M21 | (M20 & M23))
      M39 == M23 ^^ ((M22 ^^ M23) & (M21 ^^ M25))
      M40 == (M22 ^^ M25) ^^ (M23 | (M21 & M22))
      M41 == M38 ^^ M40  M42 == M37 ^^ M39  M43 == M37 ^^ M38  M44 == M39 ^^ M40
      M45 == M42 ^^ M41
  IN  <<M44 & t[6], M40 & t[8], M39 & t[28], M43 & t[16], M38 & t[9], M37 & t[17],
        M42 & t[15], M45 & t[27], M41 & t[10], M44 & t[13], M40 & t[23], M39 & t[19],
        M43 & t[3], M38 & t[22], M37 & t[20], M42 & t[1], M45 & t[4], M41 & t[2]>>
AfterShared(m) ==
  LET M(i) == m[i - 45]
      L0 == M(61) ^^ M(62)  L1 == M(50) ^^ M(56)  L2 == M(46) ^^ M(48)  L3 == M(47) ^^ M(55)
      L4 == M(54) ^^ M(58)  L5 == M(49) ^^ M(61)  L6 == M(62) ^^ L5     L7 == M(46) ^^ L3
      L8 == M(51) ^^ M(59)  L9 == M(52) ^^ M(53)  L10 == M(53) ^^ L4    L11 == M(60) ^^ L2
      L12 == M(48) ^^ M(51) L13 == M(50) ^^ L0    L14 == M(52) ^^ M(61) L15 == M(55) ^^ L1
      L16 == M(56) ^^ L0    L17 == M(57) ^^ L1    L18 == M(58) ^^ L8    L19 == M(63) ^^ L4
      L20 == L0 ^^ L1       L21 == L1 ^^ L7       L22 == L3 ^^ L12      L23 == L18 ^^ L2
      L24 == L15 ^^ L9      L25 == L6 ^^ L10      L26 == L7 ^^ L9       L27 == L8 ^^ L10
      L28 == L11 ^^ L14     L29 == L11 ^^ L17
  IN  <<Inv(L6 ^^ L23), Inv(L13 ^^ L27), L25 ^^ L29, L20 ^^ L22,
        L6 ^^ L21, Inv(L19 ^^ L28), Inv(L16 ^^ L26), L6 ^^ L24>>
AfterSharedInv(m) ==
  LET M(i) == m[i - 45]
      P0 == M(52) ^^ M(61)  P1 == M(58) ^^ M(59)  P2 == M(54) ^^ M(62)  P3 == M(47) ^^ M(50)
      P4 == M(48) ^^ M(56)  P5 == M(46) ^^ M(51)  P6 == M(49) ^^ M(60)  P7 == P0 ^^ P1
      P8 == M(50) ^^ M(53)  P9 == M(55) ^^ M(63)  P10 == M(57) ^^ P4    P11 == P0 ^^ P3
      P12 == M(46) ^^ M(48) P13 == M(49) ^^ M(51) P14 == M(49) ^^ M(62) P15 == M(54) ^^ M(59)
      P16 == M(57) ^^ M(61) P17 == M(58) ^^ P2    P18 == M(63) ^^ P5    P19 == P2 ^^ P3
      P20 == P4 ^^ P6       P22 == P2 ^^ P7       P23 == P7 ^^ P8       P24 == P5 ^^ P7
      P25 == P6 ^^ P10      P26 == P9 ^^ P11      P27 == P10 ^^ P18     P28 == P11 ^^ P25
      P29 == P15 ^^ P20
  IN  <<P9 ^^ P16, P14 ^^ P23, P19 ^^ P24, P23 ^^ P27, P12 ^^ P22, P17 ^^ P28, P26 ^^ P29,
        P13 ^^ P22>>
SubBytes(s) == Of(AfterShared, Of(Shared, Of(Before, s)))
InvSubBytes(s) == Of(AfterSharedInv, Of(Shared, Of(BeforeInv, s)))

\* Row r of a slice is its r-th group of four bits: it turns by r.
TurnRow(nibble, r) == (nibble \div 2^r) + (nibble % 2^r) * 2^(4 - r)
Row(v, r) == (v \div 16^r) % 16
TurnRows(v, by(_)) ==
  TurnRow(Row(v, 0), by(0)) + 16 * TurnRow(Row(v, 1), by(1))
    + 256 * TurnRow(Row(v, 2), by(2)) + 4096 * TurnRow(Row(v, 3), by(3))
ShiftRows(s) == Slices(LAMBDA i : TurnRows(s[i], LAMBDA r : r))
InvShiftRows(s) == Slices(LAMBDA i : TurnRows(s[i], LAMBDA r : (4 - r) % 4))

ROT(x, b) == (x \div 16^b) + (x % 16^b) * 16^(4 - b)
\* Where the product by x of the byte overflows, slices 1, 2, 4 and 5 get the top bit.
MultX(s) ==
  Slices(LAMBDA i : IF i = 1 THEN s[8]
                    ELSE IF i \in {2, 4, 5} THEN s[i - 1] ^^ s[8] ELSE s[i - 1])
AddRoundKey(s, round) == Slices(LAMBDA i : s[i] ^^ round[i])
MixColumns(s) ==
  LET s01 == Slices(LAMBDA i : s[i] ^^ ROT(s[i], 1))
      s123 == Slices(LAMBDA i : ROT(s01[i], 1) ^^ ROT(s[i], 3))
  IN  AddRoundKey(MultX(s01), s123)
InvMixColumns(s) ==
  LET m == MixColumns(s)
      t02 == Slices(LAMBDA i : m[i] ^^ ROT(m[i], 2))
  IN  AddRoundKey(m, MultX(MultX(t02)))

-----------------------------------------------------------------------------
(* The key schedule: a column at a time, the last one in column.             *)
-----------------------------------------------------------------------------
Column(v, c) == (v \div 2^c) & \h1111
GetOneColumn(a, c) == Slices(LAMBDA i : Column(a[i], c))
KeySetupTransform(s, r) == Slices(LAMBDA i : ROT(s[i], 1) ^^ r[i])

AES_setup(key, nkeywords, nrounds) ==
  LET zero == Slices(LAMBDA i : 0)
      word(r, i) ==
        Joined(Joined(LoadByte(key[4 * i + 1], 0, i % 4), LoadByte(key[4 * i + 2], 1, i % 4)),
               Joined(LoadByte(key[4 * i + 3], 2, i % 4), LoadByte(key[4 * i + 4], 3, i % 4)))
      put(rounds, i, col) ==
        [rounds EXCEPT ![i \div 4 + 1] = Joined(rounds[i \div 4 + 1], col)]
      given ==
        After(LAMBDA rounds, i : put(rounds, i, word(rounds, i)),
              Tup([i \in 1..(nrounds + 1) |-> zero]), [i \in 1..nkeywords |-> i - 1])
      last == nkeywords - 1
      transform(x, i) ==
        IF i % nkeywords = 0 THEN KeySetupTransform(SubBytes(x.column), x.rcon)
        ELSE IF nkeywords > 6 /\ i % nkeywords = 4 THEN SubBytes(x.column) ELSE x.column
      step(x, i) ==
        LET old == GetOneColumn(x.rounds[(i - nkeywords) \div 4 + 1], (i - nkeywords) % 4)
            col == AddRoundKey(transform(x, i), old)
        IN  [column |-> col,
             rcon |-> IF i % nkeywords = 0 THEN MultX(x.rcon) ELSE x.rcon,
             rounds |-> put(x.rounds, i, Slices(LAMBDA b : Column(col[b], 0) * 2^(i % 4)))]
  IN  After(step,
            [column |-> GetOneColumn(given[last \div 4 + 1], last % 4),
             rcon |-> Slices(LAMBDA i : IF i = 1 THEN 1 ELSE 0), rounds |-> given],
            [k \in 1..(4 * (nrounds + 1) - nkeywords) |-> nkeywords + k - 1]).rounds

AES_encrypt(rounds, plain16) ==
  LET n == Len(rounds)
      step(s, round) == AddRoundKey(MixColumns(ShiftRows(SubBytes(s))), round)
      s == After(step, AddRoundKey(LoadBytes(plain16), rounds[1]), SubSeq(rounds, 2, n - 1))
  IN  SaveBytes(AddRoundKey(ShiftRows(SubBytes(s)), rounds[n]))
AES_decrypt(rounds, cipher16) ==
  LET n == Len(rounds)
      step(s, round) == InvMixColumns(AddRoundKey(InvSubBytes(InvShiftRows(s)), round))
      s == After(step, AddRoundKey(LoadBytes(cipher16), rounds[n]),
                 Backwards(SubSeq(rounds, 2, n - 1)))
  IN  SaveBytes(AddRoundKey(InvSubBytes(InvShiftRows(s)), rounds[1]))

AES128_init(key16) == AES_setup(key16, 4, 10)
AES192_init(key24) == AES_setup(key24, 6, 12)
AES256_init(key32) == AES_setup(key32, 8, 14)

-----------------------------------------------------------------------------
(* CBC with the key schedule of AES: the result is the bytes that were        *)
(* written, none after a failure.                                            *)
-----------------------------------------------------------------------------
AES_BLOCKSIZE == 16
Mix16(s, t) == Tup([i \in 1..16 |-> Xor16(s[i], t[i])])
CBCEncrypt(rounds, iv, data, pad) ==
  LET padsize == Len(data) % AES_BLOCKSIZE
      rest == SubSeq(data, Len(data) - padsize + 1, Len(data))
      padded == rest \o Tup([i \in 1..(AES_BLOCKSIZE - padsize) |-> AES_BLOCKSIZE - padsize])
      step(x, block) ==
        LET c == AES_encrypt(rounds, Mix16(x.mixed, block)) IN [mixed |-> c, out |-> x.out \o c]
      blocks == Cut(data, AES_BLOCKSIZE) \o (IF pad THEN <<padded>> ELSE <<>>)
  IN  IF data = <<>> \/ (~pad /\ padsize # 0) THEN <<>>
      ELSE After(step, [mixed |-> iv, out |-> <<>>], blocks).out
CBCDecrypt(rounds, iv, data, pad) ==
  LET step(x, block) == [prev |-> block, out |-> x.out \o Mix16(AES_decrypt(rounds, block), x.prev)]
      out == After(step, [prev |-> iv, out |-> <<>>], Cut(data, AES_BLOCKSIZE)).out
      padsize == out[Len(out)]
      fail == \/ padsize = 0 \/ padsize > AES_BLOCKSIZE
              \/ \E i \in 0..(padsize - 1) : out[Len(out) - i] # padsize
  IN  IF data = <<>> \/ Len(data) % AES_BLOCKSIZE # 0 THEN <<>>
      ELSE IF ~pad THEN out
      ELSE IF fail THEN <<>> ELSE SubSeq(out, 1, Len(out) - padsize)

-----------------------------------------------------------------------------
(* ChaCha20: input is the sixteen words of the key, the position and the iv. *)
-----------------------------------------------------------------------------
QUARTERROUND(x, a, b, c, d) ==
  LET a1 == Add(x[a], x[b])  d1 == Rotl(Xor(x[d], a1), 16)
      c1 == Add(x[c], d1)    b1 == Rotl(Xor(x[b], c1), 12)
      a2 == Add(a1, b1)      d2 == Rotl(Xor(d1, a2), 8)
      c2 == Add(c1, d2)      b2 == Rotl(Xor(b1, c2), 7)
  IN  [x EXCEPT ![a] = a2, ![b] = b2, ![c] = c2, ![d] = d2]
Quarters ==
  <<<<1, 5, 9, 13>>, <<2, 6, 10, 14>>, <<3, 7, 11, 15>>, <<4, 8, 12, 16>>,
    <<1, 6, 11, 16>>, <<2, 7, 12, 13>>, <<3, 8, 9, 14>>, <<4, 5, 10, 15>>>>
DoubleRound(x, i) == After(LAMBDA y, q : QUARTERROUND(y, q[1], q[2], q[3], q[4]), x, Quarters)

ReadWords(bytes) == LET c == Cut(bytes, 4) IN Tup([i \in DOMAIN c |-> ReadLE(c[i])])
sigma == Words(<<\h6170, \h7865, \h3320, \h646e, \h7962, \h2d32, \h6b20, \h6574>>, 2)
tau == Words(<<\h6170, \h7865, \h3120, \h646e, \h7962, \h2d36, \h6b20, \h6574>>, 2)
SetKey(k) ==
  LET w == ReadWords(k)
  IN  (IF Len(k) = 32 THEN sigma ELSE tau) \o SubSeq(w, 1, 4)
        \o SubSeq(w, Len(w) - 3, Len(w)) \o Cut(Zero(8), 2)
SetIV(input, iv) == [input EXCEPT ![15] = SubSeq(iv, 1, 2), ![16] = SubSeq(iv, 3, 4)]
Seek(input, pos) == [input EXCEPT ![13] = SubSeq(pos, 1, 2), ![14] = SubSeq(pos, 3, 4)]

Block(j) ==
  LET x == After(DoubleRound, j, [i \in 1..10 |-> i])
      out == Tup([i \in 1..16 |-> WriteLE(Add(x[i], j[i]))])
  IN  After(LAMBDA all, b : all \o b, <<>>, out)
NextBlock(j) ==
  LET low == Add(j[13], Word(1, 2))
  IN  [j EXCEPT ![13] = low, ![14] = IF low = Zero(2) THEN Add(j[14], Word(1, 2)) ELSE j[14]]
\* What is left of the last block is dropped.
Output(input, bytes) ==
  LET step(x, i) == [input |-> NextBlock(x.input), out |-> x.out \o Block(x.input)]
      all == After(step, [input |-> input, out |-> <<>>], [i \in 1..((bytes + 63) \div 64) |-> i])
  IN  [all EXCEPT !.out = SubSeq(all.out, 1, bytes)]

-----------------------------------------------------------------------------
(* HMAC with any hash; a key that is longer than a block is hashed first.    *)
-----------------------------------------------------------------------------
XorAll(bytes, x) == Tup([i \in DOMAIN bytes |-> Xor16(bytes[i], x)])
BlockKey(kind, size, key) ==
  LET rkey == IF Len(key) <= size THEN key ELSE Hash(kind, key)
  IN  rkey \o Tup([i \in 1..(size - Len(rkey)) |-> 0])
CHMAC(kind, size, key, msg) ==
  LET outer == XorAll(BlockKey(kind, size, key), \h5c)
      inner == XorAll(outer, Xor16(\h5c, \h36))
  IN  Hash(kind, outer \o Hash(kind, inner \o msg))
LibraryHMAC(kind, size, key, msg) ==
  LET key0 == BlockKey(kind, size, key)
      Si == XorAll(key0, \h36)
      So == XorAll(key0, \h5c)
  IN  Hash(kind, So \o Hash(kind, Si \o msg))
=============================================================================
