------------------------------ MODULE Digests ------------------------------
(***************************************************************************)
(* The transforms of the other hashes: SHA-1 as the node (crypto/sha1.cpp) *)
(* and as the library has it (hash/SHA1.cpp), RIPEMD-160                   *)
(* (crypto/ripemd160.cpp), and the library's MD5 (hash/MD5.cpp).  Where    *)
(* the code rotates the names of its variables, the model turns places.    *)
(***************************************************************************)
EXTENDS Words

Plus(v, w) == Tup([i \in DOMAIN v |-> Add(v[i], w[i])])
Steps(n) == Tup([i \in 1..n |-> i])
WordsBE(block) == LET c == Cut(block, 4) IN Tup([i \in 1..16 |-> ReadBE(c[i])])
WordsLE(block) == LET c == Cut(block, 4) IN Tup([i \in 1..16 |-> ReadLE(c[i])])
H(high, low) == <<low, high>>

-----------------------------------------------------------------------------
(* SHA-1                                                                     *)
-----------------------------------------------------------------------------
Initial ==
  <<H(\h6745, \h2301), H(\hEFCD, \hAB89), H(\h98BA, \hDCFE), H(\h1032, \h5476), H(\hC3D2, \hE1F0)>>
SHA1_K == <<H(\h5A82, \h7999), H(\h6ED9, \hEBA1), H(\h8F1B, \hBCDC), H(\hCA62, \hC1D6)>>

SHA1_f1(b, c, d) == Xor(d, And(b, Xor(c, d)))
SHA1_f2(b, c, d) == Xor3(b, c, d)
SHA1_f3(b, c, d) == Or(And(b, c), And(d, Or(b, c)))
SHA1_Round(s, f, k, w) ==
  <<Add(Add4(s[5], f, k, w), Rotl(s[1], 5)), s[1], Rotl(s[2], 30), s[3], s[4]>>

SHA1_blk(w, t) == Rotl(Xor(Xor3(w[t - 3], w[t - 8], w[t - 14]), w[t - 16]), 1)
SHA1_Words(block) ==
  After(LAMBDA all, t : Append(all, SHA1_blk(all, 16 + t)), WordsBE(block), Steps(64))

SHA1_Transform(s, chunk) ==
  LET w == SHA1_Words(chunk)
      step(x, t) ==
        SHA1_Round(x, CASE t <= 20 -> SHA1_f1(x[2], x[3], x[4])
                        [] t \in 41..60 -> SHA1_f3(x[2], x[3], x[4])
                        [] OTHER -> SHA1_f2(x[2], x[3], x[4]),
                   SHA1_K[((t - 1) \div 20) + 1], w[t])
  IN  Plus(s, After(step, s, Steps(80)))

\* The library's operations, named after what they do to (v, w, x, y, z).
R0(s, w) == SHA1_Round(s, Xor(And(s[2], Xor(s[3], s[4])), s[4]), SHA1_K[1], w)
R2(s, w) == SHA1_Round(s, Xor3(s[2], s[3], s[4]), SHA1_K[2], w)
R3(s, w) == SHA1_Round(s, Or(And(Or(s[2], s[3]), s[4]), And(s[2], s[3])), SHA1_K[3], w)
R4(s, w) == SHA1_Round(s, Xor3(s[2], s[3], s[4]), SHA1_K[4], w)
LibrarySHA1(s, block) ==
  LET w == SHA1_Words(block)
      step(x, t) ==
        CASE t <= 20 -> R0(x, w[t]) [] t \in 21..40 -> R2(x, w[t])
          [] t \in 41..60 -> R3(x, w[t]) [] t > 60 -> R4(x, w[t])
  IN  Plus(s, After(step, s, Steps(80)))

-----------------------------------------------------------------------------
(* RIPEMD-160: two lines of eighty rounds, with the words and the rotations  *)
(* of each                                                                   *)
-----------------------------------------------------------------------------
LeftWords ==
  <<
    1, 2, 3, 4, 5, 6, 7, 8, 9, 10, 11, 12, 13, 14, 15, 16,
    8, 5, 14, 2, 11, 7, 16, 4, 13, 1, 10, 6, 3, 15, 12, 9,
    4, 11, 15, 5, 10, 16, 9, 2, 3, 8, 1, 7, 14, 12, 6, 13,
    2, 10, 12, 11, 1, 9, 13, 5, 14, 4, 8, 16, 15, 6, 7, 3,
    5, 1, 6, 10, 8, 13, 3, 11, 15, 2, 4, 9, 12, 7, 16, 14>>
LeftTurns ==
  <<
    11, 14, 15, 12, 5, 8, 7, 9, 11, 13, 14, 15, 6, 7, 9, 8,
    7, 6, 8, 13, 11, 9, 7, 15, 7, 12, 15, 9, 11, 7, 13, 12,
    11, 13, 6, 7, 14, 9, 13, 15, 14, 8, 13, 6, 5, 12, 7, 5,
    11, 12, 14, 15, 14, 15, 9, 8, 9, 14, 5, 6, 8, 6, 5, 12,
    9, 15, 5, 11, 6, 8, 13, 12, 5, 12, 13, 14, 11, 8, 5, 6>>
RightWords ==
  <<
    6, 15, 8, 1, 10, 3, 12, 5, 14, 7, 16, 9, 2, 11, 4, 13,
    7, 12, 4, 8, 1, 14, 6, 11, 15, 16, 9, 13, 5, 10, 2, 3,
    16, 6, 2, 4, 8, 15, 7, 10, 12, 9, 13, 3, 11, 1, 5, 14,
    9, 7, 5, 2, 4, 12, 16, 1, 6, 13, 3, 14, 10, 8, 11, 15,
    13, 16, 11, 5, 2, 6, 9, 8, 7, 3, 14, 15, 1, 4, 10, 12>>
RightTurns ==
  <<
    8, 9, 9, 11, 13, 15, 15, 5, 7, 7, 8, 11, 14, 14, 12, 6,
    9, 13, 15, 7, 12, 8, 9, 11, 7, 7, 12, 7, 6, 15, 13, 11,
    9, 7, 15, 11, 8, 6, 6, 14, 12, 13, 5, 14, 13, 13, 7, 5,
    15, 5, 8, 11, 14, 14, 6, 14, 6, 9, 12, 9, 12, 5, 15, 8,
    8, 5, 12, 9, 12, 5, 14, 6, 8, 13, 6, 5, 15, 13, 11, 11>>
LeftK ==
  <<Zero(2), H(\h5A82, \h7999), H(\h6ED9, \hEBA1), H(\h8F1B, \hBCDC), H(\hA953, \hFD4E)>>
RightK ==
  <<H(\h50A2, \h8BE6), H(\h5C4D, \hD124), H(\h6D70, \h3EF3), H(\h7A6D, \h76E9), Zero(2)>>

RIPEMD_f(n, x, y, z) ==
  CASE n = 1 -> Xor3(x, y, z)
    [] n = 2 -> Or(And(x, y), And(Not(x), z))
    [] n = 3 -> Xor(Or(x, Not(y)), z)
    [] n = 4 -> Or(And(x, z), And(y, Not(z)))
    [] n = 5 -> Xor(x, Or(y, Not(z)))
RIPEMD_Round(s, f, x, k, r) ==
  <<s[5], Add(Rotl(Add4(s[1], f, x, k), r), s[5]), s[2], Rotl(s[3], 10), s[4]>>

LeftLine(s, w) ==
  LET step(x, t) ==
        LET n == ((t - 1) \div 16) + 1
        IN  RIPEMD_Round(x, RIPEMD_f(n, x[2], x[3], x[4]), w[LeftWords[t]], LeftK[n], LeftTurns[t])
  IN  After(step, s, Steps(80))
RightLine(s, w) ==
  LET step(x, t) ==
        LET n == ((t - 1) \div 16) + 1
        IN  RIPEMD_Round(x, RIPEMD_f(6 - n, x[2], x[3], x[4]), w[RightWords[t]], RightK[n],
                         RightTurns[t])
  IN  After(step, s, Steps(80))

RIPEMD160_Transform(s, chunk) ==
  LET w == WordsLE(chunk)  x == LeftLine(s, w)  y == RightLine(s, w)
  IN  <<Add3(s[2], x[3], y[4]), Add3(s[3], x[4], y[5]), Add3(s[4], x[5], y[1]),
        Add3(s[5], x[1], y[2]), Add3(s[1], x[2], y[3])>>

-----------------------------------------------------------------------------
(* MD5                                                                       *)
-----------------------------------------------------------------------------
T ==
  Words(<<
    \hd76a, \ha478, \he8c7, \hb756, \h2420, \h70db, \hc1bd, \hceee, \hf57c, \h0faf, \h4787, \hc62a,
    \ha830, \h4613, \hfd46, \h9501, \h6980, \h98d8, \h8b44, \hf7af, \hffff, \h5bb1, \h895c, \hd7be,
    \h6b90, \h1122, \hfd98, \h7193, \ha679, \h438e, \h49b4, \h0821, \hf61e, \h2562, \hc040, \hb340,
    \h265e, \h5a51, \he9b6, \hc7aa, \hd62f, \h105d, \h0244, \h1453, \hd8a1, \he681, \he7d3, \hfbc8,
    \h21e1, \hcde6, \hc337, \h07d6, \hf4d5, \h0d87, \h455a, \h14ed, \ha9e3, \he905, \hfcef, \ha3f8,
    \h676f, \h02d9, \h8d2a, \h4c8a, \hfffa, \h3942, \h8771, \hf681, \h6d9d, \h6122, \hfde5, \h380c,
    \ha4be, \hea44, \h4bde, \hcfa9, \hf6bb, \h4b60, \hbebf, \hbc70, \h289b, \h7ec6, \heaa1, \h27fa,
    \hd4ef, \h3085, \h0488, \h1d05, \hd9d4, \hd039, \he6db, \h99e5, \h1fa2, \h7cf8, \hc4ac, \h5665,
    \hf429, \h2244, \h432a, \hff97, \hab94, \h23a7, \hfc93, \ha039, \h655b, \h59c3, \h8f0c, \hcc92,
    \hffef, \hf47d, \h8584, \h5dd1, \h6fa8, \h7e4f, \hfe2c, \he6e0, \ha301, \h4314, \h4e08, \h11a1,
    \hf753, \h7e82, \hbd3a, \hf235, \h2ad7, \hd2bb, \heb86, \hd391>>, 2)
MD5_Words ==
  <<
    1, 2, 3, 4, 5, 6, 7, 8, 9, 10, 11, 12, 13, 14, 15, 16,
    2, 7, 12, 1, 6, 11, 16, 5, 10, 15, 4, 9, 14, 3, 8, 13,
    6, 9, 12, 15, 2, 5, 8, 11, 14, 1, 4, 7, 10, 13, 16, 3,
    1, 8, 15, 6, 13, 4, 11, 2, 9, 16, 7, 14, 5, 12, 3, 10>>
MD5_Turns == <<<<7, 12, 17, 22>>, <<5, 9, 14, 20>>, <<4, 11, 16, 23>>, <<6, 10, 15, 21>>>>

MD5_f(n, x, y, z) ==
  CASE n = 1 -> Or(And(x, y), And(Not(x), z))
    [] n = 2 -> Or(And(x, z), And(y, Not(z)))
    [] n = 3 -> Xor3(x, y, z)
    [] n = 4 -> Xor(y, Or(x, Not(z)))
MD5_SET(s, f, x, k, r) == <<s[4], Add(Rotl(Add4(s[1], f, x, k), r), s[2]), s[2], s[3]>>
md5_process(s, data) ==
  LET w == WordsLE(data)
      step(x, t) ==
        LET n == ((t - 1) \div 16) + 1
        IN  MD5_SET(x, MD5_f(n, x[2], x[3], x[4]), w[MD5_Words[t]], T[t],
                    MD5_Turns[n][((t - 1) % 4) + 1])
  IN  Plus(s, After(step, s, Steps(64)))
=============================================================================
