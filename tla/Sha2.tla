-------------------------------- MODULE Sha2 --------------------------------
(***************************************************************************)
(* The SHA-2 transforms of the node (crypto/sha256*.cpp, crypto/sha512.cpp) *)
(* and of the library (crypto/SHA256.cpp).  The node picks one of several  *)
(* by the processor it finds (SHA256AutoDetect): the portable one, a       *)
(* transform with the schedule in SSE registers, one with the SHA          *)
(* instructions, and double hashes of 64 bytes done for two, four or eight *)
(* inputs at once, with everything that is constant folded away.  Which    *)
(* one runs must not matter.                                               *)
(***************************************************************************)
EXTENDS Words, SequencesExt

\* The constants of the rounds, and those of a block that holds nothing but the padding
\* of 64 bytes, where the schedule is already added to them.
K256 ==
  Words(<<
    \h428a, \h2f98, \h7137, \h4491, \hb5c0, \hfbcf, \he9b5, \hdba5, \h3956, \hc25b, \h59f1, \h11f1,
    \h923f, \h82a4, \hab1c, \h5ed5, \hd807, \haa98, \h1283, \h5b01, \h2431, \h85be, \h550c, \h7dc3,
    \h72be, \h5d74, \h80de, \hb1fe, \h9bdc, \h06a7, \hc19b, \hf174, \he49b, \h69c1, \hefbe, \h4786,
    \h0fc1, \h9dc6, \h240c, \ha1cc, \h2de9, \h2c6f, \h4a74, \h84aa, \h5cb0, \ha9dc, \h76f9, \h88da,
    \h983e, \h5152, \ha831, \hc66d, \hb003, \h27c8, \hbf59, \h7fc7, \hc6e0, \h0bf3, \hd5a7, \h9147,
    \h06ca, \h6351, \h1429, \h2967, \h27b7, \h0a85, \h2e1b, \h2138, \h4d2c, \h6dfc, \h5338, \h0d13,
    \h650a, \h7354, \h766a, \h0abb, \h81c2, \hc92e, \h9272, \h2c85, \ha2bf, \he8a1, \ha81a, \h664b,
    \hc24b, \h8b70, \hc76c, \h51a3, \hd192, \he819, \hd699, \h0624, \hf40e, \h3585, \h106a, \ha070,
    \h19a4, \hc116, \h1e37, \h6c08, \h2748, \h774c, \h34b0, \hbcb5, \h391c, \h0cb3, \h4ed8, \haa4a,
    \h5b9c, \hca4f, \h682e, \h6ff3, \h748f, \h82ee, \h78a5, \h636f, \h84c8, \h7814, \h8cc7, \h0208,
    \h90be, \hfffa, \ha450, \h6ceb, \hbef9, \ha3f7, \hc671, \h78f2>>, 2)

PaddingRounds ==
  Words(<<
    \hc28a, \h2f98, \h7137, \h4491, \hb5c0, \hfbcf, \he9b5, \hdba5, \h3956, \hc25b, \h59f1, \h11f1,
    \h923f, \h82a4, \hab1c, \h5ed5, \hd807, \haa98, \h1283, \h5b01, \h2431, \h85be, \h550c, \h7dc3,
    \h72be, \h5d74, \h80de, \hb1fe, \h9bdc, \h06a7, \hc19b, \hf374, \h649b, \h69c1, \hf0fe, \h4786,
    \h0fe1, \hedc6, \h240c, \hf254, \h4fe9, \h346f, \h6cc9, \h84be, \h61b9, \h411e, \h16f9, \h88fa,
    \hf2c6, \h5152, \ha88e, \h5a6d, \hb019, \hfc65, \hb9d9, \h9ec7, \h9a12, \h31c3, \he70e, \heaa0,
    \hfdb1, \h232b, \hc735, \h3eb0, \h3069, \hbad5, \hcb97, \h6d5f, \h5a0f, \h118f, \hdc1e, \heefd,
    \h0a35, \hb689, \hde0b, \h7a04, \h58f4, \hca9d, \he15d, \h5b16, \h007f, \h3e86, \h3708, \h8980,
    \ha507, \hea32, \h6fab, \h9537, \h1740, \h6110, \h0d8c, \hd6f1, \hcdaa, \h3b6d, \hc0bb, \hbe37,
    \h8361, \h3bda, \hdb48, \ha363, \h0b02, \he931, \h6fd1, \h5ca7, \h521a, \hfaca, \h3133, \h8431,
    \h6ed4, \h1a95, \h6d43, \h7890, \hc39c, \h91f2, \h9ecc, \habbd, \hb5c9, \ha0e6, \h532f, \hb63c,
    \hd2c7, \h41c6, \h0723, \h7ea3, \ha495, \h4b68, \h4c19, \h1d76>>, 2)

Initialize ==
  Words(<<
    \h6a09, \he667, \hbb67, \hae85, \h3c6e, \hf372, \ha54f, \hf53a,
    \h510e, \h527f, \h9b05, \h688c, \h1f83, \hd9ab, \h5be0, \hcd19>>, 2)

-----------------------------------------------------------------------------
(* One round, on the words a..h; the code rotates their names, the model     *)
(* their places.  p says by how much the four functions turn a word.         *)
-----------------------------------------------------------------------------
P256 ==
  [Sigma0 |-> <<2, 13, 22>>, Sigma1 |-> <<6, 11, 25>>,
   sigma0 |-> <<7, 18, 3>>, sigma1 |-> <<17, 19, 10>>]
P512 ==
  [Sigma0 |-> <<28, 34, 39>>, Sigma1 |-> <<14, 18, 41>>,
   sigma0 |-> <<1, 8, 7>>, sigma1 |-> <<19, 61, 6>>]

Ch(x, y, z) == Xor(z, And(x, Xor(y, z)))
Maj(x, y, z) == Or(And(x, y), And(z, Or(x, y)))
BigSigma(x, r) == Xor3(Rotr(x, r[1]), Rotr(x, r[2]), Rotr(x, r[3]))
SmallSigma(x, r) == Xor3(Rotr(x, r[1]), Rotr(x, r[2]), Shr(x, r[3]))

Turn(s, t1, t2) == <<Add(t1, t2), s[1], s[2], s[3], Add(s[4], t1), s[5], s[6], s[7]>>
Round(p, s, k) ==
  LET t1 == Add4(s[8], BigSigma(s[5], p.Sigma1), Ch(s[5], s[6], s[7]), k)
      t2 == Add(BigSigma(s[1], p.Sigma0), Maj(s[1], s[2], s[3]))
  IN  Turn(s, t1, t2)

Sums(v, w) == Tup([i \in DOMAIN v |-> Add(v[i], w[i])])
Rounds(p, s, ks) == After(LAMBDA st, k : Round(p, st, k), s, ks)

\* The words of the schedule, the first sixteen given; the code keeps the last sixteen.
NextWord(p, w, t) ==
  Add4(w[t - 16], SmallSigma(w[t - 2], p.sigma1), w[t - 7], SmallSigma(w[t - 15], p.sigma0))
Schedule(p, w, n) ==
  After(LAMBDA all, t : Append(all, NextWord(p, all, t)), w, [i \in 1..(n - 16) |-> 16 + i])

BlockWords(block, limbs) ==
  LET c == Cut(block, 2 * limbs) IN Tup([i \in 1..16 |-> ReadBE(c[i])])
Transform(s, block) ==
  Sums(s, Rounds(P256, s, Sums(K256, Schedule(P256, BlockWords(block, 2), 64))))

-----------------------------------------------------------------------------
(* Double hashes of 64 bytes                                                 *)
-----------------------------------------------------------------------------
W(high, low) == <<low, high>>
\* The second message: the hash of the first, a bit and the length of 256 bits.  What is
\* zero is left out of the sums and what is constant is a number.
LastConstants ==
  [t \in {18, 23, 24, 25, 31, 32} |->
     CASE t = 18 -> W(160, 0) [] t = 23 -> W(0, 256) [] t = 24 -> W(\h1100, \h2000)
       [] t = 25 -> W(\h8000, 0) [] t = 31 -> W(\h40, \h22) [] t = 32 -> W(0, 256)]
LastWord(w, t) ==
  LET own == IF t <= 24 THEN w[t - 16] ELSE Zero(2)
      const == IF t \in DOMAIN LastConstants THEN LastConstants[t] ELSE Zero(2)
      far == IF t >= 24 THEN w[t - 7] ELSE Zero(2)
      near == IF t >= 19 THEN SmallSigma(w[t - 2], P256.sigma1) ELSE Zero(2)
      back == IF t <= 23 \/ t = 32 THEN SmallSigma(w[t - 15], P256.sigma0) ELSE Zero(2)
  IN  Add(Add4(own, const, far, near), back)
LastSchedule(w) ==
  LET last == After(LAMBDA all, t : Append(all, LastWord(all, t)),
                       w \o [i \in 1..8 |-> Zero(2)], [i \in 1..16 |-> 16 + i])
  IN  After(LAMBDA all, t : Append(all, NextWord(P256, all, t)), last,
               [i \in 1..32 |-> 32 + i])
LastRounds == [K256 EXCEPT ![9] = W(\h5807, \haa98), ![16] = W(\hc19b, \hf274)]

FirstHash(w) == Sums(Initialize, Rounds(P256, Initialize, Sums(K256, Schedule(P256, w, 64))))
PaddedHash(s) == Sums(s, Rounds(P256, s, PaddingRounds))
LastHash(w) == Sums(Initialize, Rounds(P256, Initialize, Sums(LastRounds, LastSchedule(w))))

WriteWords(s) == FlattenSeq([i \in DOMAIN s |-> WriteBE(s[i])])
TransformD64(in) == WriteWords(LastHash(PaddedHash(FirstHash(BlockWords(in, 2)))))

\* The message after its 64 bytes.
Bytes(from, n) == [i \in 1..n |-> IF i = 1 THEN from ELSE 0]
padding1 == Bytes(128, 62) \o <<2, 0>>

-----------------------------------------------------------------------------
(* Several at once: every word is a vector with one element of each input,   *)
(* the first input in the highest.                                           *)
-----------------------------------------------------------------------------
ReadLanes(n, in, offset) ==
  Backwards(Tup([i \in 1..n |-> ReadBE(SubSeq(in, 64 * (i - 1) + offset + 1, 64 * (i - 1) + offset + 4))]))
WriteLanes(n, vs) ==
  FlattenSeq([i \in 1..n |-> WriteWords([j \in DOMAIN vs |-> vs[j][n + 1 - i]])])
FirstLanes(n, in) ==
  LET w == Tup([j \in 1..16 |-> ReadLanes(n, in, 4 * (j - 1))])
  IN  Tup([i \in 1..n |-> FirstHash(Tup([j \in 1..16 |-> w[j][i]]))])
PaddedLanes(hs) == Tup([i \in DOMAIN hs |-> PaddedHash(hs[i])])
LastLanes(hs) == Tup([i \in DOMAIN hs |-> LastHash(hs[i])])
Transform_nway(n, in) ==
  LET hash == LastLanes(PaddedLanes(FirstLanes(n, in)))
  IN  WriteLanes(n, [j \in 1..8 |-> [i \in 1..n |-> hash[i][j]]])
Transform_4way(in) == Transform_nway(4, in)
Transform_8way(in) == Transform_nway(8, in)

-----------------------------------------------------------------------------
(* SHA-512: the same on words of 64 bits, and the library's own SHA-256.      *)
-----------------------------------------------------------------------------
K512 ==
  Words(<<
    \h428a, \h2f98, \hd728, \hae22, \h7137, \h4491, \h23ef, \h65cd, \hb5c0, \hfbcf, \hec4d, \h3b2f,
    \he9b5, \hdba5, \h8189, \hdbbc, \h3956, \hc25b, \hf348, \hb538, \h59f1, \h11f1, \hb605, \hd019,
    \h923f, \h82a4, \haf19, \h4f9b, \hab1c, \h5ed5, \hda6d, \h8118, \hd807, \haa98, \ha303, \h0242,
    \h1283, \h5b01, \h4570, \h6fbe, \h2431, \h85be, \h4ee4, \hb28c, \h550c, \h7dc3, \hd5ff, \hb4e2,
    \h72be, \h5d74, \hf27b, \h896f, \h80de, \hb1fe, \h3b16, \h96b1, \h9bdc, \h06a7, \h25c7, \h1235,
    \hc19b, \hf174, \hcf69, \h2694, \he49b, \h69c1, \h9ef1, \h4ad2, \hefbe, \h4786, \h384f, \h25e3,
    \h0fc1, \h9dc6, \h8b8c, \hd5b5, \h240c, \ha1cc, \h77ac, \h9c65, \h2de9, \h2c6f, \h592b, \h0275,
    \h4a74, \h84aa, \h6ea6, \he483, \h5cb0, \ha9dc, \hbd41, \hfbd4, \h76f9, \h88da, \h8311, \h53b5,
    \h983e, \h5152, \hee66, \hdfab, \ha831, \hc66d, \h2db4, \h3210, \hb003, \h27c8, \h98fb, \h213f,
    \hbf59, \h7fc7, \hbeef, \h0ee4, \hc6e0, \h0bf3, \h3da8, \h8fc2, \hd5a7, \h9147, \h930a, \ha725,
    \h06ca, \h6351, \he003, \h826f, \h1429, \h2967, \h0a0e, \h6e70, \h27b7, \h0a85, \h46d2, \h2ffc,
    \h2e1b, \h2138, \h5c26, \hc926, \h4d2c, \h6dfc, \h5ac4, \h2aed, \h5338, \h0d13, \h9d95, \hb3df,
    \h650a, \h7354, \h8baf, \h63de, \h766a, \h0abb, \h3c77, \hb2a8, \h81c2, \hc92e, \h47ed, \haee6,
    \h9272, \h2c85, \h1482, \h353b, \ha2bf, \he8a1, \h4cf1, \h0364, \ha81a, \h664b, \hbc42, \h3001,
    \hc24b, \h8b70, \hd0f8, \h9791, \hc76c, \h51a3, \h0654, \hbe30, \hd192, \he819, \hd6ef, \h5218,
    \hd699, \h0624, \h5565, \ha910, \hf40e, \h3585, \h5771, \h202a, \h106a, \ha070, \h32bb, \hd1b8,
    \h19a4, \hc116, \hb8d2, \hd0c8, \h1e37, \h6c08, \h5141, \hab53, \h2748, \h774c, \hdf8e, \heb99,
    \h34b0, \hbcb5, \he19b, \h48a8, \h391c, \h0cb3, \hc5c9, \h5a63, \h4ed8, \haa4a, \he341, \h8acb,
    \h5b9c, \hca4f, \h7763, \he373, \h682e, \h6ff3, \hd6b2, \hb8a3, \h748f, \h82ee, \h5def, \hb2fc,
    \h78a5, \h636f, \h4317, \h2f60, \h84c8, \h7814, \ha1f0, \hab72, \h8cc7, \h0208, \h1a64, \h39ec,
    \h90be, \hfffa, \h2363, \h1e28, \ha450, \h6ceb, \hde82, \hbde9, \hbef9, \ha3f7, \hb2c6, \h7915,
    \hc671, \h78f2, \he372, \h532b, \hca27, \h3ece, \hea26, \h619c, \hd186, \hb8c7, \h21c0, \hc207,
    \heada, \h7dd6, \hcde0, \heb1e, \hf57d, \h4f7f, \hee6e, \hd178, \h06f0, \h67aa, \h7217, \h6fba,
    \h0a63, \h7dc5, \ha2c8, \h98a6, \h113f, \h9804, \hbef9, \h0dae, \h1b71, \h0b35, \h131c, \h471b,
    \h28db, \h77f5, \h2304, \h7d84, \h32ca, \hab7b, \h40c7, \h2493, \h3c9e, \hbe0a, \h15c9, \hbebc,
    \h431d, \h67c4, \h9c10, \h0d4c, \h4cc5, \hd4be, \hcb3e, \h42b6, \h597f, \h299c, \hfc65, \h7e2a,
    \h5fcb, \h6fab, \h3ad6, \hfaec, \h6c44, \h198c, \h4a47, \h5817>>, 4)

Initial512 ==
  Words(<<
    \h6a09, \he667, \hf3bc, \hc908, \hbb67, \hae85, \h84ca, \ha73b, \h3c6e, \hf372, \hfe94, \hf82b,
    \ha54f, \hf53a, \h5f1d, \h36f1, \h510e, \h527f, \hade6, \h82d1, \h9b05, \h688c, \h2b3e, \h6c1f,
    \h1f83, \hd9ab, \hfb41, \hbd6b, \h5be0, \hcd19, \h137e, \h2179>>, 4)

Transform512(s, chunk) ==
  Sums(s, Rounds(P512, s, Sums(K512, Schedule(P512, BlockWords(chunk, 4), 80))))

SHA2_CH(x, y, z) == Xor(And(x, y), And(Not(x), z))
SHA2_MAJ(x, y, z) == Xor3(And(x, y), And(x, z), And(y, z))
LibraryRound(wv, kw) ==
  LET t1 == Add4(wv[8], BigSigma(wv[5], P256.Sigma1), SHA2_CH(wv[5], wv[6], wv[7]), kw)
      t2 == Add(BigSigma(wv[1], P256.Sigma0), SHA2_MAJ(wv[1], wv[2], wv[3]))
  IN  Turn(wv, t1, t2)
LibraryTransform(s, block) ==
  Sums(s, After(LibraryRound, s, Sums(K256, Schedule(P256, BlockWords(block, 2), 64))))
=============================================================================
