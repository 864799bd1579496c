----------------------------- MODULE Sha2Vectors -----------------------------
(***************************************************************************)
(* The transforms of SHA-256 that need a particular processor: the one     *)
(* with the schedule in SSE registers (crypto/sha256_sse4.cpp) and the one *)
(* with the SHA instructions (crypto/sha256_shani.cpp).  A register of 128 *)
(* bits is a sequence of four words, the lowest first.                     *)
(***************************************************************************)
EXTENDS Sha2

\* Instructions on registers.
Each(Op(_), x) == <<Op(x[1]), Op(x[2]), Op(x[3]), Op(x[4])>>
AddEach(x, y) == Sums(x, y)
XorEach(x, y) == Tup([i \in 1..4 |-> Xor(x[i], y[i])])
ShrEach(x, n) == Each(LAMBDA w : Shr(w, n), x)
Align(high, low, words) == SubSeq(low \o high, words + 1, words + 4)
Pick(x, i, j, k, l) == <<x[i], x[j], x[k], x[l]>>
\* A shift of the two halves as words of 64 bits.
ShrPairs(x, n) ==
  LET low == Shr(x[1] \o x[2], n)  high == Shr(x[3] \o x[4], n)
  IN  <<SubSeq(low, 1, 2), SubSeq(low, 3, 4), SubSeq(high, 1, 2), SubSeq(high, 3, 4)>>

LoadBlock(in) ==
  LET w == BlockWords(in, 2) IN Tup([q \in 1..4 |-> SubSeq(w, 4 * q - 3, 4 * q)])
QuadOf(ks, q) == SubSeq(ks, 4 * q - 3, 4 * q)

-----------------------------------------------------------------------------
(* sha256_sse4: four rounds in general registers while the next four words of *)
(* the schedule come about in the SSE registers x[1]..x[4].                   *)
-----------------------------------------------------------------------------
TwistE(e) == Rotr(Xor(Rotr(Xor(Rotr(e, 14), e), 5), e), 6)
TwistA(a) == Rotr(Xor(Rotr(Xor(Rotr(a, 9), a), 11), a), 2)
AsmRound(s, xfer) ==
  LET a == s[1]  b == s[2]  c == s[3]  e == s[5]  f == s[6]  g == s[7]
      t1 == Add(s[8], Add3(Xor(And(Xor(f, g), e), g), TwistE(e), xfer))
  IN  Turn(s, t1, Add(TwistA(a), Or(And(Or(a, c), b), And(a, c))))
AsmRounds(s, xfer) == After(AsmRound, s, xfer)

\* sigma1 of two words, that stand twice each in x.
TwiceSigma1(x) == XorEach(ShrEach(x, 10), XorEach(ShrPairs(x, 17), ShrPairs(x, 19)))
NextWords(x0, x1, x2, x3) ==
  LET back == Align(x1, x0, 1)
      sum == AddEach(AddEach(Align(x3, x2, 1), x0),
                     Each(LAMBDA w : SmallSigma(w, P256.sigma0), back))
      ba == TwiceSigma1(Pick(x3, 3, 3, 4, 4))
      low == AddEach(sum, <<ba[1], ba[3], Zero(2), Zero(2)>>)
      dc == TwiceSigma1(Pick(low, 1, 1, 2, 2))
  IN  AddEach(low, <<Zero(2), Zero(2), dc[1], dc[3]>>)

\* The four parts of the loop differ in the registers they name.
Quarter(st, i, j, k, l, row) ==
  [st EXCEPT !.s = AsmRounds(@, AddEach(st.x[i], QuadOf(K256, 4 * st.tbl + row))),
             !.x[i] = NextWords(st.x[i], st.x[j], st.x[k], st.x[l])]
Quarter1(st) == Quarter(st, 1, 2, 3, 4, 1)
Quarter2(st) == Quarter(st, 2, 3, 4, 1, 2)
Quarter3(st) == Quarter(st, 3, 4, 1, 2, 3)
Quarter4(st) == [Quarter(st, 4, 1, 2, 3, 4) EXCEPT !.tbl = @ + 1]
Loop1(st, turn) == Quarter4(Quarter3(Quarter2(Quarter1(st))))

\* The last sixteen rounds need no new words.
Half(st, i, row) == [st EXCEPT !.s = AsmRounds(@, AddEach(st.x[i], QuadOf(K256, row)))]
FirstHalf(st, turn) == Half(st, 1, 2 * turn + 11)
SecondHalf(st, turn) ==
  LET next == Half(st, 2, 2 * turn + 12)
  IN  [next EXCEPT !.x[1] = st.x[3], !.x[2] = st.x[4]]
Loop2(st, turn) == SecondHalf(FirstHalf(st, turn), turn)

AddState(s, st) == Sums(s, st.s)
TransformSse4(s, chunk) ==
  LET start == [s |-> s, x |-> LoadBlock(chunk), tbl |-> 0]
  IN  AddState(s, After(Loop2, After(Loop1, start, <<1, 2, 3>>), <<1, 2>>))

-----------------------------------------------------------------------------
(* sha256_shani: the instructions keep the state as the registers FEBA and   *)
(* HGDC, the lowest word first.                                              *)
-----------------------------------------------------------------------------
sha256rnds2(hgdc, feba, k) ==
  LET s == <<feba[4], feba[3], hgdc[4], hgdc[3], feba[2], feba[1], hgdc[2], hgdc[1]>>
      t == Rounds(P256, s, <<k[1], k[2]>>)
  IN  <<t[6], t[5], t[2], t[1]>>
sha256msg1(x, y) ==
  AddEach(x, Each(LAMBDA w : SmallSigma(w, P256.sigma0), Align(y, x, 1)))
sha256msg2(x, y) ==
  LET s1(w) == SmallSigma(w, P256.sigma1)
      w16 == Add(x[1], s1(y[3]))  w17 == Add(x[2], s1(y[4]))
  IN  <<w16, w17, Add(x[3], s1(w16)), Add(x[4], s1(w17))>>

QuadRound(s, msg) ==
  LET state1 == sha256rnds2(s[2], s[1], msg)
  IN  <<sha256rnds2(s[1], state1, Pick(msg, 3, 4, 1, 1)), state1>>
QuadRounds(s, msgs) == After(QuadRound, s, msgs)

Shuffle(s) ==
  LET t1 == Pick(s[1], 2, 1, 4, 3)  t2 == Pick(s[2], 4, 3, 2, 1)
  IN  <<Align(t1, t2, 2), <<t2[1], t2[2], t1[3], t1[4]>>>>
Unshuffle(s) ==
  LET t1 == Pick(s[1], 4, 3, 2, 1)  t2 == Pick(s[2], 2, 1, 4, 3)
  IN  <<<<t1[1], t1[2], t2[3], t2[4]>>, Align(t2, t1, 2)>>

\* m holds the four registers of the schedule, and used what was taken from them.
Using(st, i) == [st EXCEPT !.used = Append(@, st.m[i])]
ShiftMessageA(st, i, j) == [st EXCEPT !.m[i] = sha256msg1(@, st.m[j])]
ShiftMessageC(st, i, j, k) ==
  [st EXCEPT !.m[k] = sha256msg2(AddEach(@, Align(st.m[j], st.m[i], 1)), st.m[j])]
ShiftMessageB(st, i, j, k) == ShiftMessageA(ShiftMessageC(st, i, j, k), i, j)
Shifted(m) ==
  LET at(q) == ((q - 1) % 4) + 1
      loaded == ShiftMessageA(ShiftMessageA([m |-> m, used |-> m], 1, 2), 2, 3)
      middle == After(LAMBDA st, q : Using(ShiftMessageB(st, at(q - 2), at(q - 1), at(q)), at(q)),
                      loaded, [i \in 1..10 |-> 4 + i])
      last == After(LAMBDA st, q : Using(ShiftMessageC(st, at(q - 2), at(q - 1), at(q)), at(q)),
                    middle, <<15, 16>>)
  IN  last.used
WithK(msgs, ks) == Tup([q \in 1..16 |-> AddEach(msgs[q], QuadOf(ks, q))])

AddOld(s, old) == <<AddEach(s[1], old[1]), AddEach(s[2], old[2])>>
TransformShani(s, chunk) ==
  LET old == Shuffle(<<SubSeq(s, 1, 4), SubSeq(s, 5, 8)>>)
      new == Unshuffle(AddOld(QuadRounds(old, WithK(Shifted(LoadBlock(chunk)), K256)), old))
  IN  new[1] \o new[2]

\* Two double hashes side by side; each does the same on registers of its own.
INIT == Shuffle(<<SubSeq(Initialize, 1, 4), SubSeq(Initialize, 5, 8)>>)
ShaniFirst(in) == AddOld(QuadRounds(INIT, WithK(Shifted(LoadBlock(in)), K256)), INIT)
ShaniPadded(s) == AddOld(QuadRounds(s, Tup([q \in 1..16 |-> QuadOf(PaddingRounds, q)])), s)
\* Two registers of the last message are constant, and so are the rounds that use them.
ShaniLast(s) ==
  LET z == Zero(2)
      m == Unshuffle(s) \o <<<<W(\h8000, 0), z, z, z>>, <<z, z, z, W(0, 256)>>>>
      used == Shifted(m)
      sums == WithK(used, K256)
      consts == [sums EXCEPT ![3] = QuadOf(LastRounds, 3), ![4] = QuadOf(LastRounds, 4)]
  IN  AddOld(QuadRounds(INIT, consts), INIT)
Transform_2way(in) ==
  LET half(i) == Unshuffle(ShaniLast(ShaniPadded(ShaniFirst(Cut(in, 64)[i]))))
  IN  WriteWords(half(1)[1] \o half(1)[2]) \o WriteWords(half(2)[1] \o half(2)[2])

-----------------------------------------------------------------------------
(* What runs: the build names the files that are compiled in, the processor  *)
(* says what it can do.  The portable transform stands when nothing else is. *)
-----------------------------------------------------------------------------
SHA256AutoDetect(build, cpu) ==
  LET shani == "SHANI" \in build /\ {"sse4", "shani"} \subseteq cpu
      sse4 == "sse4" \in cpu /\ ~shani
      avx2 == {"sse4", "avx2", "xsave", "avx", "enabled"} \subseteq cpu /\ ~shani
      one == IF "ASM" \notin build THEN "portable"
             ELSE IF shani THEN "shani" ELSE IF sse4 THEN "sse4" ELSE "portable"
  IN  [Transform |-> one,
       many |-> IF "ASM" \notin build THEN {}
                ELSE (IF shani THEN {2} ELSE {})
                       \cup (IF sse4 /\ "SSE41" \in build THEN {4} ELSE {})
                       \cup (IF avx2 /\ "AVX2" \in build THEN {8} ELSE {})]

Chosen(one, s, chunk) ==
  CASE one = "portable" -> Transform(s, chunk)
    [] one = "sse4" -> TransformSse4(s, chunk)
    [] one = "shani" -> TransformShani(s, chunk)
\* The double hash of a block by three transforms of any kind.
TransformD64Wrapper(one, in) ==
  LET s == Chosen(one, Chosen(one, Initialize, in), padding1)
      buffer2 == WriteWords(s) \o Bytes(128, 30) \o <<1, 0>>
  IN  WriteWords(Chosen(one, Initialize, buffer2))
Batch(choice, n, in) ==
  CASE n = 8 -> Transform_8way(in)
    [] n = 4 -> Transform_4way(in)
    [] n = 2 -> Transform_2way(in)
    [] n = 1 /\ choice.Transform = "portable" -> TransformD64(in)
    [] n = 1 /\ choice.Transform # "portable" -> TransformD64Wrapper(choice.Transform, in)
\* The largest batches first; at most seven blocks are left to the smaller ones.
SHA256D64(choice, in) ==
  LET blocks == Len(in) \div 64
      turns(n, left) == IF n = 1 \/ n \in choice.many THEN left \div n ELSE 0
      after(n, left) == left - n * turns(n, left)
      sizes(n, left) == Tup([i \in 1..turns(n, left) |-> n])
      in8 == after(8, blocks)  in4 == after(4, in8)  in2 == after(2, in4)
      plan == sizes(8, blocks) \o sizes(4, in8) \o sizes(2, in4) \o sizes(1, in2)
      take(st, n) == [out |-> st.out \o Batch(choice, n, SubSeq(st.in, 1, 64 * n)),
                      in |-> SubSeq(st.in, 64 * n + 1, Len(st.in))]
  IN  After(take, [out |-> <<>>, in |-> in], plan).out
\* The words of a text, the states after each of its blocks, and the double hashes of the
\* blocks.  What the processor offers is tried before it is used.
TestData ==
  Words(<<
    \h4c6f, \h7265, \h6d20, \h6970, \h7375, \h6d20, \h646f, \h6c6f, \h7220, \h7369, \h7420, \h616d,
    \h6574, \h2c20, \h636f, \h6e73, \h6563, \h7465, \h7475, \h7220, \h6164, \h6970, \h6973, \h6369,
    \h6e67, \h2065, \h6c69, \h742c, \h2073, \h6564, \h2064, \h6f20, \h6569, \h7573, \h6d6f, \h6420,
    \h7465, \h6d70, \h6f72, \h2069, \h6e63, \h6964, \h6964, \h756e, \h7420, \h7574, \h206c, \h6162,
    \h6f72, \h6520, \h6574, \h2064, \h6f6c, \h6f72, \h6520, \h6d61, \h676e, \h6120, \h616c, \h6971,
    \h7561, \h2e20, \h4574, \h206d, \h6f6c, \h6573, \h7469, \h6520, \h6163, \h2066, \h6575, \h6769,
    \h6174, \h2073, \h6564, \h206c, \h6563, \h7475, \h7320, \h7665, \h7374, \h6962, \h756c, \h756d,
    \h206d, \h6174, \h7469, \h7320, \h756c, \h6c61, \h6d63, \h6f72, \h7065, \h722e, \h204d, \h6f72,
    \h6269, \h2062, \h6c61, \h6e64, \h6974, \h2063, \h7572, \h7375, \h7320, \h7269, \h7375, \h7320,
    \h6174, \h2075, \h6c74, \h7269, \h6365, \h7320, \h6d69, \h2074, \h656d, \h7075, \h7320, \h696d,
    \h7065, \h7264, \h6965, \h7420, \h6e75, \h6c6c, \h612e, \h204e, \h756e, \h6320, \h636f, \h6e67,
    \h7565, \h206e, \h6973, \h6920, \h7669, \h7461, \h2073, \h7573, \h6369, \h7069, \h7420, \h7465,
    \h6c6c, \h7573, \h206d, \h6175, \h7269, \h732e, \h2049, \h6d70, \h6572, \h6469, \h6574, \h2070,
    \h726f, \h696e, \h2066, \h6572, \h6d65, \h6e74, \h756d, \h206c, \h656f, \h2076, \h656c, \h206f,
    \h7263, \h692e, \h204d, \h6173, \h7361, \h2074, \h656d, \h706f, \h7220, \h6e65, \h6320, \h6665,
    \h7567, \h6961, \h7420, \h6e69, \h736c, \h2070, \h7265, \h7469, \h756d, \h2066, \h7573, \h6365,
    \h2069, \h6420, \h7665, \h6c69, \h742e, \h2054, \h656c, \h7573, \h2069, \h6e20, \h6d65, \h7475,
    \h7320, \h7675, \h6c70, \h7574, \h6174, \h6520, \h6575, \h2073, \h6365, \h6c65, \h7269, \h7371,
    \h7565, \h2066, \h656c, \h6973, \h2e20, \h4d69, \h2074, \h656d, \h7075, \h7320, \h696d, \h7065,
    \h7264, \h6965, \h7420, \h6e75, \h6c6c, \h6120, \h6d61, \h6c65, \h7375, \h6164, \h6120, \h7065,
    \h6c6c, \h656e, \h7465, \h7371, \h7565, \h2e20, \h5472, \h6973, \h7469, \h7175, \h6520, \h6d61,
    \h676e, \h6120, \h7369, \h742e>>, 2)
TestStates ==
  Cut(Words(<<
    \h91f8, \hec6b, \h4da1, \h0fe3, \h1c9c, \h292c, \h45e1, \h8185, \h435c, \hc111, \h3ca2, \h6f09,
    \heb95, \h4cae, \h402a, \h7069, \hcabe, \ha5ac, \h374f, \hb97c, \h182a, \hd996, \h7bd6, \h9cbf,
    \h450f, \hf900, \hc1d2, \hbe8a, \h6a41, \hd505, \he621, \h2dc3, \hbcff, \h09d6, \h3e76, \hf36e,
    \h3ecb, \h2501, \h7886, \h6e97, \he1c1, \he2fd, \h32f4, \heaff, \h8aa6, \hc4e5, \hdfc0, \h24bc,
    \ha08c, \h5d94, \h0a86, \h2f93, \h6b7f, \h2f40, \h8f9f, \hae76, \h6d40, \h439f, \h79dc, \hee0c,
    \h3e39, \hff3a, \hdc3b, \hdbb1, \h216a, \h0895, \h9f1a, \h3662, \he999, \h46f9, \h87ba, \h4364,
    \h0fb5, \hdb2c, \h12be, \hd3d3, \h6689, \hc0c7, \h292f, \h1b04, \hca30, \h67f8, \hbc8c, \h2656,
    \h37cb, \h7e0d, \h9b6b, \h8b0f, \h46dc, \h380b, \hf128, \h7f57, \hc42e, \h4b23, \h3fef, \he94d,
    \h3e4c, \h4039, \hbb6f, \hca8c, \h6f27, \hd2f7, \h301e, \h44a4, \h8352, \hba14, \h5769, \hce37,
    \h48a1, \h155f, \hc0e1, \hc4c6, \hfe2f, \ha9dd, \h69d0, \h862b, \h1ae0, \hdb23, \h471f, \h9244,
    \hf55c, \h0145, \hc30f, \h9c3b, \h40a8, \h4ea0, \h5b8a, \h266c>>, 2), 8)
TestHashes ==
  Words(<<
    \h093a, \hc4d0, \h0ff7, \h57e1, \h7285, \h7942, \hfee7, \he0a0, \hfc52, \hd7db, \h0763, \h45fb,
    \h5314, \h7d17, \h2286, \hf052, \h48b6, \h119e, \h6e48, \h816d, \hcc57, \h1fb2, \h97a8, \hd525,
    \h9b82, \haa89, \he2fd, \h2d56, \he828, \h830b, \he2fa, \h53b7, \hd66b, \h0785, \h83b0, \h10a2,
    \hf551, \h3cf9, \h6003, \hab45, \h6c15, \h6eef, \hb5ac, \h3e6c, \hdfb4, \h9222, \h2dce, \hbf3e,
    \he9e5, \hf629, \h0e01, \h4fd2, \hd445, \h65b3, \hbbf2, \h4c16, \h3750, \h3c6e, \h498c, \h5a89,
    \h2b1b, \habc4, \h37d1, \h46e9, \h3d0e, \h85a2, \h5073, \ha15e, \h5437, \hd794, \h1756, \hc2d8,
    \he59f, \hed4e, \hae15, \h4206, \h0d74, \h745e, \h2430, \hced1, \h9e50, \ha39a, \hb8f0, \h4a57,
    \h6978, \h6712, \h8458, \hbec7, \h36aa, \hee7c, \h64a3, \h76ec, \hff55, \h4100, \h2a44, \h684d,
    \hb653, \h9e1c, \h95b7, \hcadc, \h7f7d, \h7427, \h5c8e, \ha684, \hb5ac, \h87a9, \hf3ff, \h75f2,
    \h34cd, \h1a3b, \h822c, \h2b4e, \h6a46, \h30a6, \h8986, \h23ac, \hf8a5, \h15e9, \h0aaa, \h1e9a,
    \hd793, \h6b28, \he43b, \hfd59, \hc6ed, \h7c5f, \ha541, \hcb51>>, 2)
SelfTest(choice) ==
  LET blocks == Cut(WriteWords(TestData), 64)
      states == After(LAMBDA all, i : Append(all, Chosen(choice.Transform, all[i], blocks[i])),
                      <<Initialize>>, [i \in 1..8 |-> i])
      start(s, n) == SubSeq(s, 1, n)
  IN  /\ Tail(states) = TestStates
      /\ \A n \in {1} \cup choice.many :
           Batch(choice, n, start(WriteWords(TestData), 64 * n)) = start(WriteWords(TestHashes), 32 * n)
=============================================================================
