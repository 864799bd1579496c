------------------------------- MODULE Words -------------------------------
(***************************************************************************)
(* The unsigned integers of the hash functions and ciphers: a word is the  *)
(* sequence of its 16-bit limbs, the lowest first, so that TLC can compute *)
(* with words of 32 and 64 bits.                                           *)
(***************************************************************************)
EXTENDS Naturals, Sequences

Radix == 65536

\* "&" of bytes as a table, and the operators of C on words of the same length.
Bit(x, y, n) == 2^n * ((x \div 2^n) % 2) * ((y \div 2^n) % 2)
AndBytes ==
  [x \in 0..255 |-> [y \in 0..255 |->
     Bit(x, y, 0) + Bit(x, y, 1) + Bit(x, y, 2) + Bit(x, y, 3)
       + Bit(x, y, 4) + Bit(x, y, 5) + Bit(x, y, 6) + Bit(x, y, 7)]]
And16(x, y) == 256 * AndBytes[x \div 256][y \div 256] + AndBytes[x % 256][y % 256]
Xor16(x, y) == x + y - 2 * And16(x, y)

\* The tuple that a function on 1..n is: TLC then computes its elements once.
Tup(f) == f \o <<>>

And(v, w) == Tup([i \in DOMAIN v |-> And16(v[i], w[i])])
Or(v, w) == Tup([i \in DOMAIN v |-> v[i] + w[i] - And16(v[i], w[i])])
Xor(v, w) == Tup([i \in DOMAIN v |-> Xor16(v[i], w[i])])
Not(w) == Tup([i \in DOMAIN w |-> Radix - 1 - w[i]])
Xor3(u, v, w) == Xor(Xor(u, v), w)

Add(v, w) ==
  LET sum[i \in DOMAIN v] == v[i] + w[i] + (IF i = 1 THEN 0 ELSE sum[i - 1] \div Radix)
  IN  Tup([i \in DOMAIN v |-> sum[i] % Radix])
Add3(u, v, w) == Add(Add(u, v), w)
Add4(t, u, v, w) == Add(Add(t, u), Add(v, w))

\* "*": the multiples of v by the bytes of w, each at its place.
Scale(v, byte) ==
  LET product[i \in DOMAIN v] == v[i] * byte + (IF i = 1 THEN 0 ELSE product[i - 1] \div Radix)
  IN  Tup([i \in DOMAIN v |-> product[i] % Radix])

Limb(w, i) == IF i \in DOMAIN w THEN w[i] ELSE 0
Shr(w, n) ==
  LET q == n \div 16  k == n % 16
  IN  Tup([i \in DOMAIN w |->
             (Limb(w, i + q) \div 2^k) + (Limb(w, i + q + 1) % 2^k) * 2^(16 - k)])
Shl(w, n) ==
  LET q == n \div 16  k == n % 16
  IN  Tup([i \in DOMAIN w |->
             ((Limb(w, i - q) * 2^k) % Radix) + (Limb(w, i - q - 1) \div 2^(16 - k))])
Rotr(w, n) ==
  LET q == n \div 16  k == n % 16
      at(i) == w[((i - 1) % Len(w)) + 1]
  IN  Tup([i \in DOMAIN w |-> (at(i + q) \div 2^k) + (at(i + q + 1) % 2^k) * 2^(16 - k)])
Rotl(w, n) == Rotr(w, 16 * Len(w) - n)

Mul(v, w) ==
  LET byte(i) == (w[(i + 1) \div 2] \div (IF i % 2 = 1 THEN 1 ELSE 256)) % 256
      sum[i \in 0..(2 * Len(w))] ==
        IF i = 0 THEN Tup([j \in DOMAIN w |-> 0])
        ELSE Add(sum[i - 1], Shl(Scale(v, byte(i)), 8 * (i - 1)))
  IN  sum[2 * Len(w)]

-----------------------------------------------------------------------------
\* Words and the bytes they are read from and written to.
Backwards(s) == Tup([i \in DOMAIN s |-> s[Len(s) + 1 - i]])
WriteLE(w) ==
  Tup([i \in 1..(2 * Len(w)) |->
         IF i % 2 = 1 THEN w[(i + 1) \div 2] % 256 ELSE w[i \div 2] \div 256])
ReadLE(b) == Tup([i \in 1..(Len(b) \div 2) |-> b[2 * i - 1] + 256 * b[2 * i]])
WriteBE(w) == Backwards(WriteLE(w))
ReadBE(b) == ReadLE(Backwards(b))

\* A sequence cut in pieces of n, and the words of a list of limbs that stands as it is
\* written in the code, the highest limb of a word first.
Cut(s, n) == Tup([i \in 1..(Len(s) \div n) |-> SubSeq(s, (i - 1) * n + 1, i * n)])
Words(limbs, n) == LET c == Cut(limbs, n) IN  Tup([i \in DOMAIN c |-> Backwards(c[i])])
Word(value, n) == Tup([i \in 1..n |-> IF i = 1 THEN value % Radix ELSE IF i = 2 THEN value \div Radix ELSE 0])
Zero(n) == Word(0, n)

\* The value of Op, once that of its argument is known, and a value to which a sequence
\* of items is added, one by one; by eights, for TLC's stack.
Of(Op(_), value) == CHOOSE r \in {Op(v) : v \in {value}} : TRUE
Fold(Step(_, _), start, n) ==
  LET after[i \in 0..n] == IF i = 0 THEN start ELSE Of(LAMBDA v : Step(v, i), after[i - 1])
  IN  after[n]
After(Step(_, _), start, items) ==
  LET eight(v, k) ==
        Fold(LAMBDA u, i : Step(u, items[8 * (k - 1) + i]), v,
             IF 8 * k <= Len(items) THEN 8 ELSE Len(items) % 8)
  IN  Of(LAMBDA first : Fold(eight, first, (Len(items) + 7) \div 8), start)
=============================================================================
