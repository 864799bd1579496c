------------------------- MODULE InterpreterProofs -------------------------
(***************************************************************************)
(* Proofs about Interpreter: what the machine does, for every script,      *)
(* every set of flags and every width of bytes and numbers.                *)
(*                                                                         *)
(* The definitions of Interpreter that recurse over data (the digits of a  *)
(* number, the value of digits, the loop of CHECKMULTISIG) are functions   *)
(* that TLA+ chooses.  A recursion whose calls descend has a solution      *)
(* (RecursionHasSolution), so that the chosen function satisfies its own   *)
(* equation; what it computes then follows from the least place where it   *)
(* would not (LeastNatural).  The rest is one invariant, MachineFits, and  *)
(* one lemma for each instruction: it keeps the types of the machine, its  *)
(* place and its conditionals.                                             *)
(***************************************************************************)
EXTENDS Interpreter, SequenceTheorems, FiniteSetTheorems, WellFoundedInduction, TLAPS

Byte == 0..Base - 1
Frames == [number : BOOLEAN, n : Int, data : Seq(Byte)]
Machines == [pc : Nat, stack : Seq(Frames), alt : Seq(Frames), cond : Seq(BOOLEAN),
             ops : Nat, sep : Nat]

-----------------------------------------------------------------------------
\* Every non-empty set of naturals has a least element.
LEMMA LeastNatural ==
  ASSUME NEW T, T \subseteq Nat, T # {}
  PROVE  \E x \in T : \A y \in T : x <= y
<1> DEFINE R == {ss \in Nat \X Nat : ss[1] < ss[2]}
<1>1. IsWellFoundedOn(R, Nat)
  BY NatLessThanWellFounded DEF OpToRel
<1> HIDE DEF R
<1>2. PICK x \in T : \A y \in T : ~ (<<y, x>> \in R)
  BY <1>1, WFMin, Zenon
<1>3. \A y \in T : ~ (y < x)
  BY <1>2 DEF R
<1> QED BY <1>3

\* A recursion over S into T is given by what it makes of any function.  It descends when
\* what it makes at x depends only on what the function is where the measure is smaller.
Descends(S, T, size, Step) ==
  /\ T # {} /\ size \in [S -> Nat] /\ Step \in [[S -> T] -> [S -> T]]
  /\ \A g, h \in [S -> T] : \A x \in S :
       (\A y \in S : size[y] < size[x] => g[y] = h[y]) => Step[g][x] = Step[h][x]

Solvable(S, T, Step) == \E g \in [S -> T] : Step[g] = g

\* A recursion that descends has a solution.
LEMMA RecursionHasSolution ==
  ASSUME NEW S, NEW T, NEW size, NEW Step, Descends(S, T, size, Step)
  PROVE  Solvable(S, T, Step)
<1> USE DEF Descends
<1> DEFINE Good(g, d) == \A x \in S : size[x] < d => Step[g][x] = g[x]
           Bad == {d \in Nat : \A g \in [S -> T] : ~Good(g, d)}
<1>1. Bad = {}
  <2> SUFFICES ASSUME Bad # {} PROVE FALSE
    OBVIOUS
  <2>1. PICK d \in Bad : \A e \in Bad : d <= e
    <3>1. Bad \subseteq Nat
      OBVIOUS
    <3> HIDE DEF Bad
    <3> QED BY <3>1, LeastNatural
  <2>2. d # 0
    <3>1. PICK t \in T : TRUE
      OBVIOUS
    <3>2. [x \in S |-> t] \in [S -> T] /\ Good([x \in S |-> t], 0)
      OBVIOUS
    <3> QED BY <2>1, <3>2
  <2>3. d - 1 \in Nat /\ d - 1 \notin Bad
    BY <2>1, <2>2
  <2>4. PICK g \in [S -> T] : Good(g, d - 1)
    BY <2>3
  <2>5. Step[g] \in [S -> T]
    OBVIOUS
  <2>6. Good(Step[g], d)
    <3> SUFFICES ASSUME NEW x \in S, size[x] < d PROVE Step[Step[g]][x] = Step[g][x]
      OBVIOUS
    <3>1. \A y \in S : size[y] < size[x] => Step[g][y] = g[y]
      BY <2>1, <2>4
    <3> QED BY <2>5, <3>1
  <2> QED BY <2>1, <2>5, <2>6
<1>2. ASSUME NEW d \in Nat PROVE \E g \in [S -> T] : Good(g, d)
  BY <1>1
<1>3. ASSUME NEW d \in Nat, NEW e \in Nat, NEW g \in [S -> T], NEW h \in [S -> T],
             Good(g, d), Good(h, e), NEW x \in S, size[x] < d, size[x] < e
      PROVE  g[x] = h[x]
  <2> DEFINE Differ == {k \in Nat : \E y \in S : size[y] = k /\ k < d /\ k < e /\ g[y] # h[y]}
  <2>1. Differ = {}
    <3> SUFFICES ASSUME Differ # {} PROVE FALSE
      OBVIOUS
    <3>1. PICK k \in Differ : \A l \in Differ : k <= l
      <4>1. Differ \subseteq Nat
        OBVIOUS
      <4> HIDE DEF Differ
      <4> QED BY <4>1, LeastNatural
    <3>2. PICK y \in S : size[y] = k /\ k < d /\ k < e /\ g[y] # h[y]
      BY <3>1
    <3>3. \A z \in S : size[z] < size[y] => g[z] = h[z]
      BY <3>1, <3>2
    <3> QED BY <1>3, <3>2, <3>3
  <2> QED BY <1>3, <2>1
<1> DEFINE Of(d) == CHOOSE g \in [S -> T] : Good(g, d)
           G == [x \in S |-> Of(size[x] + 1)[x]]
<1>4. \A d \in Nat : Of(d) \in [S -> T] /\ Good(Of(d), d)
  BY <1>2
<1> HIDE DEF Of
<1>5. G \in [S -> T]
  BY <1>4
<1>6. ASSUME NEW x \in S PROVE Step[G][x] = G[x]
  <2> DEFINE d == size[x] + 1
  <2>1. d \in Nat /\ Of(d) \in [S -> T] /\ Good(Of(d), d) /\ size[x] < d
    BY <1>4
  <2>2. ASSUME NEW y \in S, size[y] < size[x] PROVE G[y] = Of(d)[y]
    <3>1. size[y] + 1 \in Nat /\ size[y] < size[y] + 1 /\ size[y] < d
      BY <2>2
    <3>2. Of(size[y] + 1) \in [S -> T] /\ Good(Of(size[y] + 1), size[y] + 1)
      BY <1>4, <3>1
    <3> HIDE DEF Good, d
    <3> QED BY <1>3, <2>1, <3>1, <3>2
  <2>3. Step[G][x] = Step[Of(d)][x]
    BY <1>5, <2>1, <2>2
  <2> QED BY <2>1, <2>3
<1>7. Step[G] = G
  <2>1. Step[G] \in [S -> T]
    BY <1>5
  <2> HIDE DEF G
  <2> QED BY <1>5, <1>6, <2>1
<1> QED BY <1>5, <1>7 DEF Solvable

-----------------------------------------------------------------------------
\* What the assumption says of a byte and of its top bit.
LEMMA BaseFacts ==
  /\ Base \in Nat /\ Base >= 2 /\ Sign \in Nat /\ Base = 2 * Sign /\ Sign \in Byte
  /\ MaxNumSize \in Nat /\ MaxKeys \in Nat
  BY InterpreterAssumption DEF Sign, Byte

\* Dividing by Base makes a positive number smaller, and leaves a byte.
LEMMA Division ==
  ASSUME NEW n \in Nat
  PROVE  /\ n \div Base \in Nat /\ n % Base \in Byte /\ n = (n % Base) + Base * (n \div Base)
         /\ n # 0 => n \div Base < n
<1>1. Base \in Nat /\ Base >= 2
  BY BaseFacts
<1> DEFINE q == n \div Base
           r == n % Base
<1>2. q \in Int /\ r \in Int /\ 0 <= r /\ r < Base /\ n = r + Base * q
  BY <1>1
<1> HIDE DEF q, r
<1>3. q >= 0
  <2>1. q < 0 => Base * q <= 0 - Base
    BY <1>1, <1>2
  <2> QED BY <1>1, <1>2, <2>1
<1>4. Base * q >= 2 * q
  BY <1>1, <1>2, <1>3
<1> QED BY <1>1, <1>2, <1>3, <1>4 DEF Byte, q, r

\* Digits is what its definition says it is.
LEMMA DigitsEquation ==
  Digits = [n \in Nat |-> IF n = 0 THEN <<>> ELSE <<n % Base>> \o Digits[n \div Base]]
<1> DEFINE Step == [g \in [Nat -> Seq(Byte)] |->
                      [n \in Nat |-> IF n = 0 THEN <<>> ELSE <<n % Base>> \o g[n \div Base]]]
           size == [n \in Nat |-> n]
<1>1. ASSUME NEW g \in [Nat -> Seq(Byte)]
      PROVE  Step[g] = [n \in Nat |-> IF n = 0 THEN <<>> ELSE <<n % Base>> \o g[n \div Base]]
  OBVIOUS
<1>2. Step \in [[Nat -> Seq(Byte)] -> [Nat -> Seq(Byte)]]
  <2> SUFFICES ASSUME NEW g \in [Nat -> Seq(Byte)], NEW n \in Nat, n # 0
               PROVE  <<n % Base>> \o g[n \div Base] \in Seq(Byte)
    OBVIOUS
  <2>1. <<n % Base>> \in Seq(Byte) /\ g[n \div Base] \in Seq(Byte)
    BY Division
  <2> QED BY <2>1
<1>3. ASSUME NEW g \in [Nat -> Seq(Byte)], NEW h \in [Nat -> Seq(Byte)], NEW n \in Nat,
             \A y \in Nat : size[y] < size[n] => g[y] = h[y]
      PROVE  Step[g][n] = Step[h][n]
  <2>1. n # 0 => g[n \div Base] = h[n \div Base]
    BY <1>3, Division
  <2>2. Step[g][n] = IF n = 0 THEN <<>> ELSE <<n % Base>> \o g[n \div Base]
    BY <1>1
  <2>3. Step[h][n] = IF n = 0 THEN <<>> ELSE <<n % Base>> \o h[n \div Base]
    BY <1>1
  <2> HIDE DEF Step
  <2> QED BY <2>1, <2>2, <2>3
<1>4. size \in [Nat -> Nat] /\ Seq(Byte) # {}
  <2>1. <<>> \in Seq(Byte)
    OBVIOUS
  <2> QED BY <2>1
<1>5. Descends(Nat, Seq(Byte), size, Step)
  <2> HIDE DEF Step, size
  <2> QED BY <1>2, <1>3, <1>4 DEF Descends
<1>6. PICK g \in [Nat -> Seq(Byte)] : Step[g] = g
  <2> HIDE DEF Step, size
  <2>1. Solvable(Nat, Seq(Byte), Step)
    BY <1>5, RecursionHasSolution, Zenon
  <2> QED BY <2>1 DEF Solvable
<1>7. \E h : h = [n \in Nat |-> IF n = 0 THEN <<>> ELSE <<n % Base>> \o h[n \div Base]]
  <2> HIDE DEF Step
  <2> QED BY <1>1, <1>6
<1> QED BY <1>7 DEF Digits

\* The digits of a number are bytes, the lowest first.
LEMMA DigitsTyped ==
  ASSUME NEW n \in Nat
  PROVE  /\ Digits[n] \in Seq(Byte)
         /\ n # 0 => Digits[n] = <<n % Base>> \o Digits[n \div Base]
         /\ n = 0 => Digits[n] = <<>>
<1> DEFINE Bad == {k \in Nat : Digits[k] \notin Seq(Byte)}
<1>1. \A k \in Nat : Digits[k] = IF k = 0 THEN <<>> ELSE <<k % Base>> \o Digits[k \div Base]
  BY DigitsEquation
<1>2. Bad = {}
  <2> SUFFICES ASSUME Bad # {} PROVE FALSE
    OBVIOUS
  <2>1. PICK k \in Bad : \A l \in Bad : k <= l
    <3>1. Bad \subseteq Nat
      OBVIOUS
    <3> HIDE DEF Bad
    <3> QED BY <3>1, LeastNatural
  <2>2. k \in Nat /\ k # 0
    <3>1. <<>> \in Seq(Byte)
      OBVIOUS
    <3> QED BY <1>1, <2>1, <3>1
  <2>3. Digits[k \div Base] \in Seq(Byte) /\ <<k % Base>> \in Seq(Byte)
    BY <2>1, <2>2, Division
  <2>4. <<k % Base>> \o Digits[k \div Base] \in Seq(Byte)
    BY <2>3
  <2> QED BY <1>1, <2>1, <2>2, <2>4
<1> QED BY <1>1, <1>2


\* The magnitude that set_vch reads.
Value[s \in Seq(Byte)] == IF s = <<>> THEN 0 ELSE Head(s) + Base * Value[Tail(s)]

\* set_vch reads digits and takes the sign from the last byte.
LEMMA set_vchIsValue ==
  ASSUME NEW d
  PROVE  set_vch(d) = IF d = <<>> THEN 0
                      ELSE IF Last(d) >= Sign THEN -Value[[d EXCEPT ![Len(d)] = @ - Sign]]
                      ELSE Value[d]
  BY Zenon DEF set_vch, Value, Byte

\* The value of digits obeys its own equation.
LEMMA ValueEquation ==
  Value = [s \in Seq(Byte) |-> IF s = <<>> THEN 0 ELSE Head(s) + Base * Value[Tail(s)]]
<1> DEFINE S == Seq(Byte)
           Step == [g \in [S -> Int] |->
                      [s \in S |-> IF s = <<>> THEN 0 ELSE Head(s) + Base * g[Tail(s)]]]
           size == [s \in S |-> Len(s)]
<1>1. ASSUME NEW g \in [S -> Int]
      PROVE  Step[g] = [s \in S |-> IF s = <<>> THEN 0 ELSE Head(s) + Base * g[Tail(s)]]
  OBVIOUS
<1>2. \A s \in S : s # <<>> => Head(s) \in Byte /\ Tail(s) \in S /\ Len(Tail(s)) < Len(s)
  OBVIOUS
<1>3. Base \in Nat /\ Byte \subseteq Int
  BY BaseFacts DEF Byte
<1>4. Step \in [[S -> Int] -> [S -> Int]]
  <2> SUFFICES ASSUME NEW g \in [S -> Int], NEW s \in S, s # <<>>
               PROVE  Head(s) + Base * g[Tail(s)] \in Int
    OBVIOUS
  <2>1. Head(s) \in Int /\ g[Tail(s)] \in Int
    BY <1>2, <1>3
  <2> QED BY <1>3, <2>1
<1>5. ASSUME NEW g \in [S -> Int], NEW h \in [S -> Int], NEW s \in S,
             \A y \in S : size[y] < size[s] => g[y] = h[y]
      PROVE  Step[g][s] = Step[h][s]
  <2>1. s # <<>> => g[Tail(s)] = h[Tail(s)]
    BY <1>2, <1>5
  <2>2. Step[g][s] = IF s = <<>> THEN 0 ELSE Head(s) + Base * g[Tail(s)]
    BY <1>1
  <2>3. Step[h][s] = IF s = <<>> THEN 0 ELSE Head(s) + Base * h[Tail(s)]
    BY <1>1
  <2> HIDE DEF Step
  <2> QED BY <2>1, <2>2, <2>3
<1>6. size \in [S -> Nat] /\ Int # {}
  OBVIOUS
<1>7. Descends(S, Int, size, Step)
  <2> HIDE DEF Step, size, S
  <2> QED BY <1>4, <1>5, <1>6 DEF Descends
<1>8. PICK g \in [S -> Int] : Step[g] = g
  <2> HIDE DEF Step, size, S
  <2>1. Solvable(S, Int, Step)
    BY <1>7, RecursionHasSolution, Zenon
  <2> QED BY <2>1 DEF Solvable
<1>9. \E h : h = [s \in Seq(Byte) |-> IF s = <<>> THEN 0 ELSE Head(s) + Base * h[Tail(s)]]
  <2> HIDE DEF Step
  <2> QED BY <1>1, <1>8
<1> QED BY <1>9 DEF Value

\* The value of digits is a natural number.
LEMMA ValueTyped ==
  ASSUME NEW s \in Seq(Byte)
  PROVE  /\ Value[s] \in Nat
         /\ s # <<>> => Value[s] = Head(s) + Base * Value[Tail(s)]
         /\ s = <<>> => Value[s] = 0
<1> DEFINE Bad == {k \in Nat : \E t \in Seq(Byte) : Len(t) = k /\ Value[t] \notin Nat}
<1>1. \A t \in Seq(Byte) : Value[t] = IF t = <<>> THEN 0 ELSE Head(t) + Base * Value[Tail(t)]
  BY ValueEquation
<1>2. Bad = {}
  <2> SUFFICES ASSUME Bad # {} PROVE FALSE
    OBVIOUS
  <2>1. PICK k \in Bad : \A l \in Bad : k <= l
    <3>1. Bad \subseteq Nat
      OBVIOUS
    <3> HIDE DEF Bad
    <3> QED BY <3>1, LeastNatural
  <2>2. PICK t \in Seq(Byte) : Len(t) = k /\ Value[t] \notin Nat
    BY <2>1
  <2>3. t # <<>>
    BY <1>1, <2>2
  <2>4. Tail(t) \in Seq(Byte) /\ Len(Tail(t)) = k - 1 /\ k - 1 \in Nat /\ Head(t) \in Byte
    BY <2>2, <2>3
  <2>5. Value[Tail(t)] \in Nat
    <3>1. k - 1 \notin Bad
      BY <2>1, <2>4
    <3> QED BY <2>4, <3>1
  <2>6. Head(t) \in Nat /\ Base \in Nat
    BY <2>4, BaseFacts DEF Byte
  <2>7. Head(t) + Base * Value[Tail(t)] \in Nat
    <3> DEFINE v == Value[Tail(t)]
    <3>1. v \in Nat
      BY <2>5
    <3> HIDE DEF v
    <3>2. Base * v \in Nat
      BY <2>6, <3>1
    <3>3. Head(t) + Base * v \in Nat
      BY <2>6, <3>2
    <3> QED BY <3>3 DEF v
  <2> QED BY <1>1, <2>2, <2>3, <2>7
<1>3. \A t \in Seq(Byte) : Value[t] \in Nat
  BY <1>2
<1> QED BY <1>1, <1>3


\* The digits of a positive number end in one that is not zero.
LEMMA LastDigit ==
  ASSUME NEW n \in Nat, n # 0
  PROVE  Digits[n] # <<>> /\ Last(Digits[n]) # 0
<1> DEFINE Good(k) == Digits[k] # <<>> /\ Last(Digits[k]) # 0
           Bad == {k \in Nat \ {0} : ~Good(k)}
<1>1. Bad = {}
  <2> SUFFICES ASSUME Bad # {} PROVE FALSE
    OBVIOUS
  <2>1. PICK k \in Bad : \A l \in Bad : k <= l
    <3>1. Bad \subseteq Nat
      OBVIOUS
    <3> HIDE DEF Bad
    <3> QED BY <3>1, LeastNatural
  <2> DEFINE q == k \div Base
  <2>2. /\ k \in Nat /\ k # 0 /\ q \in Nat /\ q < k /\ k % Base \in Byte
        /\ k = (k % Base) + Base * q /\ Digits[k] = <<k % Base>> \o Digits[q]
        /\ Digits[q] \in Seq(Byte) /\ (q = 0 => Digits[q] = <<>>)
    BY <2>1, Division, DigitsTyped
  <2>3. CASE q = 0
    <3> DEFINE r == k % Base
    <3>1. r \in Byte /\ k = r + Base * q /\ Digits[k] = <<r>> \o Digits[q]
      BY <2>2
    <3> HIDE DEF q, r, Bad
    <3>2. Digits[k] = <<r>> /\ r # 0
      <4>1. Digits[q] = <<>>
        BY <2>2, <2>3
      <4>2. Base * q = 0
        BY <2>3, BaseFacts
      <4> QED BY <2>2, <3>1, <4>1, <4>2
    <3>3. Good(k)
      BY <3>2 DEF Last
    <3> QED BY <2>1, <3>3 DEF Bad
  <2>4. CASE q # 0
    <3>1. q \notin Bad
      BY <2>1, <2>2
    <3>2. Digits[q] # <<>> /\ Last(Digits[q]) # 0
      BY <2>2, <2>4, <3>1
    <3>3. ASSUME NEW d \in Seq(Byte), d # <<>>, NEW b \in Byte
          PROVE  <<b>> \o d # <<>> /\ Last(<<b>> \o d) = Last(d)
      BY <3>3 DEF Last
    <3> HIDE DEF q, Bad
    <3>4. Good(k)
      BY <2>2, <3>2, <3>3
    <3> QED BY <2>1, <3>4 DEF Bad
  <2> QED BY <2>3, <2>4
<1> QED BY <1>1

\* The digits of a number are worth the number.
LEMMA ValueOfDigits ==
  ASSUME NEW n \in Nat
  PROVE  Value[Digits[n]] = n
<1> DEFINE Bad == {k \in Nat : Value[Digits[k]] # k}
<1>1. Bad = {}
  <2> SUFFICES ASSUME Bad # {} PROVE FALSE
    OBVIOUS
  <2>1. PICK k \in Bad : \A l \in Bad : k <= l
    <3>1. Bad \subseteq Nat
      OBVIOUS
    <3> HIDE DEF Bad
    <3> QED BY <3>1, LeastNatural
  <2> DEFINE q == k \div Base
             r == k % Base
  <2>2. k \in Nat /\ k # 0
    BY <2>1, DigitsTyped, ValueTyped
  <2>3. q \in Nat /\ q < k /\ r \in Byte /\ k = r + Base * q
    BY <2>2, Division
  <2>4. Digits[k] = <<r>> \o Digits[q] /\ Digits[q] \in Seq(Byte)
    BY <2>2, <2>3, DigitsTyped
  <2>5. Value[Digits[q]] = q
    BY <2>1, <2>3
  <2> HIDE DEF q, r, Bad
  <2>6. Value[<<r>> \o Digits[q]] = r + Base * Value[Digits[q]]
    <3>1. ASSUME NEW d \in Seq(Byte)
          PROVE  /\ <<r>> \o d \in Seq(Byte) /\ <<r>> \o d # <<>>
                 /\ Head(<<r>> \o d) = r /\ Tail(<<r>> \o d) = d
      BY <2>3
    <3> QED BY <2>4, <3>1, ValueTyped
  <2>7. Value[Digits[k]] = k
    BY <2>3, <2>4, <2>5, <2>6
  <2> QED BY <2>1, <2>7 DEF Bad
<1> QED BY <1>1

\* A zero at the end adds nothing.
LEMMA ValueOfZero ==
  ASSUME NEW d \in Seq(Byte)
  PROVE  Value[Append(d, 0)] = Value[d]
<1>1. 0 \in Byte /\ Base \in Nat
  BY BaseFacts DEF Byte
<1> DEFINE Bad == {k \in Nat : \E t \in Seq(Byte) : Len(t) = k /\ Value[Append(t, 0)] # Value[t]}
<1>2. Bad = {}
  <2> SUFFICES ASSUME Bad # {} PROVE FALSE
    OBVIOUS
  <2>1. PICK k \in Bad : \A l \in Bad : k <= l
    <3>1. Bad \subseteq Nat
      OBVIOUS
    <3> HIDE DEF Bad
    <3> QED BY <3>1, LeastNatural
  <2>2. PICK t \in Seq(Byte) : Len(t) = k /\ Value[Append(t, 0)] # Value[t]
    BY <2>1
  <2>3. /\ Append(t, 0) \in Seq(Byte) /\ Append(t, 0) # <<>>
        /\ t # <<>> => Head(Append(t, 0)) = Head(t) /\ Tail(Append(t, 0)) = Append(Tail(t), 0)
        /\ t = <<>> => Head(Append(t, 0)) = 0 /\ Tail(Append(t, 0)) = <<>>
    <3>1. Append(t, 0) \in Seq(Byte) /\ Append(t, 0) # <<>>
      BY <1>1
    <3>2. ASSUME t # <<>>
          PROVE  Head(Append(t, 0)) = Head(t) /\ Tail(Append(t, 0)) = Append(Tail(t), 0)
      BY <3>2, <1>1
    <3>3. t = <<>> => Head(Append(t, 0)) = 0 /\ Tail(Append(t, 0)) = <<>>
      OBVIOUS
    <3> QED BY <3>1, <3>2, <3>3
  <2>4. Value[Append(t, 0)] = Head(Append(t, 0)) + Base * Value[Tail(Append(t, 0))]
    BY <2>3, ValueTyped
  <2>5. CASE t = <<>>
    <3>1. Value[t] = 0
      BY <2>5, ValueTyped
    <3> QED BY ONLY <1>1, <2>2, <2>3, <2>4, <2>5, <3>1
  <2>6. CASE t # <<>>
    <3>1. Tail(t) \in Seq(Byte) /\ Len(Tail(t)) = k - 1 /\ k - 1 \in Nat
      BY <2>2, <2>6
    <3>2. k - 1 \notin Bad
      BY <2>1, <3>1
    <3>3. Value[Append(Tail(t), 0)] = Value[Tail(t)]
      BY <3>1, <3>2
    <3>4. Value[t] = Head(t) + Base * Value[Tail(t)]
      BY <2>6, ValueTyped
    <3> QED BY <2>2, <2>3, <2>4, <2>6, <3>3, <3>4
  <2> QED BY <2>5, <2>6
<1> QED BY <1>2


\* What serialize makes of a number: digits, with the sign where there is room for it.
LEMMA SerializedForm ==
  ASSUME NEW n \in Int, n # 0
  PROVE  \E d \in Seq(Byte) :
           /\ d # <<>> /\ Last(d) \in Byte /\ Last(d) # 0 /\ Value[d] = Abs(n)
           /\ serialize(n) = IF Last(d) >= Sign THEN Append(d, IF n < 0 THEN Sign ELSE 0)
                             ELSE IF n < 0 THEN [d EXCEPT ![Len(d)] = @ + Sign] ELSE d
<1> DEFINE d == Digits[Abs(n)]
<1>1. Abs(n) \in Nat /\ Abs(n) # 0
  BY DEF Abs
<1>2. d \in Seq(Byte) /\ d # <<>> /\ Last(d) # 0 /\ Value[d] = Abs(n)
  BY <1>1, DigitsTyped, LastDigit, ValueOfDigits
<1>3. Last(d) \in Byte
  <2> HIDE DEF d
  <2> QED BY <1>2 DEF Last
<1>4. serialize(n) = IF Last(d) >= Sign THEN Append(d, IF n < 0 THEN Sign ELSE 0)
                     ELSE IF n < 0 THEN [d EXCEPT ![Len(d)] = @ + Sign] ELSE d
  BY DEF serialize
<1> HIDE DEF d
<1> QED BY <1>2, <1>3, <1>4

\* A byte after a sequence of them.
LEMMA OneMore ==
  ASSUME NEW d \in Seq(Byte), NEW b \in Byte
  PROVE  /\ Append(d, b) \in Seq(Byte) /\ Append(d, b) \in [1..Len(d) + 1 -> Byte]
         /\ Len(Append(d, b)) = Len(d) + 1 /\ Append(d, b)[Len(d) + 1] = b
         /\ \A i \in 1..Len(d) : Append(d, b)[i] = d[i]
<1> DEFINE s == Append(d, b)
<1>1. /\ s \in Seq(Byte) /\ Len(s) = Len(d) + 1 /\ s[Len(d) + 1] = b
      /\ \A i \in 1..Len(d) : s[i] = d[i]
  BY AppendProperties
<1>2. s \in [1..Len(s) -> Byte]
  <2> HIDE DEF s
  <2> QED BY <1>1
<1> HIDE DEF s
<1> QED BY <1>1, <1>2 DEF s

\* Adding the sign to the last digit, and taking it away again.
LEMMA SignedDigits ==
  ASSUME NEW d \in Seq(Byte), d # <<>>, Last(d) < Sign
  PROVE  LET s == [d EXCEPT ![Len(d)] = @ + Sign]
         IN  /\ s \in Seq(Byte) /\ Len(s) = Len(d) /\ s # <<>>
             /\ Last(s) = Last(d) + Sign
             /\ [s EXCEPT ![Len(s)] = @ - Sign] = d
<1> DEFINE s == [d EXCEPT ![Len(d)] = @ + Sign]
<1>1. Len(d) \in Nat \ {0} /\ Len(d) \in 1..Len(d) /\ d \in [1..Len(d) -> Byte]
  OBVIOUS
<1>2. Sign \in Nat /\ Base = 2 * Sign
  BY BaseFacts
<1>3. d[Len(d)] \in Byte /\ d[Len(d)] + Sign \in Byte
  BY <1>1, <1>2 DEF Last, Byte
<1>4. s \in Seq(Byte) /\ Len(s) = Len(d) /\ s[Len(d)] = d[Len(d)] + Sign
  BY <1>1, <1>3
<1>5. [s EXCEPT ![Len(s)] = @ - Sign] = d
  <2> DEFINE e == [s EXCEPT ![Len(s)] = @ - Sign]
  <2>1. d[Len(d)] + Sign - Sign = d[Len(d)]
    BY <1>2, <1>3 DEF Byte
  <2>2. \A i \in 1..Len(d) : i # Len(d) => s[i] = d[i]
    BY <1>1
  <2> HIDE DEF s
  <2>3. s \in [1..Len(d) -> Byte] /\ Len(s) = Len(d)
    BY <1>4
  <2> DEFINE l == Len(d)
  <2>4. /\ l \in 1..l /\ s \in [1..l -> Byte] /\ e = [s EXCEPT ![l] = @ - Sign]
        /\ s[l] - Sign = d[l] /\ d[l] \in Byte
    <3>1. s[l] = d[l] + Sign
      BY <1>4 DEF s
    <3>2. s[l] - Sign = d[l]
      BY <1>2, <1>3, <3>1 DEF Byte
    <3>3. e = [s EXCEPT ![l] = @ - Sign]
      BY <2>3
    <3> QED BY <1>1, <1>3, <2>3, <3>2, <3>3
  <2> HIDE DEF e, l
  <2>5. e \in [1..l -> Byte] /\ \A i \in 1..l : e[i] = d[i]
    <3>1. e[l] = d[l] /\ e \in [1..l -> Byte]
      BY <2>4
    <3>2. \A i \in 1..l : i # l => e[i] = s[i] /\ s[i] = d[i]
      BY <2>2, <2>4 DEF l
    <3> QED BY <3>1, <3>2
  <2>6. e = d
    BY <1>1, <2>5 DEF l
  <2> QED BY <2>6 DEF e
<1> QED BY <1>1, <1>4, <1>5 DEF Last

\* A digit below the sign is what is left of it, and of it with the sign, without it.
LEMMA WithoutSign ==
  ASSUME NEW x \in Nat, x < Sign
  PROVE  x % Sign = x /\ (x + Sign) % Sign = x
<1>1. Sign \in Nat \ {0}
  BY BaseFacts
<1>2. x % Sign = x
  BY <1>1
<1> QED BY <1>1, <1>2

\* A serialized number is a string of bytes.
LEMMA SerializedTyped ==
  ASSUME NEW n \in Int
  PROVE  serialize(n) \in Seq(Byte)
<1>1. CASE n = 0
  <2>1. serialize(n) = <<>>
    BY <1>1 DEF serialize
  <2> QED BY <2>1
<1>2. CASE n # 0
  <2>1. PICK d \in Seq(Byte) :
          /\ d # <<>> /\ Last(d) \in Byte
          /\ serialize(n) = IF Last(d) >= Sign THEN Append(d, IF n < 0 THEN Sign ELSE 0)
                            ELSE IF n < 0 THEN [d EXCEPT ![Len(d)] = @ + Sign] ELSE d
    BY <1>2, SerializedForm
  <2>2. Sign \in Byte /\ 0 \in Byte /\ Sign \in Nat /\ Last(d) \in Int
    BY <2>1, BaseFacts DEF Byte
  <2>3. CASE Last(d) >= Sign
    BY <2>1, <2>2, <2>3
  <2>4. CASE Last(d) < Sign
    <3>1. [d EXCEPT ![Len(d)] = @ + Sign] \in Seq(Byte)
      BY <2>1, <2>4, SignedDigits
    <3> QED BY <2>1, <2>2, <2>4, <3>1
  <2> QED BY <2>2, <2>3, <2>4
<1> QED BY <1>1, <1>2

\* A string of bytes is read as an integer.
LEMMA set_vchTyped ==
  ASSUME NEW d \in Seq(Byte)
  PROVE  set_vch(d) \in Int
<1> DEFINE e == [d EXCEPT ![Len(d)] = @ - Sign]
<1>1. set_vch(d) = IF d = <<>> THEN 0 ELSE IF Last(d) >= Sign THEN -Value[e] ELSE Value[d]
  BY set_vchIsValue
<1>2. CASE d = <<>>
  BY <1>1, <1>2
<1>3. CASE d # <<>>
  <2>1. Last(d) \in Byte /\ Len(d) \in 1..Len(d) /\ Sign \in Nat /\ Base = 2 * Sign
    BY <1>3, BaseFacts DEF Last
  <2>2. Last(d) < Sign \/ Last(d) >= Sign
    BY <2>1 DEF Byte
  <2>3. CASE Last(d) >= Sign
    <3>1. Last(d) - Sign \in Byte
      BY <2>1, <2>3 DEF Byte
    <3>2. e \in Seq(Byte)
      BY <2>1, <3>1 DEF Last
    <3> HIDE DEF e
    <3>3. Value[e] \in Nat
      BY <3>2, ValueTyped
    <3> QED BY <1>1, <1>3, <2>3, <3>3
  <2>4. CASE Last(d) < Sign
    <3>1. Value[d] \in Nat /\ ~(Last(d) >= Sign)
      BY <2>1, <2>4, ValueTyped DEF Byte
    <3> QED BY <1>1, <1>3, <3>1
  <2> QED BY <2>2, <2>3, <2>4
<1> QED BY <1>2, <1>3

\* Every number that is serialized reads back as the same number, and no shorter form of it
\* exists: its last byte carries more than the sign, or the byte before needs it.
THEOREM NumbersSurvive ==
  ASSUME NEW n \in Int
  PROVE  set_vch(serialize(n)) = n /\ Minimal(serialize(n))
<1>1. CASE n = 0
  <2>1. serialize(n) = <<>>
    BY <1>1 DEF serialize
  <2> QED BY <1>1, <2>1, set_vchIsValue DEF Minimal
<1>2. CASE n # 0
  <2>1. PICK d \in Seq(Byte) :
          /\ d # <<>> /\ Last(d) \in Byte /\ Last(d) # 0 /\ Value[d] = Abs(n)
          /\ serialize(n) = IF Last(d) >= Sign THEN Append(d, IF n < 0 THEN Sign ELSE 0)
                            ELSE IF n < 0 THEN [d EXCEPT ![Len(d)] = @ + Sign] ELSE d
    BY <1>2, SerializedForm
  <2>2. /\ Sign \in Nat \ {0} /\ Base = 2 * Sign /\ Sign \in Byte /\ 0 \in Byte
        /\ Last(d) \in Nat \ {0} /\ Last(d) < Base
    BY <2>1, BaseFacts DEF Byte
  <2>3. CASE Last(d) >= Sign
    <3> DEFINE b == IF n < 0 THEN Sign ELSE 0
               s == Append(d, b)
    <3>1. serialize(n) = s
      BY <2>1, <2>3
    <3>2. b \in Byte /\ b \in Nat /\ (b >= Sign <=> n < 0) /\ b % Sign = 0
      BY <2>2
    <3> HIDE DEF b
    <3>3. /\ s \in Seq(Byte) /\ s # <<>> /\ Last(s) = b /\ Len(s) = Len(d) + 1 /\ Len(s) > 1
          /\ s[Len(s) - 1] = Last(d)
      BY <2>1, <3>2 DEF Last
    <3>4. Minimal(s)
      <4> HIDE DEF s
      <4> QED BY <2>3, <3>3 DEF Minimal
    <3>5. CASE n < 0
      <4>1. b = Sign /\ b - Sign = 0
        BY <2>2, <3>5 DEF b
      <4> DEFINE e == [s EXCEPT ![Len(s)] = @ - Sign]
                 z == Append(d, 0)
      <4>2. e = z
        <5>1. /\ Len(s) = Len(d) + 1 /\ s \in [1..Len(d) + 1 -> Byte] /\ s[Len(s)] = Sign
              /\ \A i \in 1..Len(d) : s[i] = d[i]
          BY <2>1, <3>2, <3>3, <4>1, OneMore DEF Last
        <5>2. /\ z \in [1..Len(d) + 1 -> Byte] /\ z[Len(d) + 1] = 0
              /\ \A i \in 1..Len(d) : z[i] = d[i]
          BY <2>1, <2>2, OneMore
        <5> HIDE DEF s, z
        <5>3. e \in [1..Len(d) + 1 -> Byte]
          BY <2>2, <4>1, <5>1
        <5>4. ASSUME NEW i \in 1..Len(d) + 1 PROVE e[i] = z[i]
          BY <2>2, <4>1, <5>1, <5>2
        <5> HIDE DEF e
        <5> QED BY <5>2, <5>3, <5>4
      <4> HIDE DEF s
      <4>3. set_vch(s) = -Value[z]
        <5>1. set_vch(s) = IF s = <<>> THEN 0
                           ELSE IF Last(s) >= Sign THEN -Value[e] ELSE Value[s]
          BY set_vchIsValue
        <5> HIDE DEF e, z
        <5> QED BY <2>2, <3>3, <4>1, <4>2, <5>1
      <4>4. set_vch(s) = -Abs(n)
        BY <2>1, <4>3, ValueOfZero
      <4> QED BY <3>1, <3>4, <3>5, <4>4 DEF Abs
    <3>6. CASE ~(n < 0)
      <4>1. b = 0 /\ ~(b >= Sign)
        BY <2>2, <3>6 DEF b
      <4>2. set_vch(s) = Value[s] /\ s = Append(d, 0)
        BY <3>3, <4>1, set_vchIsValue
      <4>3. set_vch(s) = Abs(n)
        BY <2>1, <4>2, ValueOfZero
      <4> QED BY <3>1, <3>4, <3>6, <4>3 DEF Abs
    <3> QED BY <3>5, <3>6
  <2>4. CASE Last(d) < Sign
    <3>1. Last(d) % Sign = Last(d) /\ (Last(d) + Sign) % Sign = Last(d)
      BY <2>2, <2>4, WithoutSign
    <3>2. CASE n < 0
      <4> DEFINE s == [d EXCEPT ![Len(d)] = @ + Sign]
      <4>1. /\ s \in Seq(Byte) /\ s # <<>> /\ Last(s) = Last(d) + Sign
            /\ [s EXCEPT ![Len(s)] = @ - Sign] = d
        BY <2>1, <2>4, SignedDigits
      <4>2. serialize(n) = s
        BY <2>1, <2>2, <2>4, <3>2
      <4> HIDE DEF s
      <4>3. Last(s) >= Sign /\ Last(s) % Sign # 0
        BY <2>2, <3>1, <4>1
      <4>4. set_vch(s) = -Value[d]
        BY <4>1, <4>3, set_vchIsValue
      <4>5. set_vch(s) = n
        BY <2>1, <3>2, <4>4 DEF Abs
      <4>6. Minimal(s)
        BY <4>3 DEF Minimal
      <4> QED BY <4>2, <4>5, <4>6
    <3>3. CASE ~(n < 0)
      <4>1. serialize(n) = d /\ ~(Last(d) >= Sign) /\ Last(d) % Sign # 0
        BY <2>1, <2>2, <2>4, <3>1, <3>3
      <4>2. set_vch(d) = Value[d]
        BY <2>1, <4>1, set_vchIsValue
      <4>3. set_vch(d) = n
        BY <2>1, <3>3, <4>2 DEF Abs
      <4>4. Minimal(d)
        BY <4>1 DEF Minimal
      <4> QED BY <4>1, <4>3, <4>4
    <3> QED BY <3>2, <3>3
  <2> QED BY <2>2, <2>3, <2>4
<1> QED BY <1>1, <1>2


-----------------------------------------------------------------------------
\* What an instruction may do to a machine: its types stay, it goes on at the same place,
\* and it leaves the conditionals alone.
Kept(k, r) ==
  /\ r.k \in Machines /\ r.k.pc = k.pc /\ r.k.cond = k.cond
  /\ r.k.sep = k.sep \/ r.k.sep = k.pc

\* The three kinds of StackFrame, and what is read out of one.
LEMMA FramesTyped ==
  /\ \A n \in Int : Number(n) \in Frames
  /\ \A d \in Seq(Byte) : Data(d) \in Frames
  /\ \A b \in BOOLEAN : Truth(b) \in Frames
  /\ \A f \in Frames : asData(f) \in Seq(Byte) /\ asNumber(f) \in Int
<1>1. \A n \in Int : Number(n) \in Frames
  <2>1. <<>> \in Seq(Byte)
    OBVIOUS
  <2> QED BY <2>1 DEF Number, Frames
<1>2. \A d \in Seq(Byte) : Data(d) \in Frames
  BY DEF Data, Frames
<1>3. \A b \in BOOLEAN : Truth(b) \in Frames
  BY <1>1 DEF Truth
<1>4. ASSUME NEW f \in Frames PROVE asData(f) \in Seq(Byte) /\ asNumber(f) \in Int
  <2>1. f.n \in Int /\ f.data \in Seq(Byte)
    BY DEF Frames
  <2> QED BY <2>1, SerializedTyped, set_vchTyped DEF asData, asNumber
<1> QED BY <1>1, <1>2, <1>3, <1>4

\* The parts of a machine.
LEMMA MachineTyped ==
  ASSUME NEW k \in Machines
  PROVE  /\ k.pc \in Nat /\ k.stack \in Seq(Frames) /\ k.alt \in Seq(Frames)
         /\ k.cond \in Seq(BOOLEAN) /\ k.ops \in Nat /\ k.sep \in Nat /\ Depth(k) \in Nat
  BY DEF Machines, Depth

\* What lies at and below a place of the stack.
LEMMA StackTyped ==
  ASSUME NEW k \in Machines, NEW i \in Nat, i <= Depth(k)
  PROVE  /\ i # 0 => Top(k, i) \in Frames
         /\ Below(k, i) \in Seq(Frames) /\ Len(Below(k, i)) = Depth(k) - i
<1>1. k.stack \in Seq(Frames) /\ Depth(k) = Len(k.stack)
  BY MachineTyped DEF Depth
<1>2. i # 0 => Top(k, i) \in Frames
  BY <1>1 DEF Top
<1>3. /\ SubSeq(k.stack, 1, Depth(k) - i) \in Seq(Frames)
      /\ Len(SubSeq(k.stack, 1, Depth(k) - i)) = Depth(k) - i
  BY <1>1
<1> QED BY <1>2, <1>3 DEF Below

\* A machine with another stack is a machine.
LEMMA WithStack ==
  ASSUME NEW k \in Machines, NEW s \in Seq(Frames)
  PROVE  /\ [k EXCEPT !.stack = s] \in Machines /\ [k EXCEPT !.stack = s].stack = s
         /\ [k EXCEPT !.stack = s].pc = k.pc /\ [k EXCEPT !.stack = s].cond = k.cond
         /\ [k EXCEPT !.stack = s].sep = k.sep /\ [k EXCEPT !.stack = s].alt = k.alt
  BY DEF Machines

\* An exception, or the end of an instruction without effect.
LEMMA ThrowKeeps ==
  ASSUME NEW k \in Machines, NEW e
  PROVE  Kept(k, Throw(k, e)) /\ Kept(k, Done(k))
  BY DEF Kept, Throw, Done

\* An instruction behind the test of the stack's size.
LEMMA NeedKeeps ==
  ASSUME NEW k \in Machines, NEW i \in Int, NEW r, Depth(k) >= i => Kept(k, r)
  PROVE  Kept(k, Need(k, i, r))
<1>1. Depth(k) \in Nat
  BY MachineTyped
<1>2. Depth(k) < i \/ Depth(k) >= i
  BY <1>1
<1>3. Kept(k, Throw(k, "INVALID_STACK_OPERATION"))
  BY ThrowKeeps
<1> QED BY <1>1, <1>2, <1>3 DEF Need

\* The topmost frames are replaced.
LEMMA ReplaceKeeps ==
  ASSUME NEW k \in Machines, NEW i \in Nat, i <= Depth(k), NEW frames \in Seq(Frames)
  PROVE  Kept(k, Replace(k, i, frames))
<1>1. Below(k, i) \in Seq(Frames)
  BY StackTyped
<1> DEFINE s == Below(k, i) \o frames
<1>2. s \in Seq(Frames)
  BY <1>1
<1> DEFINE n == [k EXCEPT !.stack = s]
<1>3. Replace(k, i, frames) = [err |-> "none", k |-> n]
  BY DEF Replace, Done
<1> HIDE DEF s
<1>4. n \in Machines /\ n.pc = k.pc /\ n.cond = k.cond /\ n.sep = k.sep
  BY <1>2, WithStack
<1> HIDE DEF n
<1> QED BY <1>3, <1>4 DEF Kept

\* The instructions that only move frames leave some of those they need.
Fits(move) == \E n \in Nat : \E left \in Seq(1..n) : move = <<n, left>>

\* No instruction that moves frames reaches below those it asks for.
LEMMA MovesFit ==
  ASSUME NEW op \in DOMAIN Moves
  PROVE  Fits(Moves[op])
<1>1. /\ <<>> \in Seq(1..2) /\ <<1, 2, 1, 2>> \in Seq(1..2) /\ <<1, 2, 3, 1, 2, 3>> \in Seq(1..3)
      /\ <<1, 2, 3, 4, 1, 2>> \in Seq(1..4) /\ <<3, 4, 5, 6, 1, 2>> \in Seq(1..6)
      /\ <<3, 4, 1, 2>> \in Seq(1..4)
  OBVIOUS
<1>2. /\ <<>> \in Seq(1..1) /\ <<1, 1>> \in Seq(1..1) /\ <<2>> \in Seq(1..2)
      /\ <<1, 2, 1>> \in Seq(1..2) /\ <<2, 3, 1>> \in Seq(1..3) /\ <<2, 1>> \in Seq(1..2)
      /\ <<2, 1, 2>> \in Seq(1..2)
  OBVIOUS
<1>3. \A n \in Nat : \A left \in Seq(1..n) : Fits(<<n, left>>)
  BY DEF Fits
<1>4. /\ Fits(<<2, <<>>>>) /\ Fits(<<2, <<1, 2, 1, 2>>>>) /\ Fits(<<3, <<1, 2, 3, 1, 2, 3>>>>)
      /\ Fits(<<4, <<1, 2, 3, 4, 1, 2>>>>) /\ Fits(<<6, <<3, 4, 5, 6, 1, 2>>>>)
      /\ Fits(<<4, <<3, 4, 1, 2>>>>)
  BY <1>1, <1>3
<1>5. /\ Fits(<<1, <<>>>>) /\ Fits(<<1, <<1, 1>>>>) /\ Fits(<<2, <<2>>>>)
      /\ Fits(<<2, <<1, 2, 1>>>>) /\ Fits(<<3, <<2, 3, 1>>>>) /\ Fits(<<2, <<2, 1>>>>)
      /\ Fits(<<2, <<2, 1, 2>>>>)
  BY <1>2, <1>3
<1> QED BY <1>4, <1>5 DEF Moves

\* Instructions that move frames.
LEMMA MoveKeeps ==
  ASSUME NEW k \in Machines, NEW op \in DOMAIN Moves
  PROVE  Kept(k, Move(k, op))
<1>1. PICK n \in Nat : \E left \in Seq(1..n) : Moves[op] = <<n, left>>
  BY MovesFit DEF Fits
<1>2. PICK left \in Seq(1..n) : Moves[op] = <<n, left>>
  BY <1>1
<1> DEFINE frames == [i \in 1..Len(left) |-> Top(k, n + 1 - left[i])]
<1>3. Move(k, op) = Need(k, n, Replace(k, n, frames))
  BY <1>2 DEF Move
<1>4. ASSUME n <= Depth(k) PROVE frames \in Seq(Frames)
  <2>1. ASSUME NEW i \in 1..Len(left) PROVE Top(k, n + 1 - left[i]) \in Frames
    <3>1. n + 1 - left[i] \in Nat \ {0} /\ n + 1 - left[i] <= n
      OBVIOUS
    <3>2. n + 1 - left[i] <= Depth(k)
      BY <1>4, <3>1, MachineTyped
    <3> QED BY <3>1, <3>2, StackTyped
  <2>2. Len(left) \in Nat
    OBVIOUS
  <2> QED BY <2>1, <2>2
<1> HIDE DEF frames
<1>5. n <= Depth(k) => Kept(k, Replace(k, n, frames))
  BY <1>4, ReplaceKeeps
<1>6. Depth(k) >= n => n <= Depth(k)
  BY MachineTyped
<1> QED BY <1>3, <1>5, <1>6, NeedKeeps

\* The arithmetic instructions make a frame of the numbers they take.
LEMMA ArityTyped ==
  ASSUME NEW op \in DOMAIN Arity
  PROVE  \/ Arity[op] = 1 /\ op \in Unary
         \/ Arity[op] = 2 /\ op \in Binary
         \/ Arity[op] = 3
  BY DEF Arity

\* The results of arithmetic are frames.
LEMMA ValueFrames ==
  ASSUME NEW x \in Int, NEW y \in Int
  PROVE  /\ \A op \in Unary : Value1(op, x) \in Frames
         /\ \A op \in Binary : Value2(op, x, y) \in Frames
<1>0. \A n \in Int : Wrapped(n) \in Int
  <2>1. \A n, d \in Int : d > 0 => n % d \in Int
    OBVIOUS
  <2>2. MaxNumber \in Nat /\ 2 * (MaxNumber + 1) \in Int /\ 2 * (MaxNumber + 1) > 0
    BY InterpreterAssumption
  <2> QED BY <2>1, <2>2 DEF Wrapped, LeastNumber
<1>1. /\ \A n \in Int : Number(n) \in Frames
      /\ \A b \in BOOLEAN : Truth(b) \in Frames
  BY FramesTyped
<1>2. Abs(x) \in Int
  BY DEF Abs
<1>3. ASSUME NEW op \in Unary PROVE Value1(op, x) \in Frames
  <2>1. Wrapped(x + 1) \in Int /\ Wrapped(x - 1) \in Int
    BY <1>0
  <2>2. /\ Number(Wrapped(x + 1)) \in Frames /\ Number(Wrapped(x - 1)) \in Frames
        /\ Number(-x) \in Frames /\ Number(Abs(x)) \in Frames
        /\ Truth(x = 0) \in Frames /\ Truth(x # 0) \in Frames
    BY <1>1, <1>2, <2>1 DEF Truth
  <2> QED BY <2>2 DEF Value1, Unary
<1>4. ASSUME NEW op \in Binary PROVE Value2(op, x, y) \in Frames
  <2>1. /\ Number(Wrapped(x + y)) \in Frames /\ Number(Wrapped(x - y)) \in Frames
        /\ Number(IF x < y THEN x ELSE y) \in Frames /\ Number(IF x > y THEN x ELSE y) \in Frames
    BY <1>0, <1>1
  <2>2. /\ Truth(x # 0 /\ y # 0) \in Frames /\ Truth(x # 0 \/ y # 0) \in Frames
        /\ Truth(x = y) \in Frames /\ Truth(x # y) \in Frames /\ Truth(x < y) \in Frames
        /\ Truth(x > y) \in Frames /\ Truth(x <= y) \in Frames /\ Truth(x >= y) \in Frames
    BY <1>1 DEF Truth
  <2> QED BY <2>1, <2>2 DEF Value2, Binary
<1> QED BY <1>3, <1>4

\* Arithmetic of one, two and three operands.
LEMMA ArithmeticKeeps ==
  ASSUME NEW k \in Machines, NEW op \in DOMAIN Arity
  PROVE  Kept(k, Arithmetic(k, op))
<1> DEFINE a == Arity[op]
           x(i) == asNumber(Top(k, a + 1 - i))
           v == CASE a = 1 -> Value1(op, x(1))
                  [] a = 2 -> Value2(op, x(1), x(2))
                  [] a = 3 -> Truth(x(2) <= x(1) /\ x(1) < x(3))
           r == IF \E i \in 1..a : ~Convertible(Top(k, i), MaxNumSize)
                  THEN Throw(k, "CONVERTION_TO_NUMBER")
                ELSE IF op \in {"NEGATE", "ABS"} /\ x(1) = LeastNumber
                  THEN Throw(k, "NUMERIC_OPERATION")
                ELSE Replace(k, a, <<v>>)
<1>1. Arithmetic(k, op) = Need(k, a, r)
  BY DEF Arithmetic
<1>2. a \in 1..3
  BY ArityTyped
<1>3. ASSUME Depth(k) >= a PROVE <<v>> \in Seq(Frames)
  <2>1. \A i \in 1..a : x(i) \in Int
    <3> SUFFICES ASSUME NEW i \in 1..a PROVE asNumber(Top(k, a + 1 - i)) \in Int
      OBVIOUS
    <3>1. a + 1 - i \in Nat \ {0} /\ a + 1 - i <= Depth(k)
      BY <1>2, <1>3, MachineTyped
    <3> QED BY <3>1, StackTyped, FramesTyped
  <2> HIDE DEF x
  <2>2. CASE a = 1
    <3>1. op \in Unary /\ x(1) \in Int
      BY <2>1, <2>2, ArityTyped
    <3>2. v = Value1(op, x(1))
      BY <2>2
    <3>3. v \in Frames
      BY <3>1, <3>2, ValueFrames
    <3> HIDE DEF v
    <3> QED BY <3>3
  <2>3. CASE a = 2
    <3>1. op \in Binary /\ x(1) \in Int /\ x(2) \in Int
      BY <2>1, <2>3, ArityTyped
    <3>2. v = Value2(op, x(1), x(2))
      BY <2>3
    <3>3. v \in Frames
      BY <3>1, <3>2, ValueFrames
    <3> HIDE DEF v
    <3> QED BY <3>3
  <2>4. CASE a = 3
    <3>1. v = Truth(x(2) <= x(1) /\ x(1) < x(3))
      BY <2>4
    <3>2. v \in Frames
      BY <3>1, FramesTyped DEF Truth
    <3> HIDE DEF v
    <3> QED BY <3>2
  <2> HIDE DEF v
  <2> QED BY <1>2, <2>2, <2>3, <2>4
<1> HIDE DEF v
<1>4. Depth(k) >= a => Kept(k, r)
  <2> SUFFICES ASSUME Depth(k) >= a PROVE Kept(k, r)
    OBVIOUS
  <2>1. a \in Nat /\ a <= Depth(k) /\ <<v>> \in Seq(Frames)
    BY <1>2, <1>3, MachineTyped
  <2>2. Kept(k, Replace(k, a, <<v>>))
    BY <2>1, ReplaceKeeps
  <2> QED BY <2>2, ThrowKeeps
<1> HIDE DEF r
<1> QED BY <1>1, <1>2, <1>4, NeedKeeps


\* PICK and ROLL put a frame of the stack on its top; ROLL takes it from where it was.
LEMMA ReachKeeps ==
  ASSUME NEW k \in Machines, NEW op
  PROVE  Kept(k, Reach(k, op))
<1> DEFINE below == Below(k, 1)
           rest == [k EXCEPT !.stack = below]
           n == 1 + asNumber(Top(k, 1))
           d == Depth(rest) + 1 - n
           s == Append(IF op = "ROLL" THEN RemoveAt(below, d) ELSE below, below[d])
           moved == [rest EXCEPT !.stack = s]
           r == IF ~Convertible(Top(k, 1), MaxNumSize) THEN Throw(k, "CONVERTION_TO_NUMBER")
                ELSE IF n = 0 THEN Throw(k, "aborted")
                ELSE IF n < 0 \/ n > Depth(rest) THEN Throw(k, "INVALID_STACK_OPERATION")
                ELSE Done(moved)
<1>1. \A e : Kept(k, Throw(k, e))
  BY ThrowKeeps
<1>2. ASSUME Depth(k) >= 2
      PROVE  /\ below \in Seq(Frames) /\ rest \in Machines /\ rest.stack = below
             /\ rest.pc = k.pc /\ rest.cond = k.cond /\ rest.sep = k.sep /\ n \in Int
             /\ Depth(rest) = Len(below)
  <2>1. 1 \in Nat /\ 1 <= Depth(k)
    BY <1>2, MachineTyped
  <2>2. below \in Seq(Frames) /\ Top(k, 1) \in Frames
    BY <2>1, StackTyped
  <2>3. n \in Int
    BY <2>2, FramesTyped
  <2> HIDE DEF below, n
  <2>4. /\ rest \in Machines /\ rest.stack = below
        /\ rest.pc = k.pc /\ rest.cond = k.cond /\ rest.sep = k.sep
    BY <2>2, WithStack
  <2> QED BY <2>2, <2>3, <2>4 DEF Depth
<1>3. Reach(k, op) = Need(k, 2, r)
  <2>1. [rest EXCEPT !.stack = Append(IF op = "ROLL" THEN RemoveAt(@, d) ELSE @, @[d])] = moved
    BY DEF Machines
  <2> QED BY <2>1 DEF Reach
<1>4. ASSUME Depth(k) >= 2 PROVE Kept(k, r)
  <2> HIDE DEF rest, n, below
  <2>1. CASE ~(n < 0 \/ n > Depth(rest)) /\ n # 0
    <3>1. n \in 1..Depth(rest) /\ Depth(rest) = Len(below) /\ below \in Seq(Frames)
      BY <1>2, <1>4, <2>1
    <3>2. d \in 1..Len(below)
      BY <3>1
    <3> HIDE DEF d
    <3>3. below[d] \in Frames
      BY <3>1, <3>2
    <3>4. RemoveAt(below, d) \in Seq(Frames)
      <4>1. /\ SubSeq(below, 1, d - 1) \in Seq(Frames)
            /\ SubSeq(below, d + 1, Len(below)) \in Seq(Frames)
        BY <3>1, <3>2
      <4> QED BY <4>1 DEF RemoveAt
    <3>5. s \in Seq(Frames)
      BY <3>1, <3>3, <3>4
    <3> HIDE DEF s
    <3>6. moved \in Machines /\ moved.pc = k.pc /\ moved.cond = k.cond /\ moved.sep = k.sep
      BY <1>2, <1>4, <3>5, WithStack
    <3> HIDE DEF moved
    <3>7. Kept(k, Done(moved))
      BY <3>6 DEF Kept, Done
    <3> QED BY <1>1, <3>7
  <2>2. CASE n < 0 \/ n > Depth(rest) \/ n = 0
    BY <1>1, <2>2
  <2> QED BY <2>1, <2>2
<1> HIDE DEF r
<1> QED BY <1>3, <1>4, NeedKeeps

\* Instructions that look at the stack.
LEMMA InspectKeeps ==
  ASSUME NEW k \in Machines,
         NEW op \in {"IFDUP", "DEPTH", "SIZE", "EQUAL", "TOALTSTACK", "FROMALTSTACK"}
  PROVE  Kept(k, Inspect(k, op))
<1>1. CASE op = "IFDUP"
  <2>1. "DUP" \in DOMAIN Moves
    BY DEF Moves
  <2>2. Kept(k, Move(k, "DUP")) /\ Kept(k, Done(k))
    BY <2>1, MoveKeeps, ThrowKeeps
  <2> QED BY <1>1, <2>2, NeedKeeps DEF Inspect
<1>2. CASE op = "DEPTH"
  <2>1. <<Number(Depth(k))>> \in Seq(Frames) /\ 0 <= Depth(k)
    BY MachineTyped, FramesTyped
  <2>2. Kept(k, Replace(k, 0, <<Number(Depth(k))>>))
    BY <2>1, ReplaceKeeps
  <2> QED BY <1>2, <2>2 DEF Inspect
<1>3. CASE op = "SIZE"
  <2> DEFINE f == <<Data(asData(Top(k, 1))), Number(Len(asData(Top(k, 1))))>>
  <2>1. ASSUME Depth(k) >= 1 PROVE f \in Seq(Frames) /\ 1 <= Depth(k)
    <3>1. 1 <= Depth(k)
      BY <2>1, MachineTyped
    <3>2. asData(Top(k, 1)) \in Seq(Byte)
      BY <3>1, StackTyped, FramesTyped
    <3>3. Len(asData(Top(k, 1))) \in Int
      BY <3>2
    <3>4. Data(asData(Top(k, 1))) \in Frames /\ Number(Len(asData(Top(k, 1)))) \in Frames
      BY <3>2, <3>3, FramesTyped
    <3> QED BY <3>1, <3>4
  <2>2. Inspect(k, op) = Need(k, 1, Replace(k, 1, f))
    BY <1>3 DEF Inspect
  <2> HIDE DEF f
  <2> QED BY <2>1, <2>2, ReplaceKeeps, NeedKeeps
<1>4. CASE op = "EQUAL"
  <2> DEFINE f == <<Truth(asData(Top(k, 1)) = asData(Top(k, 2)))>>
  <2>1. f \in Seq(Frames)
    <3>1. Truth(asData(Top(k, 1)) = asData(Top(k, 2))) \in Frames
      BY FramesTyped, Zenon
    <3> QED BY <3>1
  <2>2. Inspect(k, op) = Need(k, 2, Replace(k, 2, f))
    BY <1>4 DEF Inspect
  <2> HIDE DEF f
  <2>3. Depth(k) >= 2 => Kept(k, Replace(k, 2, f))
    BY <2>1, ReplaceKeeps, MachineTyped
  <2> QED BY <2>2, <2>3, NeedKeeps
<1>5. CASE op = "TOALTSTACK"
  <2> DEFINE n == [k EXCEPT !.stack = Below(k, 1), !.alt = Append(@, Top(k, 1))]
  <2>1. ASSUME Depth(k) >= 1 PROVE Kept(k, Done(n))
    <3>1. 1 <= Depth(k)
      BY <2>1, MachineTyped
    <3>2. Below(k, 1) \in Seq(Frames) /\ Top(k, 1) \in Frames
      BY <3>1, StackTyped
    <3>3. Append(k.alt, Top(k, 1)) \in Seq(Frames)
      BY <3>2, MachineTyped
    <3>4. n \in Machines /\ n.pc = k.pc /\ n.cond = k.cond /\ n.sep = k.sep
      BY <3>2, <3>3 DEF Machines
    <3> HIDE DEF n
    <3> QED BY <3>4 DEF Kept, Done
  <2>2. Inspect(k, op) = Need(k, 1, Done(n))
    BY <1>5 DEF Inspect
  <2> HIDE DEF n
  <2> QED BY <2>1, <2>2, NeedKeeps
<1>6. CASE op = "FROMALTSTACK"
  <2> DEFINE n == [k EXCEPT !.stack = Append(@, Last(k.alt)), !.alt = Front(@)]
  <2>1. ASSUME k.alt # <<>> PROVE Kept(k, Done(n))
    <3>1. Last(k.alt) \in Frames /\ Front(k.alt) \in Seq(Frames)
      BY <2>1, MachineTyped DEF Last, Front
    <3>2. Append(k.stack, Last(k.alt)) \in Seq(Frames)
      BY <3>1, MachineTyped
    <3>3. n \in Machines /\ n.pc = k.pc /\ n.cond = k.cond /\ n.sep = k.sep
      BY <3>1, <3>2 DEF Machines
    <3> HIDE DEF n
    <3> QED BY <3>3 DEF Kept, Done
  <2>2. Inspect(k, op) = IF k.alt = <<>> THEN Throw(k, "INVALID_ALTSTACK_OPERATION") ELSE Done(n)
    BY <1>6 DEF Inspect
  <2> HIDE DEF n
  <2> QED BY <2>1, <2>2, ThrowKeeps
<1> QED BY <1>1, <1>2, <1>3, <1>4, <1>5, <1>6

\* The five hashes.
LEMMA HashKeeps ==
  ASSUME NEW k \in Machines, NEW op \in DOMAIN HashKinds
  PROVE  Kept(k, Hash(k, op))
<1> DEFINE d == asData(Top(k, 1))
<1>1. ASSUME Depth(k) >= 1 PROVE <<Data(Digest(op, d))>> \in Seq(Frames) /\ 1 <= Depth(k)
  <2>1. 1 <= Depth(k)
    BY <1>1, MachineTyped
  <2>2. d \in Seq(Byte)
    BY <2>1, StackTyped, FramesTyped
  <2> HIDE DEF d
  <2>3. set_vch(d) \in Int /\ HashKinds[op] \in Nat
    BY <2>2, set_vchTyped DEF HashKinds
  <2>4. Base \in Nat \ {0} /\ MaxNumSize + 1 \in Nat
    BY BaseFacts
  <2>5. \A i \in Int : i % Base \in Byte
    BY <2>4 DEF Byte
  <2>6. \A i \in 1..MaxNumSize + 1 : (i + HashKinds[op] + set_vch(d)) % Base \in Byte
    BY <2>3, <2>5
  <2>7. Digest(op, d) \in Seq(Byte)
    BY <2>4, <2>6 DEF Digest
  <2>8. Data(Digest(op, d)) \in Frames
    BY <2>7, FramesTyped
  <2> QED BY <2>1, <2>8
<1>2. Hash(k, op) = Need(k, 1, Replace(k, 1, <<Data(Digest(op, d))>>))
  BY DEF Hash
<1>3. Depth(k) >= 1 => Kept(k, Replace(k, 1, <<Data(Digest(op, d))>>))
  BY <1>1, ReplaceKeeps
<1> HIDE DEF d
<1> QED BY <1>2, <1>3, NeedKeeps


\* CHECKLOCKTIMEVERIFY and CHECKSEQUENCEVERIFY.
LEMMA CheckTimeKeeps ==
  ASSUME NEW k \in Machines, NEW op
  PROVE  Kept(k, CheckTime(k, op))
<1> DEFINE top == Data(asData(Top(k, 1)))
           n == asNumber(top)
           passes == IF op = "CHECKLOCKTIMEVERIFY" THEN CheckLockTime(n)
                     ELSE Disabled(n) \/ CheckSequence(n)
           r == IF ~Convertible(top, MaxNumSize + 1) THEN Throw(k, "CONVERTION_TO_NUMBER")
                ELSE IF n < 0 THEN Throw(k, "NEGATIVE_LOCKTIME")
                ELSE IF ~passes THEN Throw(k, "UNSATISFIED_LOCKTIME")
                ELSE Replace(k, 1, <<top>>)
<1>1. CheckTime(k, op) = IF op \notin flags THEN Done(k) ELSE Need(k, 1, r)
  BY DEF CheckTime
<1>2. ASSUME Depth(k) >= 1 PROVE Kept(k, Replace(k, 1, <<top>>))
  <2>1. 1 <= Depth(k)
    BY <1>2, MachineTyped
  <2>2. top \in Frames
    BY <2>1, StackTyped, FramesTyped
  <2> HIDE DEF top
  <2>3. <<top>> \in Seq(Frames)
    BY <2>2
  <2> QED BY <2>1, <2>3, ReplaceKeeps
<1> HIDE DEF top, n, passes
<1>3. Depth(k) >= 1 => Kept(k, r)
  BY <1>2, ThrowKeeps
<1> HIDE DEF r
<1> QED BY <1>1, <1>3, NeedKeeps, ThrowKeeps

\* CHECKSIG.
LEMMA CheckSigKeeps ==
  ASSUME NEW k \in Machines
  PROVE  Kept(k, CheckSig(k))
<1> DEFINE key == asData(Top(k, 1))
           sig == asData(Top(k, 2))
           valid == <<sig, key>> \in Accepted
           r == IF FindsSignature(k, {sig}) THEN Throw(k, "SIG_FINDANDDELETE")
                ELSE IF CheckEncoding(sig, key) # "none" THEN Throw(k, CheckEncoding(sig, key))
                ELSE IF ~valid /\ "NULLFAIL" \in flags /\ sig # <<>> THEN Throw(k, "SIG_NULLFAIL")
                ELSE Replace(k, 2, <<Truth(valid)>>)
<1>1. CheckSig(k) = Need(k, 2, r)
  BY DEF CheckSig
<1>2. Truth(valid) \in Frames
  BY FramesTyped DEF Truth
<1> HIDE DEF valid, key, sig
<1>3. <<Truth(valid)>> \in Seq(Frames)
  BY <1>2
<1>4. Depth(k) >= 2 => Kept(k, r)
  BY <1>3, ReplaceKeeps, ThrowKeeps, MachineTyped
<1> HIDE DEF r
<1> QED BY <1>1, <1>4, NeedKeeps

\* CHECKMULTISIG: what it takes off is on the stack.
LEMMA MultiSigKeeps ==
  ASSUME NEW k \in Machines
  PROVE  Kept(k, MultiSig(k))
<1> DEFINE Bad(i) == ~Convertible(Top(k, i), MaxNumSize)
           nk == asNumber(Top(k, 1))
           ns == asNumber(Top(k, nk + 2))
           keys == [i \in 1..nk |-> asData(Top(k, i + 1))]
           sigs == [i \in 1..ns |-> asData(Top(k, nk + 2 + i))]
           counted == [k EXCEPT !.ops = @ + nk + ns]
           dummy == nk + ns + 3
           verdict == Verdict(sigs, keys)
           push == <<Truth(verdict = "yes")>>
           r4 == IF "NULLDUMMY" \in flags /\ asData(Top(k, dummy)) # <<>>
                   THEN Throw(k, "SIG_NULLDUMMY") ELSE Replace(counted, dummy, push)
           r3 == IF FindsSignature(k, ToSet(sigs)) THEN Throw(k, "SIG_FINDANDDELETE")
                 ELSE IF verdict \notin {"yes", "no"} THEN Throw(k, verdict)
                 ELSE Need(k, dummy, r4)
           r2 == IF Depth(k) = nk + 1 THEN Throw(k, "aborted")
                 ELSE IF Bad(nk + 2) THEN Throw(k, "CONVERTION_TO_NUMBER")
                 ELSE IF ns \notin 0..nk THEN Throw(k, "SIG_COUNT")
                 ELSE IF counted.ops > MaxOps THEN Throw(k, "OP_COUNT")
                 ELSE Need(k, nk + ns + 2, r3)
           r1 == IF Bad(1) THEN Throw(k, "CONVERTION_TO_NUMBER")
                 ELSE IF nk \notin 0..MaxKeys THEN Throw(k, "PUBKEY_COUNT")
                 ELSE IF k.ops + nk > MaxOps THEN Throw(k, "OP_COUNT")
                 ELSE Need(k, nk + 1, r2)
<1>1. MultiSig(k) = Need(k, 1, r1)
  BY DEF MultiSig
<1>2. \A e : Kept(k, Throw(k, e))
  BY ThrowKeeps
<1>3. push \in Seq(Frames)
  <2>1. Truth(verdict = "yes") \in Frames
    BY FramesTyped, Zenon
  <2> HIDE DEF verdict
  <2> QED BY <2>1
<1> HIDE DEF push, verdict, sigs, keys, ns, nk, Bad
<1>4. ASSUME nk \in Nat, ns \in Nat, Depth(k) >= dummy PROVE Kept(k, r4)
  <2>1. /\ counted \in Machines /\ counted.pc = k.pc /\ counted.cond = k.cond
        /\ counted.sep = k.sep /\ counted.stack = k.stack
    <3>1. k.ops + nk + ns \in Nat
      BY <1>4, MachineTyped
    <3> QED BY <3>1 DEF Machines
  <2>2. dummy \in Nat /\ dummy <= Depth(k)
    BY <1>4, MachineTyped
  <2> HIDE DEF counted, dummy
  <2>3. Depth(counted) = Depth(k)
    BY <2>1 DEF Depth
  <2>4. Kept(counted, Replace(counted, dummy, push))
    BY <1>3, <2>1, <2>2, <2>3, ReplaceKeeps
  <2>5. Kept(k, Replace(counted, dummy, push))
    BY <2>1, <2>4 DEF Kept
  <2> QED BY <1>2, <2>5
<1> HIDE DEF r4
<1>5. ASSUME nk \in Nat, ns \in Nat PROVE Kept(k, r3)
  <2>1. dummy \in Int
    BY <1>5
  <2>2. Depth(k) >= dummy => Kept(k, r4)
    BY <1>4, <1>5
  <2> HIDE DEF dummy
  <2>3. Kept(k, Need(k, dummy, r4))
    BY <2>1, <2>2, NeedKeeps
  <2> QED BY <1>2, <2>3
<1> HIDE DEF r3, dummy, counted
<1>6. ASSUME nk \in Nat PROVE Kept(k, r2)
  <2>1. ASSUME ns \in 0..nk PROVE Kept(k, Need(k, nk + ns + 2, r3))
    <3>1. ns \in Nat /\ nk + ns + 2 \in Int
      BY <1>6, <2>1
    <3> QED BY <1>5, <1>6, <3>1, NeedKeeps
  <2> QED BY <1>2, <2>1
<1> HIDE DEF r2
<1>7. Kept(k, r1)
  <2>1. ASSUME nk \in 0..MaxKeys PROVE Kept(k, Need(k, nk + 1, r2))
    <3>1. nk \in Nat /\ nk + 1 \in Int
      BY <2>1, BaseFacts
    <3> QED BY <1>6, <3>1, NeedKeeps
  <2> QED BY <1>2, <2>1
<1> HIDE DEF r1
<1> QED BY <1>1, <1>7, NeedKeeps

\* A push of data.
LEMMA PushKeeps ==
  ASSUME NEW k \in Machines, NEW op, NEW d \in Seq(Byte)
  PROVE  Kept(k, Push(k, op, d))
<1>1. 0 \in Nat /\ 0 <= Depth(k)
  BY MachineTyped
<1>2. Kept(k, Replace(k, 0, <<Data(d)>>)) /\ Kept(k, Replace(k, 0, <<Number(set_vch(d))>>))
  <2>1. Data(d) \in Frames /\ Number(set_vch(d)) \in Frames
    BY FramesTyped, set_vchTyped
  <2>2. <<Data(d)>> \in Seq(Frames) /\ <<Number(set_vch(d))>> \in Seq(Frames)
    BY <2>1
  <2> QED BY <1>1, <2>2, ReplaceKeeps
<1>3. \A e : Kept(k, Throw(k, e))
  BY ThrowKeeps
<1>4. Kept(k, Pushed(k, d))
  BY <1>2, <1>3 DEF Pushed
<1> QED BY <1>2, <1>3, <1>4, Zenon DEF Push

\* The VERIFY of an instruction.
LEMMA VerifyKeeps ==
  ASSUME NEW k \in Machines, NEW r, NEW e, Kept(k, r)
  PROVE  Kept(k, Verify(r, e))
<1> DEFINE n == IF CastToBool(Top(r.k, 1)) THEN Move(r.k, "DROP") ELSE Throw(r.k, e)
<1>1. Verify(r, e) = IF r.err # "none" THEN r ELSE Need(r.k, 1, n)
  BY DEF Verify
<1>2. r.k \in Machines
  BY DEF Kept
<1>3. Kept(r.k, n)
  <2>1. "DROP" \in DOMAIN Moves
    BY DEF Moves
  <2> QED BY <1>2, <2>1, MoveKeeps, ThrowKeeps
<1> HIDE DEF n
<1>4. Kept(r.k, Need(r.k, 1, n))
  BY <1>2, <1>3, NeedKeeps
<1>5. Kept(k, Need(r.k, 1, n))
  BY <1>4 DEF Kept
<1> QED BY <1>1, <1>5

\* What is executed outside skipped branches.
LEMMA PlainKeeps ==
  ASSUME NEW k \in Machines, NEW op
  PROVE  Kept(k, Plain(k, op))
<1>1. \A e : Kept(k, Throw(k, e)) /\ Kept(k, Done(k))
  BY ThrowKeeps
<1>2. Kept(k, Done([k EXCEPT !.sep = k.pc]))
  <2> DEFINE n == [k EXCEPT !.sep = k.pc]
  <2>1. n \in Machines /\ n.pc = k.pc /\ n.cond = k.cond /\ n.sep = k.pc
    BY DEF Machines
  <2>2. Kept(k, Done(n))
    <3> HIDE DEF n
    <3> QED BY <2>1 DEF Kept, Done
  <2> QED BY <2>2
<1>3. op \in DOMAIN Moves => Kept(k, Move(k, op))
  BY MoveKeeps
<1>4. op \in DOMAIN Arity => Kept(k, Arithmetic(k, op))
  BY ArithmeticKeeps
<1>5. /\ Kept(k, Reach(k, op)) /\ Kept(k, CheckTime(k, op)) /\ Kept(k, CheckSig(k))
      /\ Kept(k, MultiSig(k))
  BY ReachKeeps, CheckTimeKeeps, CheckSigKeeps, MultiSigKeeps
<1>6. op \in {"IFDUP", "DEPTH", "SIZE", "EQUAL", "TOALTSTACK", "FROMALTSTACK"} =>
        Kept(k, Inspect(k, op))
  BY InspectKeeps
<1>7. op \in DOMAIN HashKinds => Kept(k, Hash(k, op))
  BY HashKeeps
<1> QED BY <1>1, <1>2, <1>3, <1>4, <1>5, <1>6, <1>7, Zenon DEF Plain

\* Any instruction, executed or skipped.
LEMMA PerformKeeps ==
  ASSUME NEW k \in Machines, NEW i \in Instructions
  PROVE  Kept(k, Perform(k, i))
<1>1. i.data \in Seq(Byte) /\ i.n \in Int
  BY DEF Instructions, Byte
<1>2. Kept(k, Replace(k, 0, <<Number(i.n)>>))
  <2>1. 0 <= Depth(k)
    BY MachineTyped
  <2>2. Number(i.n) \in Frames
    BY <1>1, FramesTyped
  <2>3. <<Number(i.n)>> \in Seq(Frames)
    BY <2>2
  <2> QED BY <2>1, <2>3, ReplaceKeeps
<1>3. \A op : Kept(k, Push(k, op, i.data))
  BY <1>1, PushKeeps
<1>4. \A op, e : Kept(k, Plain(k, op)) /\ Kept(k, Verify(Plain(k, op), e))
  BY PlainKeeps, VerifyKeeps
<1>5. Kept(k, Verify(Done(k), "VERIFY"))
  BY ThrowKeeps, VerifyKeeps
<1> QED BY <1>2, <1>3, <1>4, <1>5, Zenon DEF Perform


-----------------------------------------------------------------------------
\* How much deeper in conditionals an instruction goes.
Deeper(op) == IF op \in {"IF", "NOTIF"} THEN 1 ELSE IF op = "ENDIF" THEN -1 ELSE 0

\* A branch leaves the stacks alone when it is skipped, and is as deep as it says.
LEMMA BranchSteps ==
  ASSUME NEW k \in Machines, NEW op \in Conditionals
  PROVE  LET r == Branch(k, op)
         IN  /\ r.k \in Machines /\ r.k.pc = k.pc /\ r.k.sep = k.sep /\ r.k.alt = k.alt
             /\ ~mustExecuted(k) => r.k.stack = k.stack
             /\ r.err \in {"none", "UNBALANCED_CONDITIONAL", "MINIMALIF"}
             /\ r.err = "none" => Len(r.k.cond) = Len(k.cond) + Deeper(op)
<1> DEFINE Good(r) ==
             /\ r.k \in Machines /\ r.k.pc = k.pc /\ r.k.sep = k.sep /\ r.k.alt = k.alt
             /\ ~mustExecuted(k) => r.k.stack = k.stack
             /\ r.err \in {"none", "UNBALANCED_CONDITIONAL", "MINIMALIF"}
             /\ r.err = "none" => Len(r.k.cond) = Len(k.cond) + Deeper(op)
<1>1. k.cond \in Seq(BOOLEAN) /\ k.stack \in Seq(Frames) /\ Len(k.cond) \in Nat
  BY MachineTyped
<1>2. \A e \in {"UNBALANCED_CONDITIONAL", "MINIMALIF"} : Good(Throw(k, e))
  BY DEF Throw
<1>3. ASSUME NEW c \in Seq(BOOLEAN), Len(c) = Len(k.cond) + Deeper(op)
      PROVE  Good(Done([k EXCEPT !.cond = c]))
  <2> DEFINE n == [k EXCEPT !.cond = c]
  <2>1. /\ n \in Machines /\ n.pc = k.pc /\ n.sep = k.sep /\ n.alt = k.alt
        /\ n.stack = k.stack /\ n.cond = c
    BY DEF Machines
  <2>2. Good(Done(n))
    <3> HIDE DEF n
    <3> QED BY <1>3, <2>1 DEF Done
  <2> QED BY <2>2
<1>4. CASE op \in {"IF", "NOTIF"} /\ ~mustExecuted(k)
  <2>1. Branch(k, op) = Done([k EXCEPT !.cond = Append(k.cond, FALSE)])
    BY <1>4 DEF Branch
  <2>2. Append(k.cond, FALSE) \in Seq(BOOLEAN) /\ Len(Append(k.cond, FALSE)) = Len(k.cond) + 1
    BY <1>1
  <2> HIDE DEF Good
  <2>3. Good(Branch(k, op))
    BY <1>3, <1>4, <2>1, <2>2 DEF Deeper
  <2> QED BY <2>3 DEF Good
<1>5. CASE op \in {"IF", "NOTIF"} /\ mustExecuted(k)
  <2> DEFINE b == CastToBool(Top(k, 1)) = (op = "IF")
             n == [k EXCEPT !.stack = Below(k, 1), !.cond = Append(@, b)]
  <2>1. \/ Branch(k, op) = Throw(k, "UNBALANCED_CONDITIONAL")
        \/ Branch(k, op) = Throw(k, "MINIMALIF")
        \/ k.stack # <<>> /\ Branch(k, op) = Done(n)
    BY <1>5 DEF Branch
  <2>2. b \in BOOLEAN
    BY Zenon
  <2> HIDE DEF b
  <2>3. ASSUME k.stack # <<>> PROVE Good(Done(n))
    <3>1. Below(k, 1) \in Seq(Frames)
      BY <1>1, <2>3 DEF Below, Depth
    <3>2. Append(k.cond, b) \in Seq(BOOLEAN) /\ Len(Append(k.cond, b)) = Len(k.cond) + 1
      BY <1>1, <2>2
    <3>3. /\ n \in Machines /\ n.pc = k.pc /\ n.sep = k.sep /\ n.alt = k.alt
          /\ n.cond = Append(k.cond, b)
      BY <3>1, <3>2 DEF Machines
    <3> HIDE DEF n
    <3> QED BY <1>5, <3>2, <3>3 DEF Done, Deeper
  <2> HIDE DEF n, Good
  <2>4. Good(Branch(k, op))
    BY <1>2, <2>1, <2>3
  <2> QED BY <2>4 DEF Good
<1>6. CASE op \in {"ELSE", "ENDIF"} /\ k.cond = <<>>
  <2>1. Branch(k, op) = Throw(k, "UNBALANCED_CONDITIONAL")
    BY <1>6 DEF Branch
  <2> HIDE DEF Good
  <2>2. Good(Branch(k, op))
    BY <1>2, <2>1
  <2> QED BY <2>2 DEF Good
<1>7. CASE op = "ELSE" /\ k.cond # <<>>
  <2> DEFINE c == [k.cond EXCEPT ![Len(k.cond)] = ~@]
  <2>1. Branch(k, op) = Done([k EXCEPT !.cond = c])
    BY <1>7 DEF Branch, Machines
  <2>2. c \in Seq(BOOLEAN) /\ Len(c) = Len(k.cond)
    BY <1>1, <1>7
  <2> HIDE DEF Good, c
  <2>3. Good(Branch(k, op))
    BY <1>1, <1>3, <1>7, <2>1, <2>2 DEF Deeper
  <2> QED BY <2>3 DEF Good
<1>8. CASE op = "ENDIF" /\ k.cond # <<>>
  <2>1. Branch(k, op) = Done([k EXCEPT !.cond = Front(k.cond)])
    BY <1>8 DEF Branch
  <2>2. Front(k.cond) \in Seq(BOOLEAN) /\ Len(Front(k.cond)) = Len(k.cond) - 1
    BY <1>1, <1>8 DEF Front
  <2> HIDE DEF Good
  <2>3. Good(Branch(k, op))
    BY <1>1, <1>3, <1>8, <2>1, <2>2 DEF Deeper
  <2> QED BY <2>3 DEF Good
<1>9. CASE op \in {"VERIF", "VERNOTIF"}
  <2>1. Branch(k, op) = Done(k)
    BY <1>9 DEF Branch
  <2>2. Good(Done(k))
    <3>1. Deeper(op) = 0
      BY <1>9 DEF Deeper
    <3>2. Len(k.cond) = Len(k.cond) + Deeper(op)
      BY <1>1, <3>1
    <3>3. Done(k).k = k /\ Done(k).err = "none"
      BY DEF Done
    <3> QED BY <3>2, <3>3
  <2> HIDE DEF Good
  <2>3. Good(Branch(k, op))
    BY <2>1, <2>2
  <2> QED BY <2>3 DEF Good
<1> QED BY <1>4, <1>5, <1>6, <1>7, <1>8, <1>9 DEF Conditionals


\* The machine is one, and it is at a place of its script.
MachineFits ==
  /\ script \in Seq(Instructions) /\ m \in Machines
  /\ m.pc \in 1..Len(script) + 1 /\ m.sep \in 1..m.pc

\* What one turn of the loop does to the machine, whatever the instruction is.
LEMMA TurnSteps ==
  ASSUME MachineFits, Turn
  PROVE  /\ m.pc \in 1..Len(script) /\ m' \in Machines /\ m'.pc = m.pc + 1
         /\ m'.sep = m.sep \/ m'.sep = m'.pc
         /\ ~mustExecuted(m) => m'.stack = m.stack /\ m'.alt = m.alt /\ m'.sep = m.sep
         /\ outcome' \in {"running", "OK"} =>
              Len(m'.cond) = Len(m.cond) + Deeper(script[m.pc].op)
<1> DEFINE i == script[m.pc]
           k == [m EXCEPT !.pc = @ + 1, !.ops = IF i.op \in Uncounted THEN @ ELSE @ + 1]
           r == IF Refusal(i, k.ops) # "none" THEN Throw(k, Refusal(i, k.ops))
                ELSE IF i.op \in Conditionals THEN Branch(k, i.op)
                ELSE IF mustExecuted(k) THEN Perform(k, i)
                ELSE Done(k)
<1>1. m.pc \in 1..Len(script) /\ i \in Instructions
  BY DEF MachineFits, Turn
<1>2. /\ m' = r.k
      /\ outcome' \in {"running", "OK"} => r.err \in {"none", "running", "OK"}
  BY DEF Turn
<1>3. /\ k \in Machines /\ k.pc = m.pc + 1 /\ k.cond = m.cond /\ k.sep = m.sep
      /\ k.stack = m.stack /\ k.alt = m.alt
  <2>1. m \in Machines
    BY DEF MachineFits
  <2>2. m.pc + 1 \in Nat /\ (IF i.op \in Uncounted THEN m.ops ELSE m.ops + 1) \in Nat
    BY <2>1 DEF Machines
  <2> HIDE DEF i
  <2> QED BY <2>1, <2>2 DEF Machines
<1> HIDE DEF k
<1>4. mustExecuted(k) <=> mustExecuted(m)
  BY <1>3 DEF mustExecuted
<1> DEFINE Good ==
             /\ r.k \in Machines /\ r.k.pc = k.pc /\ (r.k.sep = k.sep \/ r.k.sep = k.pc)
             /\ ~mustExecuted(k) => r.k.stack = k.stack /\ r.k.alt = k.alt /\ r.k.sep = k.sep
             /\ r.err \in {"none", "running", "OK"} =>
                  Len(r.k.cond) = Len(k.cond) + Deeper(i.op)
<1>5. Good
  <2>1. CASE Refusal(i, k.ops) # "none"
    <3>1. r.k = k /\ r.err = Refusal(i, k.ops)
      BY <2>1 DEF Throw
    <3>2. Refusal(i, k.ops) \notin {"none", "running", "OK"}
      BY <2>1 DEF Refusal
    <3> HIDE DEF r, i
    <3> QED BY <1>3, <3>1, <3>2
  <2>2. CASE Refusal(i, k.ops) = "none" /\ i.op \in Conditionals
    <3>1. r = Branch(k, i.op)
      BY <2>2
    <3> HIDE DEF r, i
    <3> QED BY <1>3, <2>2, <3>1, BranchSteps
  <2>3. CASE Refusal(i, k.ops) = "none" /\ i.op \notin Conditionals /\ mustExecuted(k)
    <3>1. r = Perform(k, i)
      BY <2>3
    <3>2. Kept(k, r)
      BY <1>1, <1>3, <3>1, PerformKeeps
    <3> HIDE DEF r, i
    <3>3. Deeper(i.op) = 0 /\ Len(k.cond) \in Nat
      BY <1>3, <2>3, MachineTyped DEF Deeper, Conditionals
    <3>4. Len(k.cond) = Len(k.cond) + Deeper(i.op)
      BY <3>3
    <3> QED BY <2>3, <3>2, <3>4 DEF Kept
  <2>4. CASE Refusal(i, k.ops) = "none" /\ i.op \notin Conditionals /\ ~mustExecuted(k)
    <3>1. r.k = k
      BY <2>4 DEF Done
    <3> HIDE DEF r, i
    <3>2. Deeper(i.op) = 0 /\ Len(k.cond) \in Nat
      BY <1>3, <2>4, MachineTyped DEF Deeper, Conditionals
    <3>3. Len(k.cond) = Len(k.cond) + Deeper(i.op)
      BY <3>2
    <3> QED BY <1>3, <3>1, <3>3
  <2> HIDE DEF Good
  <2> QED BY <2>1, <2>2, <2>3, <2>4
<1> HIDE DEF r
<1>6. m' = r.k /\ Good
  BY <1>2, <1>5
<1>7. m' \in Machines /\ m'.pc = m.pc + 1 /\ (m'.sep = m.sep \/ m'.sep = m'.pc)
  BY <1>3, <1>6
<1>8. ~mustExecuted(m) => m'.stack = m.stack /\ m'.alt = m.alt /\ m'.sep = m.sep
  BY <1>3, <1>4, <1>6
<1>9. outcome' \in {"running", "OK"} => Len(m'.cond) = Len(m.cond) + Deeper(script[m.pc].op)
  BY <1>2, <1>3, <1>6
<1> QED BY <1>1, <1>7, <1>8, <1>9

\* A machine starts at the head of its script.
LEMMA InitFits == Init => MachineFits
<1> SUFFICES ASSUME Init PROVE MachineFits
  OBVIOUS
<1>1. script \in Seq(Instructions)
  BY InterpreterAssumption DEF Init
<1>2. m = [pc |-> 1, stack |-> <<>>, alt |-> <<>>, cond |-> <<>>, ops |-> 0, sep |-> 1]
  BY DEF Init
<1>3. <<>> \in Seq(Frames) /\ <<>> \in Seq(BOOLEAN)
  OBVIOUS
<1>4. m \in Machines
  BY <1>2, <1>3 DEF Machines
<1>5. m.pc = 1 /\ m.sep = 1 /\ Len(script) \in Nat
  BY <1>1, <1>2
<1> QED BY <1>1, <1>4, <1>5 DEF MachineFits

\* Every instruction goes one place on, or stops.
LEMMA StepFits == MachineFits /\ [Next]_vars => MachineFits'
<1> SUFFICES ASSUME MachineFits, [Next]_vars PROVE MachineFits'
  OBVIOUS
<1>1. CASE Turn
  <2>1. script' = script
    BY <1>1 DEF Turn
  <2>2. /\ m.pc \in 1..Len(script) /\ m' \in Machines /\ m'.pc = m.pc + 1
        /\ m'.sep = m.sep \/ m'.sep = m'.pc
    BY <1>1, TurnSteps
  <2>3. m.sep \in 1..m.pc /\ Len(script) \in Nat
    BY DEF MachineFits
  <2>4. m'.pc \in 1..Len(script) + 1 /\ m'.sep \in 1..m'.pc
    BY <2>2, <2>3
  <2> QED BY <2>1, <2>2, <2>4 DEF MachineFits
<1>2. CASE End
  BY <1>2 DEF End, MachineFits
<1>3. CASE UNCHANGED vars
  BY <1>3 DEF vars, MachineFits
<1> QED BY <1>1, <1>2, <1>3 DEF Next

\* The machine is one, and at a place of its script, in every reachable state.
THEOREM MachineAlwaysFits == Spec => []MachineFits
<1>1. Init => MachineFits
  BY InitFits
<1>2. MachineFits /\ [Next]_vars => MachineFits'
  BY StepFits
<1> QED BY <1>1, <1>2, PTL DEF Spec

\* The machine stays in one of its states, and its stacks hold frames, whatever the script
\* and the flags are: no instruction of execute() leaves anything else.
THEOREM TypeCorrect == Spec => []TypeOK
<1>1. MachineFits => TypeOK
  <2> SUFFICES ASSUME MachineFits PROVE TypeOK
    OBVIOUS
  <2>1. m.pc \in 1..Len(script) + 1 /\ m.sep \in 1..m.pc /\ m \in Machines
    BY DEF MachineFits
  <2>2. m.ops \in Nat /\ m.stack \in Seq(Frames) /\ m.alt \in Seq(Frames) /\ m.cond \in Seq(BOOLEAN)
    BY <2>1, MachineTyped
  <2>3. \A f \in ToSet(m.stack) \cup ToSet(m.alt) : f \in Frames
    BY <2>2 DEF ToSet
  <2>4. \A f \in Frames : f.number \in BOOLEAN /\ \A i \in DOMAIN f.data : f.data[i] \in 0..Base - 1
    <3> SUFFICES ASSUME NEW f \in Frames
                 PROVE  f.number \in BOOLEAN /\ \A i \in DOMAIN f.data : f.data[i] \in 0..Base - 1
      OBVIOUS
    <3>1. f.number \in BOOLEAN /\ f.data \in Seq(Byte)
      BY DEF Frames
    <3> DEFINE d == f.data
    <3>2. d \in Seq(Byte)
      BY <3>1
    <3> HIDE DEF d
    <3>3. \A i \in DOMAIN d : d[i] \in Byte
      BY <3>2
    <3> QED BY <3>1, <3>3 DEF d, Byte
  <2> QED BY <2>1, <2>2, <2>3, <2>4 DEF TypeOK
<1> QED BY <1>1, MachineAlwaysFits, PTL

\* Every number on a stack reads back as itself from the bytes it is asked for, in the
\* shortest form: what ScriptNum::serialize writes, set_vch reads; but for the least of 64
\* bits, which only wrapping sums and differences reach.
THEOREM NumbersAlwaysReadBack == Spec => []NumbersReadBack
<1>1. MachineFits => NumbersReadBack
  <2> SUFFICES ASSUME MachineFits, NEW f \in ToSet(m.stack) \cup ToSet(m.alt)
               PROVE  set_vch(serialize(f.n)) = f.n /\ Minimal(serialize(f.n))
    BY DEF NumbersReadBack
  <2>1. m.stack \in Seq(Frames) /\ m.alt \in Seq(Frames)
    BY MachineTyped DEF MachineFits
  <2>2. f \in Frames
    BY <2>1 DEF ToSet
  <2>3. f.n \in Int
    BY <2>2 DEF Frames
  <2> QED BY <2>3, NumbersSurvive
<1> QED BY <1>1, MachineAlwaysFits, PTL

\* Instructions that are skipped leave the stacks and the signed part of the script alone.
THEOREM SkippedAlwaysInert == Spec => SkippedIsInert
<1> DEFINE Inert == ~mustExecuted(m) => m'.stack = m.stack /\ m'.alt = m.alt /\ m'.sep = m.sep
<1>1. MachineFits /\ [Next]_vars => [Inert]_vars
  <2> SUFFICES ASSUME MachineFits, Next PROVE Inert
    OBVIOUS
  <2>1. CASE Turn
    BY <2>1, TurnSteps
  <2>2. CASE End
    BY <2>2 DEF End
  <2> QED BY <2>1, <2>2 DEF Next
<1> QED BY <1>1, MachineAlwaysFits, PTL DEF Spec, SkippedIsInert


\* The instructions of some kinds before a place of the script.
Marked(ops, p) == {q \in 1..p - 1 : script[q].op \in ops}

\* One more place of the script counts one more instruction, or none.
LEMMA OneMoreMarked ==
  ASSUME NEW ops, NEW p \in Nat, p > 0
  PROVE  /\ Cardinality(Marked(ops, p)) \in Nat /\ Cardinality(Marked(ops, p + 1)) \in Nat
         /\ script[p].op \in ops => Cardinality(Marked(ops, p + 1)) = Cardinality(Marked(ops, p)) + 1
         /\ script[p].op \notin ops => Cardinality(Marked(ops, p + 1)) = Cardinality(Marked(ops, p))
<1>1. IsFiniteSet(1..p - 1) /\ IsFiniteSet(1..p + 1 - 1)
  BY FS_Interval
<1>2. IsFiniteSet(Marked(ops, p)) /\ IsFiniteSet(Marked(ops, p + 1))
  <2>1. Marked(ops, p) \subseteq 1..p - 1 /\ Marked(ops, p + 1) \subseteq 1..p + 1 - 1
    BY DEF Marked
  <2> QED BY <1>1, <2>1, FS_Subset
<1>3. Cardinality(Marked(ops, p)) \in Nat /\ Cardinality(Marked(ops, p + 1)) \in Nat
  BY <1>2, FS_CardinalityType
<1>4. \A q : q \in 1..p + 1 - 1 <=> q \in 1..p - 1 \/ q = p
  OBVIOUS
<1>5. ASSUME script[p].op \in ops
      PROVE  Cardinality(Marked(ops, p + 1)) = Cardinality(Marked(ops, p)) + 1
  <2>1. Marked(ops, p + 1) = Marked(ops, p) \cup {p}
    BY <1>4, <1>5 DEF Marked
  <2>2. p \notin Marked(ops, p)
    BY DEF Marked
  <2> QED BY <1>2, <2>1, <2>2, FS_AddElement
<1>6. ASSUME script[p].op \notin ops
      PROVE  Marked(ops, p + 1) = Marked(ops, p)
  BY <1>4, <1>6 DEF Marked
<1> QED BY <1>3, <1>5, <1>6

\* While a script runs, there is a flag for every IF and NOTIF without its ENDIF in the text
\* before, the skipped ones included.
THEOREM DepthAlwaysFollows == Spec => []DepthFollowsScript
<1> DEFINE opened == Cardinality(Marked({"IF", "NOTIF"}, m.pc))
           closed == Cardinality(Marked({"ENDIF"}, m.pc))
           Level == outcome \in {"running", "OK"} => Len(m.cond) = opened - closed
<1>1. Init => Level
  <2> SUFFICES ASSUME Init PROVE Len(m.cond) = opened - closed
    OBVIOUS
  <2>1. m.pc = 1 /\ m.cond = <<>>
    BY DEF Init
  <2>2. \A ops : Marked(ops, 1) = {}
    BY DEF Marked
  <2>3. opened = 0 /\ closed = 0
    BY <2>1, <2>2, FS_EmptySet
  <2> HIDE DEF opened, closed
  <2> QED BY <2>1, <2>3
<1>2. MachineFits /\ Level /\ [Next]_vars => Level'
  <2> SUFFICES ASSUME MachineFits, Level, [Next]_vars PROVE Level'
    OBVIOUS
  <2>1. CASE Turn
    <3> DEFINE p == m.pc
               op == script[p].op
               D(q) == Cardinality(Marked({"IF", "NOTIF"}, q)) - Cardinality(Marked({"ENDIF"}, q))
    <3>1. p \in Nat /\ p > 0
      BY <2>1, TurnSteps DEF MachineFits
    <3>2. /\ m'.pc = p + 1 /\ script' = script /\ outcome = "running"
          /\ outcome' \in {"running", "OK"} => Len(m'.cond) = Len(m.cond) + Deeper(op)
      BY <2>1, TurnSteps DEF Turn
    <3>3. D(p + 1) = D(p) + Deeper(op)
      <4> DEFINE O(q) == Cardinality(Marked({"IF", "NOTIF"}, q))
                 C(q) == Cardinality(Marked({"ENDIF"}, q))
      <4> HIDE DEF p
      <4>1. /\ O(p) \in Nat /\ O(p + 1) \in Nat
            /\ op \in {"IF", "NOTIF"} => O(p + 1) = O(p) + 1
            /\ op \notin {"IF", "NOTIF"} => O(p + 1) = O(p)
        BY <3>1, OneMoreMarked
      <4>2. /\ C(p) \in Nat /\ C(p + 1) \in Nat
            /\ op \in {"ENDIF"} => C(p + 1) = C(p) + 1
            /\ op \notin {"ENDIF"} => C(p + 1) = C(p)
        BY <3>1, OneMoreMarked
      <4>3. D(p) = O(p) - C(p) /\ D(p + 1) = O(p + 1) - C(p + 1)
        OBVIOUS
      <4> HIDE DEF O, C, D, op
      <4>4. CASE op \in {"IF", "NOTIF"}
        <5>1. op \notin {"ENDIF"} /\ Deeper(op) = 1
          BY <4>4 DEF Deeper
        <5> QED BY <4>1, <4>2, <4>3, <4>4, <5>1
      <4>5. CASE op = "ENDIF"
        <5>1. op \notin {"IF", "NOTIF"} /\ op \in {"ENDIF"} /\ Deeper(op) = -1
          BY <4>5 DEF Deeper
        <5> QED BY <4>1, <4>2, <4>3, <5>1
      <4>6. CASE op \notin {"IF", "NOTIF", "ENDIF"}
        <5>1. op \notin {"IF", "NOTIF"} /\ op \notin {"ENDIF"} /\ Deeper(op) = 0
          BY <4>6 DEF Deeper
        <5> QED BY <4>1, <4>2, <4>3, <5>1
      <4> QED BY <4>4, <4>5, <4>6
    <3>4. Len(m.cond) = D(p)
      BY <3>2
    <3>5. Level' <=> (outcome' \in {"running", "OK"} => Len(m'.cond) = D(p + 1))
      BY <3>2 DEF Marked
    <3> HIDE DEF D, p, op, Level
    <3> QED BY <3>2, <3>3, <3>4, <3>5
  <2>2. CASE End
    <3>1. m' = m /\ script' = script /\ outcome = "running"
      BY <2>2 DEF End
    <3>2. opened' = opened /\ closed' = closed
      BY <3>1 DEF Marked
    <3>3. Len(m.cond) = opened - closed
      BY <3>1
    <3> HIDE DEF opened, closed
    <3> QED BY <3>1, <3>2, <3>3
  <2>3. CASE UNCHANGED vars
    <3>1. m' = m /\ script' = script /\ outcome' = outcome
      BY <2>3 DEF vars
    <3>2. opened' = opened /\ closed' = closed
      BY <3>1 DEF Marked
    <3> HIDE DEF opened, closed
    <3> QED BY <3>1, <3>2
  <2> QED BY <2>1, <2>2, <2>3 DEF Next
<1>3. Level => DepthFollowsScript
  BY DEF DepthFollowsScript, Marked
<1> HIDE DEF Level
<1> QED BY <1>1, <1>2, <1>3, MachineAlwaysFits, PTL DEF Spec


-----------------------------------------------------------------------------
\* The loop of CHECKMULTISIG, on its own: what it finds from a signature s and a key n on.
Pairs == Nat \X Nat

Loop(sigs, keys, g, s, n) ==
  IF s > Len(sigs) THEN "yes"
  ELSE IF Len(sigs) - s > Len(keys) - n THEN "no"
  ELSE IF CheckEncoding(sigs[s], keys[n]) # "none" THEN CheckEncoding(sigs[s], keys[n])
  ELSE g[<<IF <<sigs[s], keys[n]>> \in Accepted THEN s + 1 ELSE s, n + 1>>]

LoopFrom(sigs, keys) ==
  CHOOSE from : from =
    [p \in Nat \X Nat |->
        LET s == p[1]
            n == p[2]
        IN  IF s > Len(sigs) THEN "yes"
            ELSE IF Len(sigs) - s > Len(keys) - n THEN "no"
            ELSE IF CheckEncoding(sigs[s], keys[n]) # "none" THEN CheckEncoding(sigs[s], keys[n])
            ELSE from[<<IF <<sigs[s], keys[n]>> \in Accepted THEN s + 1 ELSE s, n + 1>>]]

\* The verdict on all signatures is the loop from the first of each.
LEMMA VerdictIsLoop ==
  ASSUME NEW sigs, NEW keys
  PROVE  Verdict(sigs, keys) = LoopFrom(sigs, keys)[<<1, 1>>]
BY Zenon DEF Verdict, LoopFrom

\* The errors of an encoding, and the verdicts of the loop.
Encodings == {"none", "SIG_DER", "aborted", "SIG_HASHTYPE", "PUBKEYTYPE", "WITNESS_PUBKEYTYPE"}
Verdicts == Encodings \cup {"yes", "no"}

\* The encoding of a signature and a key is good or has one of the errors.
LEMMA EncodingErrors ==
  ASSUME NEW sig, NEW key
  PROVE  CheckEncoding(sig, key) \in Encodings
<1>1. CheckSignatureEncoding(sig) \in Encodings
  BY DEF CheckSignatureEncoding, Encodings
<1>2. CheckPubKeyEncoding(key) \in Encodings
  BY DEF CheckPubKeyEncoding, Encodings
<1> QED BY <1>1, <1>2 DEF CheckEncoding

\* The greedy loop obeys its own equation.
LEMMA LoopEquation ==
  ASSUME NEW sigs, NEW keys, Len(sigs) \in Nat, Len(keys) \in Nat,
         NEW s \in Nat, NEW n \in Nat
  PROVE  LoopFrom(sigs, keys)[<<s, n>>] = Loop(sigs, keys, LoopFrom(sigs, keys), s, n)
<1> DEFINE F == [Pairs -> Verdicts]
           Step == [g \in F |-> [p \in Pairs |-> Loop(sigs, keys, g, p[1], p[2])]]
           size == [p \in Pairs |-> IF p[2] <= Len(keys) THEN Len(keys) + 1 - p[2] ELSE 0]
           onward(a, b) == <<IF <<sigs[a], keys[b]>> \in Accepted THEN a + 1 ELSE a, b + 1>>
<1>1. ASSUME NEW a \in Nat, NEW b \in Nat
      PROVE  /\ <<a, b>> \in Pairs /\ onward(a, b) \in Pairs
             /\ b <= Len(keys) => size[onward(a, b)] < size[<<a, b>>]
             /\ ~(a > Len(sigs)) /\ ~(Len(sigs) - a > Len(keys) - b) => b <= Len(keys)
  <2>1. <<a, b>> \in Pairs /\ onward(a, b) \in Pairs /\ onward(a, b)[2] = b + 1
    BY DEF Pairs
  <2> HIDE DEF onward
  <2>2. /\ size[onward(a, b)] = IF b + 1 <= Len(keys) THEN Len(keys) + 1 - (b + 1) ELSE 0
        /\ size[<<a, b>>] = IF b <= Len(keys) THEN Len(keys) + 1 - b ELSE 0
    BY <2>1
  <2> HIDE DEF size
  <2> QED BY <2>1, <2>2
<1>2. \A p \in Pairs : p[1] \in Nat /\ p[2] \in Nat /\ p = <<p[1], p[2]>>
  BY DEF Pairs
<1>3. size \in [Pairs -> Nat] /\ Verdicts # {}
  <2>1. "yes" \in Verdicts
    BY DEF Verdicts
  <2> QED BY <1>2, <2>1
<1>4. \A g \in F : Step[g] = [p \in Pairs |-> Loop(sigs, keys, g, p[1], p[2])]
  OBVIOUS
<1>5. ASSUME NEW g \in F, NEW a \in Nat, NEW b \in Nat
      PROVE  Loop(sigs, keys, g, a, b) \in Verdicts
  <2>1. g[onward(a, b)] \in Verdicts
    BY <1>1
  <2>2. CheckEncoding(sigs[a], keys[b]) \in Verdicts
    BY EncodingErrors DEF Verdicts
  <2>3. "yes" \in Verdicts /\ "no" \in Verdicts
    BY DEF Verdicts
  <2> QED BY <2>1, <2>2, <2>3 DEF Loop
<1>6. Step \in [F -> F]
  <2> SUFFICES ASSUME NEW g \in F PROVE [p \in Pairs |-> Loop(sigs, keys, g, p[1], p[2])] \in F
    OBVIOUS
  <2> QED BY <1>2, <1>5
<1>7. ASSUME NEW g \in F, NEW h \in F, NEW p \in Pairs,
             \A y \in Pairs : size[y] < size[p] => g[y] = h[y]
      PROVE  Step[g][p] = Step[h][p]
  <2> DEFINE a == p[1]
             b == p[2]
  <2>1. a \in Nat /\ b \in Nat /\ p = <<a, b>>
    BY <1>2
  <2>2. Step[g][p] = Loop(sigs, keys, g, a, b) /\ Step[h][p] = Loop(sigs, keys, h, a, b)
    BY <1>4
  <2> HIDE DEF a, b, size, Step
  <2>3. b <= Len(keys) => g[onward(a, b)] = h[onward(a, b)]
    BY <1>1, <1>7, <2>1
  <2>4. ~(a > Len(sigs)) /\ ~(Len(sigs) - a > Len(keys) - b) => b <= Len(keys)
    BY <1>1, <2>1
  <2> QED BY <2>2, <2>3, <2>4 DEF Loop
<1>8. Descends(Pairs, Verdicts, size, Step)
  <2> HIDE DEF size, Step
  <2> QED BY <1>3, <1>6, <1>7 DEF Descends
<1>9. PICK g \in F : Step[g] = g
  <2> HIDE DEF Step, size
  <2>1. Solvable(Pairs, Verdicts, Step)
    BY <1>8, RecursionHasSolution, Zenon
  <2> QED BY <2>1 DEF Solvable
<1>10. g = [p \in Pairs |-> Loop(sigs, keys, g, p[1], p[2])]
  BY <1>4, <1>9
<1> DEFINE Solves(from) == from =
    [p \in Nat \X Nat |->
        LET a == p[1]
            b == p[2]
        IN  IF a > Len(sigs) THEN "yes"
            ELSE IF Len(sigs) - a > Len(keys) - b THEN "no"
            ELSE IF CheckEncoding(sigs[a], keys[b]) # "none" THEN CheckEncoding(sigs[a], keys[b])
            ELSE from[<<IF <<sigs[a], keys[b]>> \in Accepted THEN a + 1 ELSE a, b + 1>>]]
<1>11. Solves(g)
  BY <1>10 DEF Loop, Pairs
<1>12. Solves(LoopFrom(sigs, keys))
  <2>1. LoopFrom(sigs, keys) = CHOOSE from : Solves(from)
    BY DEF LoopFrom
  <2> HIDE DEF Solves
  <2> QED BY <1>11, <2>1
<1> DEFINE f == LoopFrom(sigs, keys)
<1>13. f = [p \in Pairs |-> Loop(sigs, keys, f, p[1], p[2])]
  <2>1. Solves(f)
    BY <1>12
  <2> HIDE DEF f
  <2> QED BY <2>1 DEF Loop, Pairs
<1> HIDE DEF f
<1>14. f[<<s, n>>] = Loop(sigs, keys, f, s, n)
  <2>1. <<s, n>> \in Pairs /\ <<s, n>>[1] = s /\ <<s, n>>[2] = n
    BY DEF Pairs
  <2> QED BY <1>13, <2>1
<1> QED BY <1>14 DEF f


\* A choice of keys for the signatures from s on, among the keys from n on, in their order.
Assigns(sigs, keys, s, n, g) ==
  /\ g \in [s..Len(sigs) -> n..Len(keys)]
  /\ \A i, j \in s..Len(sigs) : i < j => g[i] < g[j]
  /\ \A i \in s..Len(sigs) : <<sigs[i], keys[g[i]]>> \in Accepted

\* Numbers that rise are as far from the first bound as their places are.
LEMMA RisesFast ==
  ASSUME NEW s \in Int, NEW l \in Int, NEW n \in Int, NEW g \in [s..l -> Int],
         \A i \in s..l : g[i] >= n,
         \A i, j \in s..l : i < j => g[i] < g[j],
         NEW i \in s..l
  PROVE  g[i] >= n + (i - s)
<1> DEFINE Bad == {d \in Nat : s + d \in s..l /\ ~(g[s + d] >= n + d)}
<1>1. Bad = {}
  <2> SUFFICES ASSUME Bad # {} PROVE FALSE
    OBVIOUS
  <2>1. PICK d \in Bad : \A e \in Bad : d <= e
    <3>1. Bad \subseteq Nat
      OBVIOUS
    <3> HIDE DEF Bad
    <3> QED BY <3>1, LeastNatural
  <2>2. d \in Nat /\ s + d \in s..l /\ g[s + d] \in Int /\ ~(g[s + d] >= n + d)
    BY <2>1
  <2>3. d # 0
    BY <2>2
  <2>4. d - 1 \in Nat /\ s + (d - 1) \in s..l /\ s + (d - 1) < s + d
    BY <2>2, <2>3
  <2>5. g[s + (d - 1)] >= n + (d - 1) /\ g[s + (d - 1)] \in Int
    <3> DEFINE e == d - 1
    <3>1. e \in Nat /\ s + e \in s..l /\ ~(d <= e)
      BY <2>2, <2>4
    <3>2. e \notin Bad
      <4> HIDE DEF Bad, e
      <4> QED BY <2>1, <3>1
    <3> HIDE DEF e
    <3>3. g[s + e] >= n + e /\ g[s + e] \in Int
      BY <3>1, <3>2
    <3> QED BY <3>3 DEF e
  <2>6. g[s + (d - 1)] < g[s + d]
    BY <2>2, <2>4
  <2> DEFINE x == g[s + (d - 1)]
             y == g[s + d]
  <2>7. x \in Int /\ y \in Int /\ x >= n + (d - 1) /\ x < y /\ ~(y >= n + d)
    BY <2>2, <2>5, <2>6
  <2> HIDE DEF x, y
  <2> QED BY <2>2, <2>7
<1>2. i - s \in Nat /\ s + (i - s) = i
  OBVIOUS
<1> QED BY <1>1, <1>2

\* What the loop finds from s and n on is right.
Decides(sigs, keys, s, n) ==
  LET v == LoopFrom(sigs, keys)[<<s, n>>]
  IN  /\ v # "none"
      /\ v = "yes" => \E g : Assigns(sigs, keys, s, n, g)
      /\ v = "no" => ~ \E g : Assigns(sigs, keys, s, n, g)

\* The choices of a signature that the next key does not accept, and of one it does.
LEMMA NextKey ==
  ASSUME NEW sigs, NEW keys, Len(sigs) \in Nat, Len(keys) \in Nat,
         NEW s \in Nat, NEW n \in Nat, s <= Len(sigs), n <= Len(keys)
  PROVE  /\ <<sigs[s], keys[n]>> \notin Accepted =>
              \A g : Assigns(sigs, keys, s, n, g) <=> Assigns(sigs, keys, s, n + 1, g)
         /\ <<sigs[s], keys[n]>> \in Accepted =>
              /\ \A g : Assigns(sigs, keys, s + 1, n + 1, g) =>
                          \E h : Assigns(sigs, keys, s, n, h)
              /\ \A g : Assigns(sigs, keys, s, n, g) =>
                          \E h : Assigns(sigs, keys, s + 1, n + 1, h)
<1> DEFINE ns == Len(sigs)
           nk == Len(keys)
<1>1. /\ ns \in Nat /\ nk \in Nat /\ s \in s..ns /\ n \in n..nk
      /\ \A i : i \in s..ns <=> i = s \/ i \in s + 1..ns
      /\ \A i \in s + 1..ns : s < i /\ i # s
      /\ \A x : x \in n + 1..nk => x \in n..nk
      /\ \A x : x \in n..nk /\ x # n => x \in n + 1..nk
      /\ \A x \in n + 1..nk : n < x
      /\ \A x, y \in n..nk : x < y => y # n
  OBVIOUS
<1> HIDE DEF ns, nk
<1>2. ASSUME <<sigs[s], keys[n]>> \notin Accepted, NEW g
      PROVE  Assigns(sigs, keys, s, n, g) <=> Assigns(sigs, keys, s, n + 1, g)
  <2>1. ASSUME Assigns(sigs, keys, s, n, g) PROVE Assigns(sigs, keys, s, n + 1, g)
    <3>1. /\ g \in [s..ns -> n..nk]
          /\ \A i, j \in s..ns : i < j => g[i] < g[j]
          /\ \A i \in s..ns : <<sigs[i], keys[g[i]]>> \in Accepted
      BY <2>1 DEF Assigns, ns, nk
    <3>2. g[s] # n
      BY <1>1, <1>2, <3>1
    <3>3. \A i \in s..ns : g[i] \in n + 1..nk
      <4> SUFFICES ASSUME NEW i \in s..ns PROVE g[i] \in n + 1..nk
        OBVIOUS
      <4>1. i = s \/ g[s] < g[i]
        BY <1>1, <3>1
      <4>2. g[i] # n
        BY <1>1, <3>1, <3>2, <4>1
      <4> QED BY <1>1, <3>1, <4>2
    <3>4. g \in [s..ns -> n + 1..nk]
      BY <3>1, <3>3
    <3> QED BY <3>1, <3>4 DEF Assigns, ns, nk
  <2>2. ASSUME Assigns(sigs, keys, s, n + 1, g) PROVE Assigns(sigs, keys, s, n, g)
    <3>1. /\ g \in [s..ns -> n + 1..nk]
          /\ \A i, j \in s..ns : i < j => g[i] < g[j]
          /\ \A i \in s..ns : <<sigs[i], keys[g[i]]>> \in Accepted
      BY <2>2 DEF Assigns, ns, nk
    <3>2. g \in [s..ns -> n..nk]
      BY <1>1, <3>1
    <3> QED BY <3>1, <3>2 DEF Assigns, ns, nk
  <2> QED BY <2>1, <2>2
<1>3. ASSUME <<sigs[s], keys[n]>> \in Accepted, NEW g, Assigns(sigs, keys, s + 1, n + 1, g)
      PROVE  \E h : Assigns(sigs, keys, s, n, h)
  <2> DEFINE h == [i \in s..ns |-> IF i = s THEN n ELSE g[i]]
  <2>1. /\ g \in [s + 1..ns -> n + 1..nk]
        /\ \A i, j \in s + 1..ns : i < j => g[i] < g[j]
        /\ \A i \in s + 1..ns : <<sigs[i], keys[g[i]]>> \in Accepted
    BY <1>3 DEF Assigns, ns, nk
  <2>2. h[s] = n /\ \A i \in s + 1..ns : h[i] = g[i]
    BY <1>1
  <2>3. h \in [s..ns -> n..nk]
    BY <1>1, <2>1
  <2> HIDE DEF h
  <2>4. \A i, j \in s..ns : i < j => h[i] < h[j]
    <3> SUFFICES ASSUME NEW i \in s..ns, NEW j \in s..ns, i < j PROVE h[i] < h[j]
      OBVIOUS
    <3>1. j \in s + 1..ns
      BY <1>1
    <3>2. CASE i = s
      BY <1>1, <2>1, <2>2, <3>1, <3>2
    <3>3. CASE i # s
      BY <1>1, <2>1, <2>2, <3>1, <3>3
    <3> QED BY <3>2, <3>3
  <2>5. \A i \in s..ns : <<sigs[i], keys[h[i]]>> \in Accepted
    BY <1>1, <1>3, <2>1, <2>2
  <2>6. Assigns(sigs, keys, s, n, h)
    BY <2>3, <2>4, <2>5 DEF Assigns, ns, nk
  <2> QED BY <2>6
<1>4. ASSUME NEW g, Assigns(sigs, keys, s, n, g)
      PROVE  \E h : Assigns(sigs, keys, s + 1, n + 1, h)
  <2> DEFINE h == [i \in s + 1..ns |-> g[i]]
  <2>1. /\ g \in [s..ns -> n..nk]
        /\ \A i, j \in s..ns : i < j => g[i] < g[j]
        /\ \A i \in s..ns : <<sigs[i], keys[g[i]]>> \in Accepted
    BY <1>4 DEF Assigns, ns, nk
  <2>2. \A i \in s + 1..ns : h[i] = g[i] /\ g[i] \in n + 1..nk
    <3> SUFFICES ASSUME NEW i \in s + 1..ns PROVE g[i] \in n + 1..nk
      OBVIOUS
    <3>1. i \in s..ns /\ g[s] < g[i]
      BY <1>1, <2>1
    <3>2. g[i] # n
      BY <1>1, <2>1, <3>1
    <3> QED BY <1>1, <2>1, <3>1, <3>2
  <2>3. h \in [s + 1..ns -> n + 1..nk]
    BY <2>2
  <2> HIDE DEF h
  <2>4. \A i, j \in s + 1..ns : i < j => h[i] < h[j]
    BY <1>1, <2>1, <2>2
  <2>5. \A i \in s + 1..ns : <<sigs[i], keys[h[i]]>> \in Accepted
    BY <1>1, <2>1, <2>2
  <2>6. Assigns(sigs, keys, s + 1, n + 1, h)
    <3>1. s + 1..Len(sigs) = s + 1..ns /\ n + 1..Len(keys) = n + 1..nk
      BY DEF ns, nk
    <3> QED BY <2>3, <2>4, <2>5, <3>1 DEF Assigns
  <2> QED BY <2>6
<1> QED BY <1>2, <1>3, <1>4


\* Step of the induction: the loop decides rightly at a key when it does at the next one.
LEMMA LoopStep ==
  ASSUME NEW sigs, NEW keys, Len(sigs) \in Nat, Len(keys) \in Nat,
         NEW s \in Nat, NEW n \in Nat,
         n <= Len(keys) => \A t \in Nat : Decides(sigs, keys, t, n + 1)
  PROVE  Decides(sigs, keys, s, n)
<1> DEFINE from == LoopFrom(sigs, keys)
           v == from[<<s, n>>]
           ns == Len(sigs)
           nk == Len(keys)
<1>1. v = Loop(sigs, keys, from, s, n) /\ ns \in Nat /\ nk \in Nat
  BY LoopEquation
<1> DEFINE Goal == /\ v # "none"
                   /\ v = "yes" => \E g : Assigns(sigs, keys, s, n, g)
                   /\ v = "no" => ~ \E g : Assigns(sigs, keys, s, n, g)
<1>2. CASE s > ns
  <2>1. v = "yes"
    BY <1>1, <1>2 DEF Loop
  <2> DEFINE none == [i \in s..ns |-> n]
  <2>2. s..ns = {}
    BY <1>1, <1>2
  <2>3. Assigns(sigs, keys, s, n, none)
    <3>1. none \in [s..ns -> n..nk]
      BY <2>2
    <3> QED BY <2>2, <3>1 DEF Assigns
  <2> HIDE DEF none, v
  <2>4. Goal
    BY <2>1, <2>3
  <2> QED BY <2>4 DEF Decides, v
<1>3. CASE ~(s > ns) /\ ns - s > nk - n
  <2>1. v = "no"
    BY <1>1, <1>3 DEF Loop
  <2>2. ASSUME NEW g, Assigns(sigs, keys, s, n, g) PROVE FALSE
    <3>1. /\ g \in [s..ns -> n..nk]
          /\ \A i, j \in s..ns : i < j => g[i] < g[j]
      BY <2>2 DEF Assigns
    <3> HIDE DEF ns, nk
    <3>2. g \in [s..ns -> Int] /\ (\A i \in s..ns : g[i] >= n) /\ ns \in s..ns
      BY <1>1, <1>3, <3>1
    <3>3. g[ns] >= n + (ns - s)
      <4>1. s \in Int /\ ns \in Int /\ n \in Int
        BY <1>1
      <4> QED BY ONLY <3>1, <3>2, <4>1, RisesFast
    <3>4. g[ns] \in n..nk
      BY <3>1, <3>2
    <3> QED BY <1>1, <1>3, <3>3, <3>4
  <2> HIDE DEF v
  <2>3. Goal
    BY <2>1, <2>2
  <2> QED BY <2>3 DEF Decides, v
<1>4. CASE /\ ~(s > ns) /\ ~(ns - s > nk - n)
           /\ CheckEncoding(sigs[s], keys[n]) # "none"
  <2>1. v = CheckEncoding(sigs[s], keys[n])
    BY <1>1, <1>4 DEF Loop
  <2>2. v \notin {"yes", "no", "none"}
    BY <1>4, <2>1, EncodingErrors DEF Encodings
  <2> HIDE DEF v
  <2>3. Goal
    BY <2>2
  <2> QED BY <2>3 DEF Decides, v
<1>5. CASE /\ ~(s > ns) /\ ~(ns - s > nk - n)
           /\ CheckEncoding(sigs[s], keys[n]) = "none"
  <2>1. s <= ns /\ n <= nk
    BY <1>1, <1>5
  <2>2. \A t \in Nat : Decides(sigs, keys, t, n + 1)
    BY <2>1
  <2>3. CASE <<sigs[s], keys[n]>> \in Accepted
    <3>1. v = from[<<s + 1, n + 1>>]
      BY <1>1, <1>5, <2>3 DEF Loop
    <3>2. Decides(sigs, keys, s + 1, n + 1)
      BY <2>2
    <3>3. /\ \A g : Assigns(sigs, keys, s + 1, n + 1, g) =>
                      \E h : Assigns(sigs, keys, s, n, h)
          /\ \A g : Assigns(sigs, keys, s, n, g) =>
                      \E h : Assigns(sigs, keys, s + 1, n + 1, h)
      BY <2>1, <2>3, NextKey
    <3>4. /\ v # "none"
          /\ v = "yes" => \E g : Assigns(sigs, keys, s + 1, n + 1, g)
          /\ v = "no" => ~ \E g : Assigns(sigs, keys, s + 1, n + 1, g)
      BY <3>1, <3>2 DEF Decides
    <3> HIDE DEF v
    <3>5. Goal
      BY <3>3, <3>4
    <3> QED BY <3>5 DEF Decides, v
  <2>4. CASE <<sigs[s], keys[n]>> \notin Accepted
    <3>1. v = from[<<s, n + 1>>]
      BY <1>1, <1>5, <2>4 DEF Loop
    <3>2. Decides(sigs, keys, s, n + 1)
      BY <2>2
    <3>3. \A g : Assigns(sigs, keys, s, n, g) <=> Assigns(sigs, keys, s, n + 1, g)
      BY <2>1, <2>4, NextKey
    <3>4. /\ v # "none"
          /\ v = "yes" => \E g : Assigns(sigs, keys, s, n + 1, g)
          /\ v = "no" => ~ \E g : Assigns(sigs, keys, s, n + 1, g)
      BY <3>1, <3>2 DEF Decides
    <3> HIDE DEF v
    <3>5. Goal
      BY <3>3, <3>4
    <3> QED BY <3>5 DEF Decides, v
  <2> QED BY <2>3, <2>4
<1> QED BY <1>2, <1>3, <1>4, <1>5

\* The greedy loop says yes exactly when there is a choice: by induction on the keys left.
LEMMA LoopIsRight ==
  ASSUME NEW sigs, NEW keys, Len(sigs) \in Nat, Len(keys) \in Nat,
         NEW s \in Nat, NEW n \in Nat
  PROVE  Decides(sigs, keys, s, n)
<1> DEFINE left(k) == IF k <= Len(keys) THEN Len(keys) + 1 - k ELSE 0
           Wrong(k) == \E t \in Nat : ~Decides(sigs, keys, t, k)
           Bad == {d \in Nat : \E k \in Nat : left(k) = d /\ Wrong(k)}
<1>1. Bad = {}
  <2> SUFFICES ASSUME Bad # {} PROVE FALSE
    OBVIOUS
  <2>1. PICK d \in Bad : \A e \in Bad : d <= e
    <3>1. Bad \subseteq Nat
      OBVIOUS
    <3> HIDE DEF Bad
    <3> QED BY <3>1, LeastNatural
  <2>2. PICK k \in Nat : left(k) = d /\ Wrong(k)
    BY <2>1
  <2>3. k <= Len(keys) => left(k + 1) \in Nat /\ left(k + 1) < d
    BY <2>2
  <2> HIDE DEF left, Wrong
  <2>4. k <= Len(keys) => ~Wrong(k + 1)
    <3> SUFFICES ASSUME k <= Len(keys), Wrong(k + 1) PROVE FALSE
      OBVIOUS
    <3>1. left(k + 1) \in Bad
      BY <2>3
    <3> HIDE DEF Bad
    <3>2. left(k + 1) \in Nat /\ left(k + 1) < d /\ d <= left(k + 1) /\ d \in Nat
      BY <2>1, <2>2, <2>3, <3>1 DEF Bad
    <3> QED BY <3>2
  <2>5. k <= Len(keys) => \A t \in Nat : Decides(sigs, keys, t, k + 1)
    BY <2>4 DEF Wrong
  <2>6. \A t \in Nat : Decides(sigs, keys, t, k)
    BY <2>5, LoopStep
  <2> QED BY <2>2, <2>6 DEF Wrong
<1>2. left(n) \in Nat
  OBVIOUS
<1> QED BY <1>1, <1>2

\* An instruction that did not throw found its frames.
LEMMA NeedPasses ==
  ASSUME NEW k, NEW i, NEW r, Need(k, i, r).err = "none"
  PROVE  Need(k, i, r) = r /\ ~(Depth(k) < i)
BY DEF Need, Throw

\* A CHECKMULTISIG that throws nothing leaves the verdict of the loop on the top.
LEMMA MultiSigLeaves ==
  ASSUME NEW k \in Machines, MultiSig(k).err = "none"
  PROVE  LET nk == asNumber(Top(k, 1))
             ns == asNumber(Top(k, nk + 2))
             keys == [i \in 1..nk |-> asData(Top(k, i + 1))]
             sigs == [i \in 1..ns |-> asData(Top(k, nk + 2 + i))]
         IN  /\ nk \in Nat /\ ns \in Nat
             /\ Len(keys) = nk /\ Len(sigs) = ns
             /\ LoopFrom(sigs, keys)[<<1, 1>>] \in {"yes", "no"}
             /\ Top(MultiSig(k).k, 1) = Truth(LoopFrom(sigs, keys)[<<1, 1>>] = "yes")
<1> DEFINE Bad(i) == ~Convertible(Top(k, i), MaxNumSize)
           nk == asNumber(Top(k, 1))
           ns == asNumber(Top(k, nk + 2))
           keys == [i \in 1..nk |-> asData(Top(k, i + 1))]
           sigs == [i \in 1..ns |-> asData(Top(k, nk + 2 + i))]
           counted == [k EXCEPT !.ops = @ + nk + ns]
           dummy == nk + ns + 3
           verdict == Verdict(sigs, keys)
           push == Truth(verdict = "yes")
           r4 == IF "NULLDUMMY" \in flags /\ asData(Top(k, dummy)) # <<>>
                   THEN Throw(k, "SIG_NULLDUMMY") ELSE Replace(counted, dummy, <<push>>)
           r3 == IF FindsSignature(k, ToSet(sigs)) THEN Throw(k, "SIG_FINDANDDELETE")
                 ELSE IF verdict \notin {"yes", "no"} THEN Throw(k, verdict)
                 ELSE Need(k, dummy, r4)
           r2 == IF Depth(k) = nk + 1 THEN Throw(k, "aborted")
                 ELSE IF Bad(nk + 2) THEN Throw(k, "CONVERTION_TO_NUMBER")
                 ELSE IF ns \notin 0..nk THEN Throw(k, "SIG_COUNT")
                 ELSE IF counted.ops > MaxOps THEN Throw(k, "OP_COUNT")
                 ELSE Need(k, nk + ns + 2, r3)
           r1 == IF Bad(1) THEN Throw(k, "CONVERTION_TO_NUMBER")
                 ELSE IF nk \notin 0..MaxKeys THEN Throw(k, "PUBKEY_COUNT")
                 ELSE IF k.ops + nk > MaxOps THEN Throw(k, "OP_COUNT")
                 ELSE Need(k, nk + 1, r2)
<1>1. MultiSig(k) = Need(k, 1, r1)
  BY DEF MultiSig
<1>2. \A e : Throw(k, e).err = e
  BY DEF Throw
<1> DEFINE Claim(v) == /\ nk \in Nat /\ ns \in Nat /\ Len(keys) = nk /\ Len(sigs) = ns
                       /\ v \in {"yes", "no"} /\ Top(MultiSig(k).k, 1) = Truth(v = "yes")
<1>3. verdict = LoopFrom(sigs, keys)[<<1, 1>>]
  BY VerdictIsLoop
<1>4. nk \in Nat => Len(keys) = nk
  <2> HIDE DEF nk
  <2> QED OBVIOUS
<1>5. ns \in Nat => Len(sigs) = ns
  <2> HIDE DEF ns, nk
  <2> QED OBVIOUS
<1>6. nk \in Nat /\ ns \in Nat => verdict # "none"
  <2> HIDE DEF nk, ns, sigs, keys, verdict
  <2>1. nk \in Nat /\ ns \in Nat => Decides(sigs, keys, 1, 1)
    BY <1>4, <1>5, LoopIsRight
  <2> QED BY <1>3, <2>1 DEF Decides
<1> HIDE DEF nk, ns, sigs, keys, verdict, Bad, push
<1>7. r1.err = "none" /\ MultiSig(k) = r1
  <2> HIDE DEF r1
  <2> QED BY <1>1, NeedPasses
<1>8. nk \in Nat /\ r2.err = "none" /\ r1 = r2
  <2> HIDE DEF r2
  <2>1. nk \in 0..MaxKeys /\ r1 = Need(k, nk + 1, r2)
    BY <1>2, <1>7
  <2> HIDE DEF r1
  <2> QED BY <1>7, <2>1, NeedPasses, BaseFacts
<1>9. ns \in Nat /\ r3.err = "none" /\ r2 = r3
  <2> HIDE DEF r3
  <2>1. ns \in 0..nk /\ r2 = Need(k, nk + ns + 2, r3)
    BY <1>2, <1>8
  <2> HIDE DEF r2
  <2> QED BY <1>8, <2>1, NeedPasses
<1>10. /\ verdict \in {"yes", "no"} /\ r4.err = "none" /\ r3 = r4
       /\ dummy \in Nat /\ dummy <= Depth(k)
  <2>1. dummy \in Nat
    BY <1>8, <1>9
  <2> HIDE DEF r4, dummy
  <2>2. verdict \in {"yes", "no"} /\ r3 = Need(k, dummy, r4)
    BY <1>2, <1>6, <1>8, <1>9
  <2> HIDE DEF r3
  <2> QED BY <1>9, <2>1, <2>2, NeedPasses, MachineTyped
<1>11. r4 = Replace(counted, dummy, <<push>>)
  BY <1>2, <1>10
<1>12. counted \in Machines /\ counted.stack = k.stack
  <2>1. k.ops + nk + ns \in Nat
    BY <1>8, <1>9, MachineTyped
  <2> QED BY <2>1 DEF Machines
<1>13. MultiSig(k) = Replace(counted, dummy, <<push>>)
  BY <1>7, <1>8, <1>9, <1>10, <1>11
<1> HIDE DEF counted, dummy, r1, r2, r3, r4
<1>14. Top(MultiSig(k).k, 1) = push
  <2> DEFINE b == Below(counted, dummy)
             s == b \o <<push>>
             n == [counted EXCEPT !.stack = s]
  <2>1. dummy <= Depth(counted)
    BY <1>10, <1>12 DEF Depth
  <2>2. b \in Seq(Frames) /\ push \in Frames
    <3>1. Truth(verdict = "yes") \in Frames
      BY FramesTyped, Zenon
    <3> QED BY <1>10, <1>12, <2>1, <3>1, StackTyped DEF push
  <2> HIDE DEF b
  <2>3. s \in Seq(Frames) /\ Len(s) = Len(b) + 1 /\ s[Len(b) + 1] = push /\ Len(b) \in Nat
    BY <2>2
  <2>4. MultiSig(k).k = n
    BY <1>13 DEF Replace, Done, b
  <2> HIDE DEF s
  <2>5. n.stack = s
    BY <1>12, <2>3, WithStack
  <2> HIDE DEF n
  <2> QED BY <2>3, <2>4, <2>5 DEF Top, Depth
<1>15. Claim(verdict)
  BY <1>4, <1>5, <1>8, <1>9, <1>10, <1>14 DEF push
<1>16. Claim(LoopFrom(sigs, keys)[<<1, 1>>])
  <2> HIDE DEF Claim
  <2> QED BY <1>3, <1>15
<1> QED BY <1>16 DEF nk, ns, sigs, keys

\* op_CheckMultiSig tries each signature once and each key once, in their order, and still
\* finds a way to give every signature a key of its own whenever there is one.
THEOREM MultiSigAlwaysMatches == Spec => []MultiSigIsMatching
<1>1. MachineFits => MultiSigIsMatching
  <2> SUFFICES ASSUME MachineFits, MultiSig(m).err = "none" PROVE MultiSigIsMatching
    BY DEF MultiSigIsMatching
  <2> DEFINE nk == asNumber(Top(m, 1))
             ns == asNumber(Top(m, nk + 2))
             keys == [i \in 1..nk |-> asData(Top(m, i + 1))]
             sigs == [i \in 1..ns |-> asData(Top(m, nk + 2 + i))]
             v == LoopFrom(sigs, keys)[<<1, 1>>]
             given(f, i) == <<asData(Top(m, nk + 2 + i)), asData(Top(m, f[i] + 1))>>
             Choice(f) == /\ \A i, j \in 1..ns : i < j => f[i] < f[j]
                          /\ \A i \in 1..ns : given(f, i) \in Accepted
  <2>1. m \in Machines
    BY DEF MachineFits
  <2>2. /\ nk \in Nat /\ ns \in Nat /\ Len(keys) = nk /\ Len(sigs) = ns
        /\ v \in {"yes", "no"} /\ Top(MultiSig(m).k, 1) = Truth(v = "yes")
    BY <2>1, MultiSigLeaves
  <2>3. \A f \in [1..ns -> 1..nk] : \A i \in 1..ns : given(f, i) = <<sigs[i], keys[f[i]]>>
    OBVIOUS
  <2> HIDE DEF nk, ns, keys, sigs, v
  <2>4. Decides(sigs, keys, 1, 1)
    BY <2>2, LoopIsRight
  <2>5. /\ v = "yes" => \E f : Assigns(sigs, keys, 1, 1, f)
        /\ v = "no" => ~ \E f : Assigns(sigs, keys, 1, 1, f)
    BY <2>4 DEF Decides, v
  <2>6. \A f : Assigns(sigs, keys, 1, 1, f) <=> f \in [1..ns -> 1..nk] /\ Choice(f)
    <3> HIDE DEF given
    <3> QED BY <2>2, <2>3 DEF Assigns
  <2> HIDE DEF Choice
  <2>7. v = "yes" <=> \E f \in [1..ns -> 1..nk] : Choice(f)
    BY <2>2, <2>5, <2>6
  <2>8. Truth(v = "yes") = Truth(TRUE) <=> v = "yes"
    <3>1. Number(0).n = 0 /\ Number(1).n = 1
      BY DEF Number
    <3>2. Truth(v = "yes") = Number(IF v = "yes" THEN 1 ELSE 0) /\ Truth(TRUE) = Number(1)
      BY DEF Truth
    <3>3. CASE v = "yes"
      <4>1. Truth(v = "yes") = Number(1)
        BY <3>2, <3>3
      <4> QED BY ONLY <3>2, <3>3, <4>1
    <3>4. CASE v # "yes"
      <4>1. Truth(v = "yes") = Number(0) /\ Number(0) # Number(1)
        BY <3>1, <3>2, <3>4
      <4> QED BY ONLY <3>2, <3>4, <4>1
    <3> QED BY <3>3, <3>4
  <2>9. (Top(MultiSig(m).k, 1) = Truth(TRUE)) = \E f \in [1..ns -> 1..nk] : Choice(f)
    BY <2>2, <2>7, <2>8
  <2> QED BY <2>9 DEF MultiSigIsMatching, Choice, nk, ns
<1> QED BY <1>1, MachineAlwaysFits, PTL

=============================================================================
