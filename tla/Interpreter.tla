---------------------------- MODULE Interpreter ----------------------------
(***************************************************************************)
(* src/src/script/Interpreter.cpp, the machine that executes scripts, with *)
(* its two stacks (Stack.hpp), their frames (StackFrame.hpp) and the       *)
(* numbers of variable length in them (ScriptNum.hpp).                     *)
(*                                                                         *)
(* A script is a sequence of instructions as GetOp() reads them.  Bytes    *)
(* are digits below Base, so that the codec of numbers is the code's own   *)
(* at a smaller width.  Digests and signatures are abstract: a set says    *)
(* which signatures the checker accepts for which keys.  What the stacks   *)
(* hold after a script has failed is not modelled.                         *)
(***************************************************************************)
EXTENDS Integers, Sequences, SequencesExt

CONSTANTS
  Base,          \* 2^8: a byte is a digit below Base
  MaxNumSize,    \* sizeof(outer_type): the bytes of an operand
  MaxNumber,     \* the largest value of inner_type: 2^63 - 1
  MaxN,          \* OP_16: the largest number with an opcode of its own
  PushLimits,    \* 0x4c, 0xff, 0xffff: the sizes that take a longer push
  MaxElement, MaxOps, MaxKeys, MaxSize, MaxStack,  \* the limits of Script.hpp
  DerSigs, TypedSigs,                \* signatures that are DER, with a known hash type
  CompressedKeys, UncompressedKeys,
  Accepted,      \* pairs of a signature and a key that the checker accepts
  Tx,            \* the transaction: lockTime, final, version, sequence
  LockThreshold, \* LOCKTIME_THRESHOLD
  Scripts,       \* the scripts that are run
  FlagSets       \* the sets of ScriptVerifyFlags they are run with

\* An instruction: its opcode, the data of a push, the number of OP_1NEGATE to OP_16.
Instructions == [op : STRING, data : Seq(0..Base - 1), n : Int]

ASSUME InterpreterAssumption ==
  /\ Base \in Nat \ {0} /\ Base % 2 = 0
  /\ MaxNumSize \in Nat /\ MaxKeys \in Nat /\ MaxNumber \in Nat
  /\ Scripts \subseteq Seq(Instructions)

VARIABLES
  script, flags,
  version,   \* SigVersion: "BASE" or "WITNESS_V0"
  m,         \* pc, stack, alt, cond, ops, sep of the Interpreter
  outcome    \* "running", "OK", the ScriptError, or "aborted" by an assertion

vars == <<script, flags, version, m, outcome>>

Sign == Base \div 2

-----------------------------------------------------------------------------
\* ScriptNum: sign and magnitude, least digit first, the sign in the top bit.
Digits[n \in Nat] == IF n = 0 THEN <<>> ELSE <<n % Base>> \o Digits[n \div Base]
Abs(n) == IF n < 0 THEN -n ELSE n

\* Mutant: the sign is added to the last digit, whatever that holds.
serialize_NoSignByte(n) ==
  LET d == Digits[Abs(n)]
  IN  IF n < 0 THEN [d EXCEPT ![Len(d)] = @ + Sign] ELSE d

serialize(n) ==
  LET d == Digits[Abs(n)]
  IN  IF n = 0 THEN <<>>
      ELSE IF Last(d) >= Sign THEN Append(d, IF n < 0 THEN Sign ELSE 0)
      ELSE IF n < 0 THEN [d EXCEPT ![Len(d)] = @ + Sign] ELSE d

set_vch(d) ==
  LET value[s \in Seq(0..Base - 1)] == IF s = <<>> THEN 0 ELSE Head(s) + Base * value[Tail(s)]
  IN  IF d = <<>> THEN 0
      ELSE IF Last(d) >= Sign THEN -value[[d EXCEPT ![Len(d)] = @ - Sign]] ELSE value[d]

Minimal(d) ==
  \/ d = <<>>
  \/ Last(d) % Sign # 0
  \/ Len(d) > 1 /\ d[Len(d) - 1] >= Sign

\* A frame holds a number or data, and is converted when it is asked for the other.
Number(n) == [number |-> TRUE, n |-> n, data |-> <<>>]
Data(d) == [number |-> FALSE, n |-> 0, data |-> d]
Truth(b) == Number(IF b THEN 1 ELSE 0)
asData(f) == IF f.number THEN serialize(f.n) ELSE f.data

Convertible(f, size) ==
  f.number \/ (Len(f.data) <= size /\ ("MINIMALDATA" \in flags => Minimal(f.data)))
asNumber(f) == IF f.number THEN f.n ELSE set_vch(f.data)

CastToBool(f) == IF f.number THEN f.n # 0 ELSE \E i \in DOMAIN f.data : f.data[i] # 0

-----------------------------------------------------------------------------
Init ==
  /\ script \in Scripts /\ flags \in FlagSets /\ version \in {"BASE", "WITNESS_V0"}
  /\ m = [pc |-> 1, stack |-> <<>>, alt |-> <<>>, cond |-> <<>>, ops |-> 0, sep |-> 1]
  /\ outcome = "running"

Depth(k) == Len(k.stack)
Top(k, i) == k.stack[Depth(k) + 1 - i]
Below(k, i) == SubSeq(k.stack, 1, Depth(k) - i)

\* What an instruction makes of a machine, or the error it throws.
Done(k) == [err |-> "none", k |-> k]
Throw(k, e) == [err |-> e, k |-> k]
Replace(k, i, frames) == Done([k EXCEPT !.stack = Below(k, i) \o frames])
Need(k, i, result) == IF Depth(k) < i THEN Throw(k, "INVALID_STACK_OPERATION") ELSE result

\* The instructions that only move frames: what they need and what they leave of it,
\* the deepest first.
Moves ==
  [op \in {"2DROP", "2DUP", "3DUP", "2OVER", "2ROT", "2SWAP", "DROP", "DUP", "NIP", "OVER",
           "ROT", "SWAP", "TUCK"} |->
     CASE op = "2DROP" -> <<2, <<>>>>                 [] op = "2DUP"  -> <<2, <<1, 2, 1, 2>>>>
       [] op = "3DUP"  -> <<3, <<1, 2, 3, 1, 2, 3>>>> [] op = "2OVER" -> <<4, <<1, 2, 3, 4, 1, 2>>>>
       [] op = "2ROT"  -> <<6, <<3, 4, 5, 6, 1, 2>>>> [] op = "2SWAP" -> <<4, <<3, 4, 1, 2>>>>
       [] op = "DROP"  -> <<1, <<>>>>                 [] op = "DUP"   -> <<1, <<1, 1>>>>
       [] op = "NIP"   -> <<2, <<2>>>>                [] op = "OVER"  -> <<2, <<1, 2, 1>>>>
       [] op = "ROT"   -> <<3, <<2, 3, 1>>>>          [] op = "SWAP"  -> <<2, <<2, 1>>>>
       [] op = "TUCK"  -> <<2, <<2, 1, 2>>>>]

Move(k, op) ==
  LET need == Moves[op][1]
      left == Moves[op][2]
  IN  Need(k, need, Replace(k, need, [i \in 1..Len(left) |-> Top(k, need + 1 - left[i])]))

\* The arithmetic ones: how many numbers they take, and what they push.
Unary == {"1ADD", "1SUB", "NEGATE", "ABS", "NOT", "0NOTEQUAL"}
Binary == {"ADD", "SUB", "BOOLAND", "BOOLOR", "NUMEQUAL", "NUMNOTEQUAL", "LESSTHAN",
           "GREATERTHAN", "LESSTHANOREQUAL", "GREATERTHANOREQUAL", "MIN", "MAX"}
Arity == [op \in Unary \cup Binary \cup {"WITHIN"} |->
            IF op \in Unary THEN 1 ELSE IF op \in Binary THEN 2 ELSE 3]

\* operator+ and operator- of ScriptNum: the int64_t that the builds make of a sum it
\* cannot hold.
LeastNumber == -(MaxNumber + 1)
Wrapped(n) == LeastNumber + ((n + MaxNumber + 1) % (2 * (MaxNumber + 1)))

Value1(op, x) ==
  CASE op = "1ADD" -> Number(Wrapped(x + 1)) [] op = "1SUB" -> Number(Wrapped(x - 1))
    [] op = "NEGATE" -> Number(-x)  [] op = "ABS" -> Number(Abs(x))
    [] op = "NOT" -> Truth(x = 0)   [] op = "0NOTEQUAL" -> Truth(x # 0)

Value2(op, x, y) ==
  CASE op = "ADD" -> Number(Wrapped(x + y)) [] op = "SUB" -> Number(Wrapped(x - y))
    [] op = "BOOLAND" -> Truth(x # 0 /\ y # 0) [] op = "BOOLOR" -> Truth(x # 0 \/ y # 0)
    [] op = "NUMEQUAL" -> Truth(x = y) [] op = "NUMNOTEQUAL" -> Truth(x # y)
    [] op = "LESSTHAN" -> Truth(x < y) [] op = "GREATERTHAN" -> Truth(x > y)
    [] op = "LESSTHANOREQUAL" -> Truth(x <= y)
    [] op = "GREATERTHANOREQUAL" -> Truth(x >= y)
    [] op = "MIN" -> Number(IF x < y THEN x ELSE y)
    [] op = "MAX" -> Number(IF x > y THEN x ELSE y)

Arithmetic(k, op) ==
  LET a == Arity[op]
      x(i) == asNumber(Top(k, a + 1 - i))
  IN  Need(k, a,
        IF \E i \in 1..a : ~Convertible(Top(k, i), MaxNumSize)
          THEN Throw(k, "CONVERTION_TO_NUMBER")
        ELSE IF op \in {"NEGATE", "ABS"} /\ x(1) = LeastNumber THEN Throw(k, "NUMERIC_OPERATION")
        ELSE Replace(k, a, <<CASE a = 1 -> Value1(op, x(1))
                               [] a = 2 -> Value2(op, x(1), x(2))
                               [] a = 3 -> Truth(x(2) <= x(1) /\ x(1) < x(3))>>))

\* op_Pick and op_Roll: the loop for n = -1 never meets zero and takes from an empty
\* stack, an assertion.
Reach(k, op) ==
  LET rest == [k EXCEPT !.stack = Below(k, 1)]
      n == 1 + asNumber(Top(k, 1))
      d == Depth(rest) + 1 - n
  IN  Need(k, 2,
        IF ~Convertible(Top(k, 1), MaxNumSize) THEN Throw(k, "CONVERTION_TO_NUMBER")
        ELSE IF n = 0 THEN Throw(k, "aborted")
        ELSE IF n < 0 \/ n > Depth(rest) THEN Throw(k, "INVALID_STACK_OPERATION")
        ELSE Done([rest EXCEPT !.stack = Append(IF op = "ROLL" THEN RemoveAt(@, d) ELSE @,
                                                @[d])]))

\* IFDUP, DEPTH, SIZE, EQUAL and the two that use the other stack.  SIZE leaves its
\* operand converted.
Inspect(k, op) ==
  CASE op = "IFDUP" ->
         Need(k, 1, IF CastToBool(Top(k, 1)) THEN Move(k, "DUP") ELSE Done(k))
    [] op = "DEPTH" -> Replace(k, 0, <<Number(Depth(k))>>)
    [] op = "SIZE" ->
         Need(k, 1, Replace(k, 1, <<Data(asData(Top(k, 1))), Number(Len(asData(Top(k, 1))))>>))
    [] op = "EQUAL" ->
         Need(k, 2, Replace(k, 2, <<Truth(asData(Top(k, 1)) = asData(Top(k, 2)))>>))
    [] op = "TOALTSTACK" ->
         Need(k, 1, Done([k EXCEPT !.stack = Below(k, 1), !.alt = Append(@, Top(k, 1))]))
    [] op = "FROMALTSTACK" ->
         IF k.alt = <<>> THEN Throw(k, "INVALID_ALTSTACK_OPERATION")
         ELSE Done([k EXCEPT !.stack = Append(@, Last(k.alt)), !.alt = Front(@)])

\* A digest is longer than any operand; which one it is does not matter.
HashKinds == [RIPEMD160 |-> 1, SHA1 |-> 2, SHA256 |-> 3, HASH160 |-> 4, HASH256 |-> 5]
Digest(op, d) == [i \in 1..MaxNumSize + 1 |-> (i + HashKinds[op] + set_vch(d)) % Base]
Hash(k, op) == Need(k, 1, Replace(k, 1, <<Data(Digest(op, asData(Top(k, 1))))>>))

-----------------------------------------------------------------------------
\* The checks of the transaction's times.  An operand has one byte more here.
CheckLockTime(n) ==
  /\ (Tx.lockTime < LockThreshold) = (n < LockThreshold)
  /\ n <= Tx.lockTime /\ ~Tx.final

\* Bits of a sequence: 8 disables it, 4 is its type, 1 its value; 2 means nothing.
Masked(n) == 4 * ((n \div 4) % 2) + (n % 2)
Disabled(n) == (n \div 8) % 2 = 1
CheckSequence(n) ==
  /\ Tx.version >= 2 /\ ~Disabled(Tx.sequence)
  /\ (Masked(Tx.sequence) < 4) = (Masked(n) < 4)
  /\ Masked(n) <= Masked(Tx.sequence)

CheckTime(k, op) ==
  LET top == Data(asData(Top(k, 1)))
      n == asNumber(top)
      passes == IF op = "CHECKLOCKTIMEVERIFY" THEN CheckLockTime(n)
                ELSE Disabled(n) \/ CheckSequence(n)
  IN  IF op \notin flags THEN Done(k)
      ELSE Need(k, 1,
             IF ~Convertible(top, MaxNumSize + 1) THEN Throw(k, "CONVERTION_TO_NUMBER")
             ELSE IF n < 0 THEN Throw(k, "NEGATIVE_LOCKTIME")
             ELSE IF ~passes THEN Throw(k, "UNSATISFIED_LOCKTIME")
             ELSE Replace(k, 1, <<top>>))

-----------------------------------------------------------------------------
\* Signatures.  What is wrong with the encoding of one, if anything.
CheckSignatureEncoding(sig) ==
  CASE sig = <<>> -> "none"
    [] sig # <<>> /\ flags \cap {"DERSIG", "LOW_S", "STRICTENC"} # {} /\ sig \notin DerSigs ->
         "SIG_DER"
    [] sig \in DerSigs /\ "LOW_S" \in flags -> "aborted"
    [] sig \in DerSigs \ TypedSigs /\ "LOW_S" \notin flags /\ "STRICTENC" \in flags -> "SIG_HASHTYPE"
    [] OTHER -> "none"

CheckPubKeyEncoding(key) ==
  CASE "STRICTENC" \in flags /\ key \notin CompressedKeys \cup UncompressedKeys -> "PUBKEYTYPE"
    [] "WITNESS_PUBKEYTYPE" \in flags /\ version = "WITNESS_V0" /\ key \notin CompressedKeys ->
         "WITNESS_PUBKEYTYPE"
    [] OTHER -> "none"

CheckEncoding(sig, key) ==
  IF CheckSignatureEncoding(sig) # "none" THEN CheckSignatureEncoding(sig)
  ELSE CheckPubKeyEncoding(key)

\* FindAndDelete in the part of the script that is signed: it does not find what the
\* script ends with.
FoundInCode(k, sig) ==
  \E i \in k.sep..Len(script) - 1 : script[i].op = "PUSH" /\ script[i].data = sig
FindsSignature(k, sigs) ==
  /\ version = "BASE" /\ "CONST_SCRIPTCODE" \in flags
  /\ \E sig \in sigs : FoundInCode(k, sig)

CheckSig(k) ==
  LET key == asData(Top(k, 1))
      sig == asData(Top(k, 2))
      valid == <<sig, key>> \in Accepted
  IN  Need(k, 2,
        IF FindsSignature(k, {sig}) THEN Throw(k, "SIG_FINDANDDELETE")
        ELSE IF CheckEncoding(sig, key) # "none" THEN Throw(k, CheckEncoding(sig, key))
        ELSE IF ~valid /\ "NULLFAIL" \in flags /\ sig # <<>> THEN Throw(k, "SIG_NULLFAIL")
        ELSE Replace(k, 2, <<Truth(valid)>>))

\* Mutant: a key that has accepted one signature is asked for the next one too.
Verdict_SameKey(sigs, keys) ==
  LET from[p \in Nat \X Nat] ==
        LET s == p[1]
            n == p[2]
        IN  IF s > Len(sigs) THEN "yes"
            ELSE IF Len(sigs) - s > Len(keys) - n THEN "no"
            ELSE IF CheckEncoding(sigs[s], keys[n]) # "none" THEN CheckEncoding(sigs[s], keys[n])
            ELSE from[IF <<sigs[s], keys[n]>> \in Accepted THEN <<s + 1, n>> ELSE <<s, n + 1>>]
  IN  from[<<1, 1>>]

\* The loop of CHECKMULTISIG: signatures and keys are tried in the order in which they
\* were taken, and it gives up when fewer keys than signatures are left.
Verdict(sigs, keys) ==
  LET from[p \in Nat \X Nat] ==
        LET s == p[1]
            n == p[2]
        IN  IF s > Len(sigs) THEN "yes"
            ELSE IF Len(sigs) - s > Len(keys) - n THEN "no"
            ELSE IF CheckEncoding(sigs[s], keys[n]) # "none" THEN CheckEncoding(sigs[s], keys[n])
            ELSE from[<<IF <<sigs[s], keys[n]>> \in Accepted THEN s + 1 ELSE s, n + 1>>]
  IN  from[<<1, 1>>]

\* It takes the number of signatures without a look at the stack: an assertion.
MultiSig(k) ==
  LET Bad(i) == ~Convertible(Top(k, i), MaxNumSize)
      nk == asNumber(Top(k, 1))
      ns == asNumber(Top(k, nk + 2))
      keys == [i \in 1..nk |-> asData(Top(k, i + 1))]
      sigs == [i \in 1..ns |-> asData(Top(k, nk + 2 + i))]
      counted == [k EXCEPT !.ops = @ + nk + ns]
      dummy == nk + ns + 3
  IN  Need(k, 1,
        IF Bad(1) THEN Throw(k, "CONVERTION_TO_NUMBER")
        ELSE IF nk \notin 0..MaxKeys THEN Throw(k, "PUBKEY_COUNT")
        ELSE IF k.ops + nk > MaxOps THEN Throw(k, "OP_COUNT")
        ELSE Need(k, nk + 1,
        IF Depth(k) = nk + 1 THEN Throw(k, "aborted")
        ELSE IF Bad(nk + 2) THEN Throw(k, "CONVERTION_TO_NUMBER")
        ELSE IF ns \notin 0..nk THEN Throw(k, "SIG_COUNT")
        ELSE IF counted.ops > MaxOps THEN Throw(k, "OP_COUNT")
        ELSE Need(k, nk + ns + 2,
        IF FindsSignature(k, ToSet(sigs)) THEN Throw(k, "SIG_FINDANDDELETE")
        ELSE IF Verdict(sigs, keys) \notin {"yes", "no"} THEN Throw(k, Verdict(sigs, keys))
        ELSE Need(k, dummy,
        IF "NULLDUMMY" \in flags /\ asData(Top(k, dummy)) # <<>> THEN Throw(k, "SIG_NULLDUMMY")
        ELSE Replace(counted, dummy, <<Truth(Verdict(sigs, keys) = "yes")>>)))))

-----------------------------------------------------------------------------
\* A frame of what a push instruction carries: up to MaxNumSize bytes become a number,
\* and lose the form they had.
Pushed(k, d) ==
  IF Len(d) > MaxNumSize THEN Replace(k, 0, <<Data(d)>>)
  ELSE IF ~Convertible(Data(d), MaxNumSize) THEN Throw(k, "CONVERTION_TO_NUMBER")
  ELSE Replace(k, 0, <<Number(set_vch(d))>>)

\* The single bytes that have an opcode of their own: 1 to 16, and 0x81.
Small(d) == Len(d) = 1 /\ (d[1] \in 1..MaxN \/ d[1] = Sign + 1)

Push(k, op, d) ==
  LET minimal ==
        CASE op = "PUSH" -> ~Small(d)
          [] op = "PUSHDATA1" -> d # <<>> /\ ~Small(d) /\ (Len(d) = 1 \/ Len(d) >= PushLimits[1])
          [] op = "PUSHDATA2" -> Len(d) > PushLimits[2]
          [] op = "PUSHDATA4" -> Len(d) > PushLimits[3]
  IN  IF "MINIMALDATA" \in flags /\ ~minimal THEN Throw(k, "MINIMALDATA")
      ELSE IF op \in {"PUSH", "PUSHDATA1"} THEN Pushed(k, d)
      ELSE Replace(k, 0, <<Data(d)>>)

\* op_Verify, with the error of the instruction it ends.
Verify(r, e) ==
  IF r.err # "none" THEN r
  ELSE Need(r.k, 1, IF CastToBool(Top(r.k, 1)) THEN Move(r.k, "DROP") ELSE Throw(r.k, e))

Plain(k, op) ==
  CASE op \in DOMAIN Moves -> Move(k, op)
    [] op \in DOMAIN Arity -> Arithmetic(k, op)
    [] op \in {"PICK", "ROLL"} -> Reach(k, op)
    [] op \in {"IFDUP", "DEPTH", "SIZE", "EQUAL", "TOALTSTACK", "FROMALTSTACK"} -> Inspect(k, op)
    [] op \in DOMAIN HashKinds -> Hash(k, op)
    [] op \in {"CHECKLOCKTIMEVERIFY", "CHECKSEQUENCEVERIFY"} -> CheckTime(k, op)
    [] op = "CHECKSIG" -> CheckSig(k)
    [] op = "CHECKMULTISIG" -> MultiSig(k)
    [] op = "NOP" -> Done(k)
    [] op = "NOP1" ->
         IF "DISCOURAGE_UPGRADABLE_NOPS" \in flags THEN Throw(k, "DISCOURAGE_UPGRADABLE_NOPS")
         ELSE Done(k)
    [] op = "RETURN" -> Throw(k, "OP_RETURN")
    [] op = "CODESEPARATOR" ->
         IF version = "BASE" /\ "CONST_SCRIPTCODE" \in flags THEN Throw(k, "OP_CODESEPARATOR")
         ELSE Done([k EXCEPT !.sep = k.pc])
    [] OTHER -> Throw(k, "BAD_OPCODE")

Perform(k, i) ==
  CASE i.op \in {"PUSH", "PUSHDATA1", "PUSHDATA2", "PUSHDATA4"} -> Push(k, i.op, i.data)
    [] i.op = "N" -> Replace(k, 0, <<Number(i.n)>>)
    [] i.op = "VERIFY" -> Verify(Done(k), "VERIFY")
    [] i.op = "EQUALVERIFY" -> Verify(Plain(k, "EQUAL"), "EQUALVERIFY")
    [] i.op = "NUMEQUALVERIFY" -> Verify(Plain(k, "NUMEQUAL"), "NUMEQUALVERIFY")
    [] i.op = "CHECKSIGVERIFY" -> Verify(Plain(k, "CHECKSIG"), "CHECKSIGVERIFY")
    [] i.op = "CHECKMULTISIGVERIFY" -> Verify(Plain(k, "CHECKMULTISIG"), "CHECKMULTISIGVERIFY")
    [] OTHER -> Plain(k, i.op)

-----------------------------------------------------------------------------
Conditionals == {"IF", "NOTIF", "VERIF", "VERNOTIF", "ELSE", "ENDIF"}
Uncounted == {"PUSH", "PUSHDATA1", "PUSHDATA2", "PUSHDATA4", "N", "RESERVED"}
mustExecuted(k) == \A c \in DOMAIN k.cond : k.cond[c]

MinimalIf(f) == IF f.number THEN f.n < Base ELSE f.data \in {<<>>, <<1>>}

\* Mutant: an IF that is not executed opens no branch.
Branch_Flat(k, op) ==
  CASE op \in {"IF", "NOTIF"} /\ ~mustExecuted(k) -> Done(k)
    [] op \in {"IF", "NOTIF"} /\ mustExecuted(k) ->
         IF k.stack = <<>> THEN Throw(k, "UNBALANCED_CONDITIONAL")
         ELSE Done([k EXCEPT !.stack = Below(k, 1),
                             !.cond = Append(@, CastToBool(Top(k, 1)) = (op = "IF"))])
    [] op \in {"ELSE", "ENDIF"} /\ k.cond = <<>> -> Throw(k, "UNBALANCED_CONDITIONAL")
    [] op = "ELSE" /\ k.cond # <<>> -> Done([k EXCEPT !.cond[Len(k.cond)] = ~@])
    [] op = "ENDIF" /\ k.cond # <<>> -> Done([k EXCEPT !.cond = Front(@)])
    [] op \in {"VERIF", "VERNOTIF"} -> Done(k)

\* Mutant: an IF that is not executed takes its operand.
Branch_Takes(k, op) ==
  CASE op \in {"IF", "NOTIF"} ->
         IF k.stack = <<>> THEN Throw(k, "UNBALANCED_CONDITIONAL")
         ELSE Done([k EXCEPT !.stack = Below(k, 1),
                             !.cond = Append(@, mustExecuted(k)
                                                  /\ CastToBool(Top(k, 1)) = (op = "IF"))])
    [] op \in {"ELSE", "ENDIF"} /\ k.cond = <<>> -> Throw(k, "UNBALANCED_CONDITIONAL")
    [] op = "ELSE" /\ k.cond # <<>> -> Done([k EXCEPT !.cond[Len(k.cond)] = ~@])
    [] op = "ENDIF" /\ k.cond # <<>> -> Done([k EXCEPT !.cond = Front(@)])
    [] op \in {"VERIF", "VERNOTIF"} -> Done(k)

\* The instructions between IF and ENDIF; VERIF and VERNOTIF are among them and do
\* nothing.
Branch(k, op) ==
  CASE op \in {"IF", "NOTIF"} /\ ~mustExecuted(k) -> Done([k EXCEPT !.cond = Append(@, FALSE)])
    [] op \in {"IF", "NOTIF"} /\ mustExecuted(k) ->
         IF k.stack = <<>> THEN Throw(k, "UNBALANCED_CONDITIONAL")
         ELSE IF version = "WITNESS_V0" /\ "MINIMALIF" \in flags /\ ~MinimalIf(Top(k, 1))
           THEN Throw(k, "MINIMALIF")
         ELSE Done([k EXCEPT !.stack = Below(k, 1),
                             !.cond = Append(@, CastToBool(Top(k, 1)) = (op = "IF"))])
    [] op \in {"ELSE", "ENDIF"} /\ k.cond = <<>> -> Throw(k, "UNBALANCED_CONDITIONAL")
    [] op = "ELSE" /\ k.cond # <<>> -> Done([k EXCEPT !.cond[Len(k.cond)] = ~@])
    [] op = "ENDIF" /\ k.cond # <<>> -> Done([k EXCEPT !.cond = Front(@)])
    [] op \in {"VERIF", "VERNOTIF"} -> Done(k)

Bytes(i) ==
  CASE i.op = "PUSH" -> 1 + Len(i.data) [] i.op = "PUSHDATA1" -> 2 + Len(i.data)
    [] i.op = "PUSHDATA2" -> 3 + Len(i.data) [] i.op = "PUSHDATA4" -> 5 + Len(i.data)
    [] OTHER -> 1
Size == FoldSeq(LAMBDA i, n : n + Bytes(i), 0, script)

\* What is thrown before an instruction is looked at.  "CUT" is a push whose data the
\* script ends within.
Refusal(i, ops) ==
  CASE i.op = "CUT" -> "BAD_OPCODE"
    [] i.op # "CUT" /\ Len(i.data) > MaxElement -> "PUSH_SIZE"
    [] Len(i.data) <= MaxElement /\ ops > MaxOps -> "OP_COUNT"
    [] OTHER -> "none"

\* One turn of the loop.  A short push goes on with the next one at once, past the
\* check of the stack.
Turn ==
  LET i == script[m.pc]
      k == [m EXCEPT !.pc = @ + 1, !.ops = IF i.op \in Uncounted THEN @ ELSE @ + 1]
      r == IF Refusal(i, k.ops) # "none" THEN Throw(k, Refusal(i, k.ops))
           ELSE IF i.op \in Conditionals THEN Branch(k, i.op)
           ELSE IF mustExecuted(k) THEN Perform(k, i)
           ELSE Done(k)
      checked == ~(i.op = "PUSH" /\ mustExecuted(k))
  IN  /\ outcome = "running" /\ Size <= MaxSize /\ m.pc <= Len(script)
      /\ m' = r.k
      /\ outcome' = CASE r.err # "none" -> r.err
                      [] r.err = "none" /\ checked /\ Len(r.k.stack) + Len(r.k.alt) > MaxStack ->
                           "STACK_SIZE"
                      [] OTHER -> "running"
      /\ UNCHANGED <<script, flags, version>>

End ==
  /\ outcome = "running"
  /\ \/ Size > MaxSize /\ outcome' = "SCRIPT_SIZE"
     \/ /\ Size <= MaxSize /\ m.pc > Len(script)
        /\ outcome' = IF m.cond # <<>> THEN "UNBALANCED_CONDITIONAL" ELSE "OK"
  /\ UNCHANGED <<script, flags, version, m>>

Next == Turn \/ End

Spec == Init /\ [][Next]_vars

-----------------------------------------------------------------------------
\* The machine is in one of its states, and its stacks hold frames.
TypeOK ==
  /\ m.pc \in 1..Len(script) + 1 /\ m.sep \in 1..m.pc /\ m.ops \in Nat
  /\ \A c \in DOMAIN m.cond : m.cond[c] \in BOOLEAN
  /\ \A f \in ToSet(m.stack) \cup ToSet(m.alt) :
       f.number \in BOOLEAN /\ \A i \in DOMAIN f.data : f.data[i] \in 0..Base - 1

\* A script that runs is as deep in conditionals as its text is at that place, skipped
\* branches included: execute() pushes a flag for an IF it skips.
DepthFollowsScript ==
  LET count(ops) == Cardinality({p \in 1..m.pc - 1 : script[p].op \in ops})
  IN  outcome \in {"running", "OK"} => Len(m.cond) = count({"IF", "NOTIF"}) - count({"ENDIF"})

\* Every number on a stack survives ScriptNum::serialize and set_vch, in the shortest
\* form, whichever way its frame is asked for it next; but for the least one, which is a
\* byte longer than set_vch can shift.
NumbersReadBack ==
  \A f \in ToSet(m.stack) \cup ToSet(m.alt) :
    f.number /\ f.n # LeastNumber =>
      set_vch(serialize(f.n)) = f.n /\ Minimal(serialize(f.n))

\* A script that skips an instruction is left with the stacks it had: only the flags of
\* the conditionals, and the counter, change.
SkippedIsInert ==
  [][~mustExecuted(m) => m'.stack = m.stack /\ m'.alt = m.alt /\ m'.sep = m.sep]_vars

\* The instruction that a running script has before it, when it will be executed.
Before(op) ==
  outcome = "running" /\ m.pc <= Len(script) /\ script[m.pc].op = op /\ mustExecuted(m)

\* op_CheckMultiSig pushes true exactly when each signature can be given a key of its
\* own that accepts it, in the order of the keys: its greedy loop misses no such choice.
MultiSigIsMatching ==
  LET r == MultiSig(m)
      nk == asNumber(Top(m, 1))
      ns == asNumber(Top(m, nk + 2))
      given(f, i) == <<asData(Top(m, nk + 2 + i)), asData(Top(m, f[i] + 1))>>
  IN  Before("CHECKMULTISIG") /\ r.err = "none" =>
        (Top(r.k, 1) = Truth(TRUE)) =
          \E f \in [1..ns -> 1..nk] :
            /\ \A i, j \in 1..ns : i < j => f[i] < f[j]
            /\ \A i \in 1..ns : given(f, i) \in Accepted

\* ScriptVerifyFlags.hpp:104 of NULLFAIL: "Signature(s) must be empty vector if a
\* CHECK(MULTI)SIG operation failed".  op_CheckMultiSig does not look at the flag.
NullFail ==
  LET r == MultiSig(m)
      nk == asNumber(Top(m, 1))
      ns == asNumber(Top(m, nk + 2))
  IN  Before("CHECKMULTISIG") /\ "NULLFAIL" \in flags /\ r.err = "none" =>
        \/ Top(r.k, 1) = Truth(TRUE)
        \/ \A i \in 1..ns : asData(Top(m, nk + 2 + i)) = <<>>

=============================================================================
