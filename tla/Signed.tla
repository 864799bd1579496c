-------------------------------- MODULE Signed --------------------------------
(***************************************************************************)
(* What a signature of a transaction signs (script/checkers): the hash     *)
(* type at its end says which inputs and outputs are written, and what is  *)
(* written is hashed; the hash is taken for what is written.               *)
(***************************************************************************)
EXTENDS Integers, Sequences

\* A byte of flags is the set of its bits.
SIGHASH_ALL == {1}
SIGHASH_NONE == {2}
SIGHASH_SINGLE == {1, 2}
SIGHASH_ANYONECANPAY == {128}

isSet(flags, flag) == flags \cap flag # {}
\* Flags::mask() masks the flags of a new object, which has none.
mask(flags, bits) == {} \cap bits
LowBits == {1, 2, 4, 8, 16}

\* A script is a sequence of instructions; its separators are not written.
SerializeScriptCode(code) == SelectSeq(code, LAMBDA op : op # "CODESEPARATOR")

\* Whether the sequences of other inputs and other outputs are left out.
None(type) == isSet(mask(type, LowBits), SIGHASH_NONE)
Single(type) == isSet(mask(type, LowBits), SIGHASH_SINGLE)

SerializeInput(code, tx, nIn, type, i) ==
  LET n == IF isSet(type, SIGHASH_ANYONECANPAY) THEN nIn ELSE i
  IN  <<tx.ins[n].prevOut,
        IF n = nIn THEN SerializeScriptCode(code) ELSE <<>>,
        IF n # nIn /\ (Single(type) \/ None(type)) THEN 0 ELSE tx.ins[n].sequence>>
SerializeOutput(tx, nIn, type, i) ==
  IF Single(type) /\ i # nIn THEN "TxOut()" ELSE tx.outs[i]

Serialize(code, tx, nIn, type) ==
  LET nInputs == IF isSet(type, SIGHASH_ANYONECANPAY) THEN 1 ELSE Len(tx.ins)
      nOutputs == IF None(type) THEN 0 ELSE IF Single(type) THEN nIn ELSE Len(tx.outs)
  IN  [version |-> tx.version, lockTime |-> tx.lockTime,
       ins |-> [i \in 1..nInputs |-> SerializeInput(code, tx, nIn, type, i)],
       outs |-> [i \in 1..nOutputs |-> SerializeOutput(tx, nIn, type, i)]]

SignatureHash(code, tx, nIn, type) ==
  IF Single(type) /\ nIn > Len(tx.outs) THEN [one |-> TRUE]
  ELSE [tx |-> Serialize(code, tx, nIn, type), type |-> type]

\* The hash type is the last byte of a signature; the rest must sign the hash.
CheckSig(sig, key, code, tx, nIn) ==
  /\ sig.by = key /\ sig.hash = SignatureHash(code, tx, nIn, sig.type)

-----------------------------------------------------------------------------
(* What Bitcoin's hash types mean, as the comments of the serializer say it. *)
-----------------------------------------------------------------------------
Type(type) ==
  CASE type \cap LowBits = SIGHASH_NONE -> "none"
    [] type \cap LowBits = SIGHASH_SINGLE -> "single"
    [] OTHER -> "all"

\* Two transactions that differ only in what the signer leaves to others.
LeftOpen(tx, other, nIn, type) ==
  /\ tx.version = other.version /\ tx.lockTime = other.lockTime
  /\ nIn \in DOMAIN other.ins /\ tx.ins[nIn] = other.ins[nIn]
  /\ SIGHASH_ANYONECANPAY \subseteq type \/
       /\ DOMAIN tx.ins = DOMAIN other.ins
       /\ \A i \in DOMAIN tx.ins :
            /\ tx.ins[i].prevOut = other.ins[i].prevOut
            /\ Type(type) = "all" => tx.ins[i].sequence = other.ins[i].sequence
  /\ CASE Type(type) = "none" -> TRUE
       [] Type(type) = "single" /\ nIn <= Len(tx.outs) ->
            nIn <= Len(other.outs) /\ tx.outs[nIn] = other.outs[nIn]
       [] OTHER -> tx.outs = other.outs

\* A signature made for one transaction is good for no other, unless it leaves open
\* what they differ in, and good for another input only if it is for any others beside it.
SignsItsPart(code, tx, others, nIn, type) ==
  LET sig == [by |-> "k", type |-> type, hash |-> SignatureHash(code, tx, nIn, type)]
  IN  /\ CheckSig(sig, "k", code, tx, nIn)
      /\ \A other \in others : \A n \in DOMAIN other.ins :
           CheckSig(sig, "k", code, other, n) =>
             IF n = nIn THEN LeftOpen(tx, other, nIn, type)
             ELSE SIGHASH_ANYONECANPAY \subseteq type

\* ... and it stays good when others change what it leaves open.
LeavesTheRest(code, tx, others, nIn, type) ==
  LET sig == [by |-> "k", type |-> type, hash |-> SignatureHash(code, tx, nIn, type)]
  IN  \A other \in others : LeftOpen(tx, other, nIn, type) => CheckSig(sig, "k", code, other, nIn)
===============================================================================
