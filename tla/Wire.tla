-------------------------------- MODULE Wire --------------------------------
(***************************************************************************)
(* What the messages of the protocol write and read: ::Serialize() and     *)
(* ::Unserialize() of the fields, one after the other.  A message has a    *)
(* layout; where Serialize and Unserialize of the code differ, so do Write *)
(* and Read of the layout.                                                 *)
(*                                                                         *)
(* A stream is a sequence of bytes.  Integers and hashes are the bytes in  *)
(* memory, which both sides copy.  A byte has Base values, so that every   *)
(* width of a variable length integer stays within TLC's integers.         *)
(* The streams are not looked at for failure: a read past the end leaves   *)
(* what the variable held, which counts as Failed here.                    *)
(***************************************************************************)
EXTENDS Naturals, Sequences, SequencesExt

CONSTANTS
  Base,      \* values of a byte: 256
  HashSize   \* bytes of a hash: 32

From(s, n) == SubSeq(s, n, Len(s))
Failed == [failed |-> TRUE]
Got(v, rest) == [v |-> v, rest |-> rest]

-----------------------------------------------------------------------------
\* Integers, blobs and arrays are written as they are in memory.
Bytes(n) == [kind |-> "bytes", n |-> n]
Int8 == Bytes(1)
Int16 == Bytes(2)
Int32 == Bytes(4)
Int64 == Bytes(8)
Hash == Bytes(HashSize)

RECURSIVE Little(_, _)
Little(n, width) == IF width = 0 THEN <<>> ELSE <<n % Base>> \o Little(n \div Base, width - 1)
RECURSIVE Value(_)
Value(s) == IF s = <<>> THEN 0 ELSE s[1] + Base * Value(Tail(s))

ReadBytes(in, n) ==
  IF Len(in) < n THEN Failed ELSE Got(SubSeq(in, 1, n), From(in, n + 1))

\* VariableLengthInteger: one byte, or a mark and two, four or eight of them.
Short == Base - 3
SerializeVarInt(n) ==
  IF n < Short THEN <<n>>
  ELSE IF n < Base * Base THEN <<Short>> \o Little(n, 2)
  ELSE IF n < Base * Base * Base * Base THEN <<Short + 1>> \o Little(n, 4)
  ELSE <<Short + 2>> \o Little(n, 8)

\* An integer that would fit in fewer bytes is refused.
UnserializeVarInt(in) ==
  LET mark == in[1]
      width == CASE mark = Short -> 2 [] mark = Short + 1 -> 4 [] mark = Short + 2 -> 8
      least == CASE width = 2 -> Short [] width = 4 -> Base * Base
                 [] width = 8 -> Base * Base * Base * Base
      r == ReadBytes(Tail(in), width)
  IN  IF in = <<>> THEN Failed
      ELSE IF mark < Short THEN Got(mark, Tail(in))
      ELSE IF r = Failed \/ Value(r.v) < least THEN Failed
      ELSE Got(Value(r.v), r.rest)

-----------------------------------------------------------------------------
\* Layouts.  List is size_and_() of a vector; Raw is a vector without its size, as a
\* vector inside a vector is written: it is read into as many bytes as it has, none.
List(l) == [kind |-> "list", of |-> l]
Fields(ls) == [kind |-> "fields", of |-> ls]
VarInt == [kind |-> "varint"]
Raw == [kind |-> "raw"]
String == [kind |-> "string"]
Special(name) == [kind |-> name]

BlockHeader == Fields(<<Int32, Hash, Hash, Int32, Int32, Int32, Int32>>)
TxOutPoint == Fields(<<Hash, Int32>>)
Script == List(Int8)
TxIn == Fields(<<TxOutPoint, Script, Int32>>)
TxOut == Fields(<<Int64, Script>>)
TxWitness == List(Raw)
\* <<version, flag, in, out, witnesses, srcChain, dstChain, lockTime>>: the flag, none or
\* its two bytes, says whether there are witnesses, one for each input.
Transaction == Special("transaction")
Block == Fields(<<BlockHeader, List(Transaction)>>)

\* Peers exchange addresses with their time, Version has them without.
Address == Fields(<<Int64, Bytes(16), Int16>>)
TimedAddress == Fields(<<Int32, Int64, Bytes(16), Int16>>)
InventoryVector == Fields(<<Int32, Hash>>)
PrefilledTransaction == Fields(<<VarInt, Transaction>>)
HeaderAndShortIDs ==
  Fields(<<BlockHeader, Int64, List(Bytes(6)), List(PrefilledTransaction)>>)
BlockTransactions == Fields(<<Hash, List(Transaction)>>)
\* The indexes, each as the distance from the one before it.
BlockTransactionsRequest == Fields(<<Hash, Special("indexes")>>)

MessageHeader == Fields(<<Int32, Bytes(12), Int32, Int32>>)
Version ==
  Fields(<<Int32, Int64, Int64, Address, Address, Int64, String, Int32, Int8>>)
Verack == List(Int32)
Addr == List(TimedAddress)
Inv == List(InventoryVector)
GetData == List(InventoryVector)
NotFound == List(InventoryVector)
GetBlocks == Fields(<<Int32, List(Hash), Hash>>)
GetHeaders == Fields(<<Int32, List(Hash), Hash>>)
Headers == Special("headers")
BlockMessage == Block
TxMessage == Transaction
SendCmpct == Fields(<<Int8, Int64>>)
CmpctBlock == HeaderAndShortIDs
GetBlockTxn == BlockTransactionsRequest
BlockTxn == BlockTransactions
Ping == Int64
Pong == Int64
FeeFilter == Int64
GetAddr == Fields(<<>>)
SendHeaders == Fields(<<>>)

\* The message for a command.
Layout(type) ==
  CASE type = "version" -> Version
    [] type = "verack" -> Verack
    [] type = "addr" -> Addr
    [] type = "inv" -> Inv
    [] type = "getdata" -> GetData
    [] type = "notfound" -> NotFound
    [] type = "getblocks" -> GetBlocks
    [] type = "getheaders" -> GetHeaders
    [] type = "headers" -> Headers
    [] type = "block" -> BlockMessage
    [] type = "tx" -> TxMessage
    [] type = "ping" -> Ping
    [] type = "pong" -> Pong
    [] type = "feefilter" -> FeeFilter
    [] type = "sendcmpct" -> SendCmpct
    [] type = "getaddr" -> GetAddr
    [] type = "sendheaders" -> SendHeaders
    [] type = "cmpctblock" -> CmpctBlock
    [] type = "blocktxn" -> BlockTxn
    [] type = "getblocktxn" -> GetBlockTxn
    [] type = "header" -> MessageHeader

-----------------------------------------------------------------------------
\* BlockTransactionsRequest::Serialize subtracts from its copy of the index, which is
\* then the previous one of the next: "previous" is what it keeps.
Distances(indexes) ==
  LET step(acc, i) ==
        IF acc.first THEN [first |-> FALSE, previous |-> i, out |-> <<i>>]
        ELSE LET d == i - acc.previous - 1
             IN  [first |-> FALSE, previous |-> d, out |-> Append(acc.out, d)]
  IN  FoldLeft(step, [first |-> TRUE, previous |-> 0, out |-> <<>>], indexes).out

\* Unserialize adds to each the index before it.
Indexes(distances) ==
  FoldLeft(LAMBDA out, d : Append(out, IF out = <<>> THEN d ELSE d + out[Len(out)] + 1),
           <<>>, distances)

RECURSIVE Write(_, _)
Write(l, v) ==
  LET each(of, s) == FlattenSeq([i \in DOMAIN s |-> Write(of, s[i])])
  IN  CASE l.kind = "bytes" -> v
        [] l.kind = "varint" -> SerializeVarInt(v)
        [] l.kind = "string" -> SerializeVarInt(Len(v)) \o v
        [] l.kind = "raw" -> v
        [] l.kind = "list" -> SerializeVarInt(Len(v)) \o each(l.of, v)
        [] l.kind = "fields" -> FlattenSeq([i \in DOMAIN v |-> Write(l.of[i], v[i])])
        [] l.kind = "indexes" -> SerializeVarInt(Len(v)) \o each(VarInt, Distances(v))
           \* A header of the index that came with its block is written with the block's
           \* transactions, for Serialize is virtual; another one without a count of them.
        [] l.kind = "headers" ->
             SerializeVarInt(Len(v))
             \o FlattenSeq([i \in DOMAIN v |->
                  IF Len(v[i]) = 2 THEN Write(Block, v[i]) ELSE Write(BlockHeader, v[i][1])])
        [] l.kind = "transaction" ->
             v[1] \o v[2] \o Write(List(TxIn), v[3]) \o Write(List(TxOut), v[4])
             \o (IF v[2] = <<>> THEN <<>> ELSE each(TxWitness, v[5]))
             \o v[6] \o v[7] \o v[8]

RECURSIVE Read(_, _)
\* The fields of ls, one after the other.
RECURSIVE ReadAll(_, _)
ReadAll(ls, in) ==
  IF ls = <<>> THEN Got(<<>>, in)
  ELSE LET r == Read(ls[1], in)
           s == ReadAll(Tail(ls), r.rest)
       IN  IF r = Failed \/ s = Failed THEN Failed ELSE Got(<<r.v>> \o s.v, s.rest)

Read(l, in) ==
  LET size == UnserializeVarInt(in)
      many(of) == IF size = Failed THEN Failed
                  ELSE ReadAll([i \in 1..size.v |-> of], size.rest)
      distances == many(VarInt)
      header == many(Fields(<<BlockHeader, VarInt>>))
      flag == IF Len(in) > 4 /\ in[5] = 0 THEN Int16 ELSE Bytes(0)
      body == ReadAll(<<Int32, flag, List(TxIn), List(TxOut)>>, in)
      witnesses == IF body.v[2] = <<>> THEN 0 ELSE Len(body.v[3])
      rest == ReadAll([i \in 1..witnesses |-> TxWitness] \o <<Int32, Int32, Int32>>,
                      body.rest)
      n == Len(rest.v)
  IN  CASE l.kind = "bytes" -> ReadBytes(in, l.n)
        [] l.kind = "varint" -> size
           \* VariableLengthString reads its length and then as much as it has already.
        [] l.kind = "string" -> IF size = Failed THEN Failed ELSE Got(<<>>, size.rest)
        [] l.kind = "raw" -> Got(<<>>, in)
        [] l.kind = "list" -> many(l.of)
        [] l.kind = "fields" -> ReadAll(l.of, in)
        [] l.kind = "indexes" ->
             IF distances = Failed THEN Failed
             ELSE Got(Indexes(distances.v), distances.rest)
           \* Every header is followed by a count of transactions.
        [] l.kind = "headers" ->
             IF header = Failed THEN Failed
             ELSE Got([i \in DOMAIN header.v |-> <<header.v[i][1]>>], header.rest)
        [] l.kind = "transaction" ->
             IF body = Failed THEN Failed
             ELSE IF rest = Failed THEN Failed
             ELSE Got(body.v \o <<SubSeq(rest.v, 1, n - 3)>> \o SubSeq(rest.v, n - 2, n),
                      rest.rest)

-----------------------------------------------------------------------------
\* What a transaction is read back from: a flag that begins with 0, some input when there
\* is no flag, and no bytes in its witnesses.
PlainTransaction(t) ==
  /\ t[2] = <<>> => t[3] # <<>>
  /\ t[2] # <<>> => \A i \in DOMAIN t[5] : \A k \in DOMAIN t[5][i] : t[5][i][k] = <<>>

\* The messages that the other side reads as they were written: no user agent, no header
\* but of a block without transactions, not more than two indexes.
Plain(type, v) ==
  CASE type = "version" -> v[7] = <<>>
    [] type = "headers" -> \A i \in DOMAIN v : Len(v[i]) = 2 /\ v[i][2] = <<>>
    [] type = "getblocktxn" -> Len(v[2]) <= 2
    [] type = "tx" -> PlainTransaction(v)
    [] type \in {"block", "blocktxn"} -> \A i \in DOMAIN v[2] : PlainTransaction(v[2][i])
    [] type = "cmpctblock" -> \A i \in DOMAIN v[4] : PlainTransaction(v[4][i][2])
    [] OTHER -> TRUE

\* Of a header both sides keep only the header.
Kept(type, v) == IF type = "headers" THEN [i \in DOMAIN v |-> <<v[i][1]>>] ELSE v

\* A message comes back, and all of its bytes are read, exactly when it is plain.
ComesBack(type, v) ==
  Read(Layout(type), Write(Layout(type), v)) = Got(Kept(type, v), <<>>) <=> Plain(type, v)
=============================================================================
