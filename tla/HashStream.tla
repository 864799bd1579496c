----------------------------- MODULE HashStream -----------------------------
(***************************************************************************)
(* The hashers as objects: bytes are written in pieces, full blocks are    *)
(* transformed at once, the rest waits in a buffer, and the end pads it    *)
(* (crypto/sha1, sha256, sha512, ripemd160.cpp; the library's SHA256, SHA1 *)
(* and MD5), and the stream that a message is serialized into to be hashed *)
(* twice (other/HashStreamBuffer.hpp).  A transform is left to Sha2 and    *)
(* Digests: here the state of a hash is what went through it.  The bytes   *)
(* written are their positions, beyond the values of a byte, so that       *)
(* nothing can be taken for padding.                                       *)
(***************************************************************************)
EXTENDS Naturals, Sequences

CONSTANTS
  Sizes,     \* the lengths of a piece
  MaxCalls   \* bound: calls on one object

VARIABLE hasher   \* kind, held, done, buf, count: the object;  again: what the second hash of
                  \* the stream took in;  told, clean: what was written since
                  \* it was new, if that is what it hashes;  digest: the last result

None == <<>>
Node == {"CSHA256", "CSHA1", "CRIPEMD160", "CSHA512"}
Library == {"SHA256", "SHA1", "MD5"}
New(kind) ==
  [kind |-> kind, held |-> <<>>, done |-> <<>>, buf |-> <<>>, count |-> 0, finalized |-> FALSE,
   again |-> <<>>, told |-> 0, clean |-> TRUE, digest |-> None, calls |-> 0]

Take(s, n) == SubSeq(s, 1, n)
Drop(s, n) == SubSeq(s, n + 1, Len(s))
Some(n) == [i \in 1..n |-> 0]
Bytes(told, n) == [i \in 1..n |-> 1000 + told + i]
\* A number as eight bytes, the lowest first or last; TLC's numbers have four.
LE64(n) == [i \in 1..8 |-> IF i > 4 THEN 0 ELSE (n \div 256^(i - 1)) % 256]
BE64(n) == [i \in 1..8 |-> LE64(n)[9 - i]]

-----------------------------------------------------------------------------
(* The node's                                                                *)
-----------------------------------------------------------------------------
\* An unfinished block that the piece fills, the whole blocks, the rest.
Write(h, data, size) ==
  LET bufsize == h.count % size
      full == bufsize # 0 /\ bufsize + Len(data) >= size
      first == IF full THEN size - bufsize ELSE 0
      rest == Drop(data, first)
      blocks == (Len(rest) \div size) * size
      kept == Take(h.buf, bufsize)
  IN  [h EXCEPT
         !.done = h.done \o (IF full THEN kept \o Take(data, first) ELSE <<>>) \o Take(rest, blocks),
         !.buf = (IF full THEN <<>> ELSE kept) \o Drop(rest, blocks),
         !.count = h.count + Len(data)]

CSHA256_Write(h, data) == Write(h, data, 64)
CSHA1_Write(h, data) == Write(h, data, 64)
CRIPEMD160_Write(h, data) == Write(h, data, 64)
CSHA512_Write(h, data) == Write(h, data, 128)

Pad(n) == <<128>> \o Some(n - 1)
CSHA256_Finalize(h) ==
  CSHA256_Write(CSHA256_Write(h, Pad(1 + ((119 - (h.count % 64)) % 64))), BE64(8 * h.count))
CSHA1_Finalize(h) ==
  CSHA1_Write(CSHA1_Write(h, Pad(1 + ((119 - (h.count % 64)) % 64))), BE64(8 * h.count))
CRIPEMD160_Finalize(h) ==
  CRIPEMD160_Write(CRIPEMD160_Write(h, Pad(1 + ((119 - (h.count % 64)) % 64))), LE64(8 * h.count))
CSHA512_Finalize(h) ==
  CSHA512_Write(CSHA512_Write(h, Pad(1 + ((239 - (h.count % 128)) % 128))),
                Some(8) \o BE64(8 * h.count))

-----------------------------------------------------------------------------
(* The library's                                                             *)
-----------------------------------------------------------------------------
\* SHA256: m_block has two blocks, m_len bytes of it are used; count is m_tot_len.
SHA256_update(h, data) ==
  LET m_len == Len(h.buf)
      rem == IF Len(data) < 64 - m_len THEN Len(data) ELSE 64 - m_len
      rest == Drop(data, rem)
      block_nb == Len(rest) \div 64
  IN  IF m_len + Len(data) < 64 THEN [h EXCEPT !.buf = h.buf \o data]
      ELSE [h EXCEPT !.done = h.done \o h.buf \o Take(data, rem) \o Take(rest, 64 * block_nb),
                     !.buf = Drop(rest, 64 * block_nb),
                     !.count = h.count + 64 * (block_nb + 1)]
\* Mutant: the byte of the bit is not counted.
SecondBlock_NoBit(m_len) == 64 - 8 < m_len
SecondBlock(m_len) == 64 - 9 < m_len
SHA256_final(h) ==
  LET m_len == Len(h.buf)
      block_nb == IF SecondBlock(m_len) THEN 2 ELSE 1
      len_b == Drop(BE64(8 * (h.count + m_len)), 4)
  IN  [h EXCEPT !.done = h.done \o h.buf \o <<128>> \o Some(64 * block_nb - m_len - 5) \o len_b]

\* SHA1 reads the piece as a stream, until it does not fill a block; count is transforms.
SHA1_update(h, data) ==
  LET all == h.buf \o data
      whole == (Len(all) \div 64) * 64
  IN  [h EXCEPT !.done = h.done \o Take(all, whole), !.buf = Drop(all, whole),
                !.count = h.count + Len(all) \div 64]
SHA1_final_bin(h) ==
  LET total_bits == 8 * (64 * h.count + Len(h.buf))
      orig_size == Len(h.buf) + 1
      block == h.buf \o <<128>> \o Some(64 - orig_size)
  IN  [h EXCEPT !.done =
         h.done \o (IF orig_size > 64 - 8 THEN block \o Some(56) ELSE Take(block, 56))
           \o BE64(total_bits)]
SHA1_reset(h) == [h EXCEPT !.done = <<>>, !.buf = <<>>, !.count = 0]

\* MD5 counts the bits, which give it the place in the buffer.
md5_append(h, data) ==
  LET offset == (h.count \div 8) % 64
      copy == IF offset = 0 THEN 0
              ELSE IF offset + Len(data) > 64 THEN 64 - offset ELSE Len(data)
      filled == Take(h.buf, offset) \o Take(data, copy)
      full == offset # 0 /\ offset + copy = 64
      left == Drop(data, copy)
      blocks == (Len(left) \div 64) * 64
  IN  IF data = <<>> THEN h
      ELSE IF offset # 0 /\ ~full
      THEN [h EXCEPT !.buf = filled, !.count = h.count + 8 * Len(data)]
      ELSE [h EXCEPT !.done = h.done \o (IF full THEN filled ELSE <<>>) \o Take(left, blocks),
                     !.buf = Drop(left, blocks), !.count = h.count + 8 * Len(data)]
md5_finish(h) ==
  md5_append(md5_append(h, Pad(((64 + 55 - ((h.count \div 8) % 64)) % 64) + 1)), LE64(h.count))

-----------------------------------------------------------------------------
(* The stream: a buffer before a CSHA256, that starts anew with the first    *)
(* write after a digest was taken.                                           *)
-----------------------------------------------------------------------------
xsputn(st, data) ==
  LET h == IF st.finalized THEN [New(st.kind) EXCEPT !.held = st.held] ELSE st
      space == 64 - Len(h.held)
      written == CSHA256_Write(h, h.held \o Take(data, space))
      remain == Drop(data, space)
  IN  IF Len(data) < space THEN [h EXCEPT !.held = h.held \o data]
      ELSE IF Len(remain) < 64 THEN [written EXCEPT !.held = remain]
      ELSE [CSHA256_Write(written, remain) EXCEPT !.held = <<>>]
sync(st) ==
  IF st.held = <<>> THEN st ELSE [CSHA256_Write(st, st.held) EXCEPT !.held = <<>>]
\* The result of a hash: 32 bytes, of which only their place is known.
Result == [i \in 1..32 |-> 500 + i]
\* The hasher is reset and given the result; what is kept is what the two hashes took in.
\* (overflow(), which std::ostream::put() would reach, is left out: what is serialized into
\* a stream goes by write().)
digest(st) ==
  LET first == CSHA256_Finalize(sync(st))
      second == CSHA256_Finalize(CSHA256_Write(New(st.kind), Result))
  IN  IF st.finalized THEN st ELSE [first EXCEPT !.again = second.done]

-----------------------------------------------------------------------------
(* The calls                                                                 *)
-----------------------------------------------------------------------------
Written(h, data) ==
  CASE h.kind = "CSHA256" -> CSHA256_Write(h, data)
    [] h.kind = "CSHA1" -> CSHA1_Write(h, data)
    [] h.kind = "CRIPEMD160" -> CRIPEMD160_Write(h, data)
    [] h.kind = "CSHA512" -> CSHA512_Write(h, data)
    [] h.kind = "SHA256" -> SHA256_update(h, data)
    [] h.kind = "SHA1" -> SHA1_update(h, data)
    [] h.kind = "MD5" -> IF h.finalized THEN h ELSE md5_append(h, data)
    [] h.kind = "HashStream" -> xsputn(h, data)
Finalized(h) ==
  CASE h.kind = "CSHA256" -> CSHA256_Finalize(h)
    [] h.kind = "CSHA1" -> CSHA1_Finalize(h)
    [] h.kind = "CRIPEMD160" -> CRIPEMD160_Finalize(h)
    [] h.kind = "CSHA512" -> CSHA512_Finalize(h)
    [] h.kind = "SHA256" -> SHA256_final(h)
    [] h.kind = "SHA1" -> SHA1_final_bin(h)
    [] h.kind = "MD5" -> IF h.finalized THEN h ELSE md5_finish(h)
    [] h.kind = "HashStream" -> digest(h)

Init == hasher \in {New(kind) : kind \in Node \cup Library \cup {"HashStream"}}

\* The caller writes a piece.  MD5 is deaf after its end, the stream begins again.
Feed(n) ==
  LET told == IF hasher.kind = "HashStream" /\ hasher.finalized THEN 0 ELSE hasher.told
      deaf == hasher.kind = "MD5" /\ hasher.finalized
  IN  hasher' = [Written(hasher, Bytes(told, n)) EXCEPT
                   !.told = IF deaf THEN told ELSE told + n,
                   !.digest = hasher.digest, !.calls = hasher.calls + 1]

\* The caller takes the digest.  A node's hasher and the library's SHA256 are left with
\* the padding in them; SHA1 starts anew; MD5 and the stream keep it.
Finalize ==
  LET h == Finalized(hasher)
      result == [of |-> h.done, again |-> h.again, told |-> hasher.told, good |-> hasher.clean]
      after == CASE h.kind = "SHA1" -> [SHA1_reset(h) EXCEPT !.told = 0]
                 [] h.kind \in {"MD5", "HashStream"} -> [h EXCEPT !.finalized = TRUE]
                 [] OTHER -> [h EXCEPT !.clean = FALSE]
  IN  hasher' = [after EXCEPT !.digest = result, !.calls = hasher.calls + 1]

\* The node's only; init() of the library's SHA256 does the same.
Reset ==
  /\ hasher.kind \in Node \cup {"SHA256"}
  /\ hasher' = [New(hasher.kind) EXCEPT !.digest = hasher.digest, !.calls = hasher.calls + 1]

Next ==
  /\ hasher.calls < MaxCalls
  /\ (\E n \in Sizes : Feed(n)) \/ Finalize \/ Reset

-----------------------------------------------------------------------------
(* What it promises                                                          *)
-----------------------------------------------------------------------------
\* What is hashed for a message: it, a bit, zeros up to the end of a block but for the
\* length in bits.
Padded(kind, bytes) ==
  LET n == Len(bytes)
      size == IF kind = "CSHA512" THEN 128 ELSE 64
      room == size \div 8
      zeros == CHOOSE z \in 0..(size - 1) : (n + 1 + z + room) % size = 0
  IN  bytes \o <<128>> \o Some(zeros + room - 8)
        \o IF kind \in {"CRIPEMD160", "MD5"} THEN LE64(8 * n) ELSE BE64(8 * n)

\* Safety.  However the message was cut in pieces, also after earlier messages, the digest
\* is that of the whole message, padded; that of the stream is the digest of that digest.
DigestOfMessage ==
  hasher.digest # None /\ hasher.digest.good =>
    /\ hasher.digest.of = Padded(hasher.kind, Bytes(0, hasher.digest.told))
    /\ hasher.kind = "HashStream" => hasher.digest.again = Padded(hasher.kind, Result)
=============================================================================
