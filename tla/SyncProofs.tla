----------------------------- MODULE SyncProofs -----------------------------
(***************************************************************************)
(* Proofs about Sync: while the node follows a peer, whatever the peer     *)
(* asks, announces or answers, the block index keeps what BlockchainProofs *)
(* shows of it when anything comes in any order.                           *)
(*                                                                         *)
(* A handler hands on what a message names, so the invariant says what the *)
(* messages under way name: headers, blocks and inventories to the node,   *)
(* and what the peer is asked for, for its answer names those.  A step of  *)
(* the dialog is then a step of Blockchain, or one that registers the new  *)
(* headers of a message, or one that leaves the index alone (ChainStep).   *)
(***************************************************************************)
EXTENDS Sync, BlockchainProofs

IsSeq(s) == \E S : s \in Seq(S)

-----------------------------------------------------------------------------
\* Those keeps items that are wanted, and no other.
LEMMA ThoseAreWanted ==
  ASSUME NEW S, NEW s \in Seq(S), NEW wanted
  PROVE  Those(s, wanted) \in Seq(S \cap wanted)
<1> DEFINE n == Len(s)
           Sub == Seq(S \cap wanted)
           F(k) == [m \in 0..n |-> IF m = 0 THEN <<>>
                                   ELSE IF s[m] \in wanted THEN Append(k[m - 1], s[m]) ELSE k[m - 1]]
           Upto(k, m) == /\ k[0] = <<>>
                         /\ \A i \in 1..m :
                              k[i] = IF s[i] \in wanted THEN Append(k[i - 1], s[i]) ELSE k[i - 1]
           Bad == {m \in Nat : m <= n /\ \A k \in [0..m -> Sub] : ~Upto(k, m)}
<1>0. n \in Nat /\ <<>> \in Sub /\ \A i \in 1..n : s[i] \in S
  OBVIOUS
<1>1. \A q \in Sub, i \in 1..n : s[i] \in wanted => Append(q, s[i]) \in Sub
  BY <1>0
<1> HIDE DEF n, Sub
<1>2. Bad = {}
  <2> SUFFICES ASSUME Bad # {} PROVE FALSE
    OBVIOUS
  <2>1. PICK m \in Bad : \A l \in Bad : m <= l
    <3>1. Bad \subseteq Nat
      OBVIOUS
    <3> HIDE DEF Bad
    <3> QED BY <3>1, NatHasMin
  <2>2. m # 0
    <3>1. [i \in 0..0 |-> <<>>] \in [0..0 -> Sub] /\ Upto([i \in 0..0 |-> <<>>], 0)
      BY <1>0
    <3> QED BY <2>1, <3>1
  <2>3. m \in Nat /\ m <= n /\ m - 1 \in Nat /\ m - 1 <= n /\ ~(m <= m - 1)
    <3>1. m \in Nat /\ m <= n
      BY <2>1
    <3> QED BY <1>0, <2>2, <3>1
  <2>4. PICK k \in [0..m - 1 -> Sub] : Upto(k, m - 1)
    <3>1. m - 1 \notin Bad
      <4> HIDE DEF Bad
      <4> QED BY <2>1, <2>3
    <3> HIDE DEF Upto
    <3> QED BY <2>3, <3>1
  <2> DEFINE last == IF s[m] \in wanted THEN Append(k[m - 1], s[m]) ELSE k[m - 1]
             more == [i \in 0..m |-> IF i < m THEN k[i] ELSE last]
  <2>5. m \in 1..n /\ k[m - 1] \in Sub
    BY <1>0, <2>1, <2>2, <2>3
  <2>6. last \in Sub
    BY <1>1, <2>5
  <2>7. more \in [0..m -> Sub]
    BY <2>5, <2>6
  <2>8. Upto(more, m)
    <3>1. more[0] = <<>> /\ more[m] = last /\ more[m - 1] = k[m - 1]
      BY <2>3, <2>4, <2>5
    <3>2. ASSUME NEW i \in 1..m - 1 PROVE more[i] = k[i] /\ more[i - 1] = k[i - 1]
      BY <2>5
    <3>3. ASSUME NEW i \in 1..m
          PROVE  more[i] = IF s[i] \in wanted THEN Append(more[i - 1], s[i]) ELSE more[i - 1]
      <4>1. CASE i = m
        BY <3>1, <4>1
      <4>2. CASE i # m
        <5>1. i \in 1..m - 1
          BY <4>2, <2>5
        <5> HIDE DEF more
        <5> QED BY <5>1, <3>2, <2>4
      <4> QED BY <4>1, <4>2
    <3> QED BY <3>1, <3>3
  <2> QED BY <2>1, <2>7, <2>8
<1>3. PICK k \in [0..n -> Sub] : Upto(k, n)
  <2>1. n <= n /\ n \notin Bad
    BY <1>0, <1>2
  <2> HIDE DEF Upto
  <2> QED BY <1>0, <2>1
<1> DEFINE K == CHOOSE f : f = F(f)
<1>4. k = F(k)
  <2>1. k = [m \in 0..n |-> k[m]]
    OBVIOUS
  <2>2. ASSUME NEW m \in 0..n PROVE k[m] = F(k)[m]
    <3>1. m = 0 \/ m \in 1..n
      BY <1>0
    <3> QED BY <1>3, <3>1
  <2>3. F(k) = [m \in 0..n |-> F(k)[m]]
    OBVIOUS
  <2> HIDE DEF F
  <2> QED BY <2>1, <2>2, <2>3
<1>5. K = F(K)
  <2> HIDE DEF F
  <2> QED BY <1>4
<1>6. Those(s, wanted) = K[n]
  BY DEF Those, n
<1> HIDE DEF K
<1> DEFINE Off == {m \in Nat : m <= n /\ K[m] \notin Sub}
<1>7. Off = {}
  <2> SUFFICES ASSUME Off # {} PROVE FALSE
    OBVIOUS
  <2>1. PICK m \in Off : \A l \in Off : m <= l
    <3>1. Off \subseteq Nat
      OBVIOUS
    <3> HIDE DEF Off
    <3> QED BY <3>1, NatHasMin
  <2>2. \A l \in 0..n : K[l] = IF l = 0 THEN <<>>
                               ELSE IF s[l] \in wanted THEN Append(K[l - 1], s[l]) ELSE K[l - 1]
    BY <1>5
  <2>3. m # 0
    BY <1>0, <2>1, <2>2
  <2>4. m \in 1..n /\ m - 1 \in Nat /\ m - 1 <= n /\ ~(m <= m - 1)
    BY <1>0, <2>1, <2>3
  <2>5. K[m - 1] \in Sub
    BY <2>1, <2>4
  <2>6. K[m] \in Sub
    BY <1>1, <2>2, <2>4, <2>5
  <2> QED BY <2>1, <2>6
<1> QED BY <1>0, <1>6, <1>7 DEF Sub

-----------------------------------------------------------------------------
\* Sequences of what they hold.
LEMMA SeqOfItsEntries ==
  ASSUME NEW s, IsSeq(s)
  PROVE  s \in Seq(ToSet(s)) /\ Len(s) \in Nat /\ DOMAIN s = 1..Len(s)
<1>1. PICK S : s \in Seq(S)
  BY DEF IsSeq
<1> QED BY <1>1 DEF ToSet

\* A message that is sent comes after those under way.
LEMMA AppendIsSeq ==
  ASSUME NEW s, IsSeq(s), NEW e
  PROVE  IsSeq(Append(s, e)) /\ ToSet(Append(s, e)) \subseteq ToSet(s) \cup {e}
<1> DEFINE S == ToSet(s) \cup {e}
<1>1. s \in Seq(ToSet(s))
  BY SeqOfItsEntries
<1>2. s \in Seq(S) /\ e \in S
  BY <1>1
<1> HIDE DEF S
<1>3. Append(s, e) \in Seq(S)
  BY <1>2
<1>4. ToSet(Append(s, e)) \subseteq S
  BY <1>3 DEF ToSet
<1> QED BY <1>3, <1>4 DEF IsSeq, S

\* Several messages that are sent come after those under way.
LEMMA JoinIsSeq ==
  ASSUME NEW s, IsSeq(s), NEW t, IsSeq(t)
  PROVE  IsSeq(s \o t) /\ ToSet(s \o t) \subseteq ToSet(s) \cup ToSet(t)
<1> DEFINE S == ToSet(s) \cup ToSet(t)
<1>1. s \in Seq(ToSet(s)) /\ t \in Seq(ToSet(t))
  BY SeqOfItsEntries
<1>2. s \in Seq(S) /\ t \in Seq(S)
  BY <1>1
<1> HIDE DEF S
<1>3. s \o t \in Seq(S)
  BY <1>2
<1>4. ToSet(s \o t) \subseteq S
  BY <1>3 DEF ToSet
<1> QED BY <1>3, <1>4 DEF IsSeq, S

\* The message that is handled was under way, and the others still are.
LEMMA TailIsSeq ==
  ASSUME NEW s, IsSeq(s), s # <<>>
  PROVE  IsSeq(Tail(s)) /\ ToSet(Tail(s)) \subseteq ToSet(s) /\ Head(s) \in ToSet(s)
<1>1. s \in Seq(ToSet(s))
  BY SeqOfItsEntries
<1> DEFINE S == ToSet(s)
<1> HIDE DEF S
<1>2. s \in Seq(S)
  BY <1>1 DEF S
<1>3. Tail(s) \in Seq(S) /\ Head(s) \in S
  BY <1>2
<1>4. ToSet(Tail(s)) \subseteq S
  BY <1>3 DEF ToSet
<1> QED BY <1>3, <1>4 DEF IsSeq, S

\* Messages made of one thing each form a sequence.
LEMMA ListIsSeq ==
  ASSUME NEW n \in Nat, NEW f, f = [i \in 1..n |-> f[i]]
  PROVE  IsSeq(f) /\ ToSet(f) = {f[i] : i \in 1..n}
<1> DEFINE S == {f[i] : i \in 1..n}
<1>1. f \in [1..n -> S]
  OBVIOUS
<1> HIDE DEF S
<1>2. f \in Seq(S) /\ DOMAIN f = 1..n
  BY <1>1
<1> QED BY <1>2 DEF IsSeq, ToSet, S

\* A block, a transaction or an inventory is a message of one item or of several.
LEMMA OneIsSeq ==
  ASSUME NEW e
  PROVE  IsSeq(<<e>>) /\ ToSet(<<e>>) = {e} /\ IsSeq(<<>>) /\ ToSet(<<>>) = {}
<1>1. <<e>> \in Seq({e}) /\ <<>> \in Seq({e})
  OBVIOUS
<1>2. DOMAIN <<e>> = {1} /\ <<e>>[1] = e /\ DOMAIN <<>> = {}
  OBVIOUS
<1>3. ToSet(<<e>>) = {e} /\ ToSet(<<>>) = {}
  BY <1>2, Zenon DEF ToSet
<1>4. IsSeq(<<e>>) /\ IsSeq(<<>>)
  BY <1>1, Zenon DEF IsSeq
<1> QED BY <1>3, <1>4

\* Those of any items that are wanted.
LEMMA ThoseOfItems ==
  ASSUME NEW s, IsSeq(s), NEW wanted
  PROVE  /\ Those(s, wanted) \in Seq(wanted)
         /\ IsSeq(Those(s, wanted))
         /\ ToSet(Those(s, wanted)) \subseteq wanted \cap ToSet(s)
<1>1. s \in Seq(ToSet(s))
  BY SeqOfItsEntries
<1> DEFINE S == ToSet(s) \cap wanted
           t == Those(s, wanted)
<1>2. t \in Seq(S)
  BY <1>1, ThoseAreWanted
<1> HIDE DEF t, S
<1>3. ToSet(t) \subseteq S
  BY <1>2 DEF ToSet
<1>4. S \subseteq wanted
  BY DEF S
<1>5. t \in Seq(wanted)
  BY <1>2, <1>4
<1> QED BY <1>2, <1>3, <1>5 DEF IsSeq, t, S

-----------------------------------------------------------------------------
\* What a message to the node names, and what the peer is asked for.
NamesToNode(m) ==
  /\ m.type = "headers" => m.hashes \in Seq(Blocks)
  /\ m.type = "block" => m.hashes[1] \in Blocks
  /\ m.type = "tx" => m.hashes[1] \in Txs
  /\ m.type \in {"inv", "getdata", "notfound"} => IsSeq(m.hashes)
NamesToPeer(m) == m.type = "getdata" => m.hashes \in Seq(Blocks \cup Txs)

MessagesOK ==
  /\ IsSeq(toNode) /\ \A m \in ToSet(toNode) : NamesToNode(m)
  /\ IsSeq(toPeer) /\ \A m \in ToSet(toPeer) : NamesToPeer(m)
  /\ tip \in 0..Len(PeerChain)

\* One more message to the peer.
LEMMA PeerGetsOne ==
  ASSUME MessagesOK, NEW m, NamesToPeer(m), toPeer' = Append(toPeer, m)
  PROVE  IsSeq(toPeer') /\ \A x \in ToSet(toPeer') : NamesToPeer(x)
<1>1. IsSeq(toPeer') /\ ToSet(toPeer') \subseteq ToSet(toPeer) \cup {m}
  BY AppendIsSeq DEF MessagesOK
<1> QED BY <1>1 DEF MessagesOK

\* The node has taken a message.
LEMMA NodeTakes ==
  ASSUME MessagesOK, NEW w, NEW types, Take(w, types)
  PROVE  /\ NamesToNode(message) /\ message.type \in types
         /\ IsSeq(toNode') /\ \A x \in ToSet(toNode') : NamesToNode(x)
         /\ tip' \in 0..Len(PeerChain)
<1>1. IsSeq(Tail(toNode)) /\ ToSet(Tail(toNode)) \subseteq ToSet(toNode) /\ Head(toNode) \in ToSet(toNode)
  BY TailIsSeq DEF MessagesOK, Take
<1> QED BY <1>1 DEF MessagesOK, Take, message, peer

\* What is asked for is what the node does not have of the items.
LEMMA AsksForItems ==
  ASSUME MessagesOK, NEW items, IsSeq(items), AskInventory(items)
  PROVE  IsSeq(toPeer') /\ \A x \in ToSet(toPeer') : NamesToPeer(x)
<1> DEFINE wanted == (Txs \ transactions) \cup {b \in Blocks : ~inChain(height, b)}
           unknown == filterKnownInventory(items)
<1>1. unknown \in Seq(wanted)
  BY ThoseOfItems DEF filterKnownInventory
<1>2. wanted \subseteq Blocks \cup Txs
  OBVIOUS
<1> HIDE DEF wanted
<1>3. unknown \in Seq(Blocks \cup Txs)
  BY <1>1, <1>2
<1>4. toPeer' = toPeer \/ toPeer' = Append(toPeer, Message("getdata", unknown))
  BY DEF AskInventory
<1>5. NamesToPeer(Message("getdata", unknown))
  BY <1>3 DEF NamesToPeer, Message
<1> HIDE DEF unknown
<1> QED BY <1>4, <1>5, PeerGetsOne DEF MessagesOK


\* The new headers of a message are blocks, each where it comes first.
LEMMA NewHeadersAreBlocks ==
  ASSUME NEW hashes \in Seq(Blocks)
  PROVE  NewHeaders(hashes) \in Seq(Blocks)
<1> DEFINE places == [i \in DOMAIN hashes |-> i]
           wanted == {i \in DOMAIN hashes : /\ hashes[i] \notin known
                                            /\ \A k \in 1..i - 1 : hashes[k] # hashes[i]}
           first == Those(places, wanted)
<1>1. Len(hashes) \in Nat /\ DOMAIN hashes = 1..Len(hashes)
  OBVIOUS
<1>2. places \in Seq(DOMAIN hashes)
  BY <1>1
<1>3. first \in Seq(DOMAIN hashes \cap wanted)
  BY <1>2, ThoseAreWanted
<1> HIDE DEF places, wanted
<1>4. first \in [1..Len(first) -> DOMAIN hashes] /\ Len(first) \in Nat /\ DOMAIN first = 1..Len(first)
  BY <1>3
<1>5. NewHeaders(hashes) = [n \in DOMAIN first |-> hashes[first[n]]]
  BY DEF NewHeaders, first, places, wanted
<1> HIDE DEF first
<1>6. \A n \in 1..Len(first) : hashes[first[n]] \in Blocks
  BY <1>4
<1>7. [n \in 1..Len(first) |-> hashes[first[n]]] \in [1..Len(first) -> Blocks]
  BY <1>6
<1> QED BY <1>4, <1>5, <1>7

\* The headers the peer answers with are of its chain.
LEMMA HeadersArePeers ==
  ASSUME MessagesOK, NEW locator
  PROVE  HeadersAfter(locator) \in Seq(Blocks)
<1> DEFINE shared == {i \in 1..tip :
                        \E n \in DOMAIN locator :
                          /\ locator[n] = PeerBlocks[i]
                          /\ \A m \in 1..n - 1 : locator[m] \notin ToSet(PeerBlocks)}
           at == IF shared = {} THEN 1 ELSE CHOOSE i \in shared : TRUE
           end == IF at + Batch < tip THEN at + Batch ELSE tip
<1>1. tip \in Nat /\ tip <= Len(PeerChain) /\ Len(PeerChain) \in Nat
  BY PeerAssumption DEF MessagesOK
<1>2. PeerBlocks \in Seq(Blocks) /\ Len(PeerBlocks) = tip
  BY <1>1, PeerAssumption DEF PeerBlocks
<1>3. at \in Nat \ {0}
  BY <1>1
<1>4. HeadersAfter(locator) = SubSeq(PeerBlocks, at + 1, end)
  BY DEF HeadersAfter
<1> HIDE DEF at
<1>5. end \in Nat /\ end <= tip
  BY <1>1, <1>3, PeerAssumption
<1> HIDE DEF end
<1>6. \A i \in at + 1..end : PeerBlocks[i] \in Blocks
  BY <1>2, <1>3, <1>5
<1> QED BY <1>2, <1>3, <1>4, <1>5, <1>6

\* And so are the blocks; what it does not have is named as it was asked for.
LEMMA InventoryIsPeers ==
  ASSUME MessagesOK, NEW items \in Seq(Blocks \cup Txs)
  PROVE  IsSeq(Inventory(items)) /\ \A m \in ToSet(Inventory(items)) : NamesToNode(m)
<1> DEFINE has == Those(items, PeerHas)
           hasNot == Those(items, ToSet(items) \ PeerHas)
           kind(e) == IF e \in Txs THEN "tx" ELSE "block"
           found == [i \in DOMAIN has |-> Message(kind(has[i]), <<has[i]>>)]
           rest == IF hasNot = <<>> THEN <<>> ELSE <<Message("notfound", hasNot)>>
<1>1. IsSeq(items)
  BY DEF IsSeq
<1>2. ToSet(PeerBlocks) \subseteq Blocks
  <2>1. tip \in Nat /\ tip <= Len(PeerChain) /\ Len(PeerChain) \in Nat
    BY PeerAssumption DEF MessagesOK
  <2>2. PeerBlocks \in Seq(Blocks)
    BY <2>1, PeerAssumption DEF PeerBlocks
  <2> QED BY <2>2 DEF ToSet
<1>3. has \in Seq(PeerHas) /\ IsSeq(hasNot)
  BY <1>1, ThoseOfItems
<1>4. Inventory(items) = found \o rest
  BY DEF Inventory
<1> HIDE DEF has, hasNot
<1>5. Len(has) \in Nat /\ DOMAIN has = 1..Len(has) /\ \A i \in 1..Len(has) : has[i] \in Blocks \cup Txs
  BY <1>2, <1>3 DEF PeerHas
<1>6. IsSeq(found) /\ ToSet(found) = {found[i] : i \in 1..Len(has)}
  BY <1>5, ListIsSeq
<1>7. ASSUME NEW i \in 1..Len(has) PROVE NamesToNode(found[i])
  <2>1. CASE has[i] \in Txs
    BY <1>5, <2>1 DEF NamesToNode, Message
  <2>2. CASE has[i] \notin Txs
    BY <1>5, <2>2 DEF NamesToNode, Message
  <2> QED BY <2>1, <2>2
<1>8. IsSeq(rest) /\ \A m \in ToSet(rest) : NamesToNode(m)
  <2>1. NamesToNode(Message("notfound", hasNot))
    BY <1>3 DEF NamesToNode, Message
  <2> QED BY <2>1, OneIsSeq
<1> HIDE DEF found, rest
<1>9. IsSeq(found \o rest) /\ ToSet(found \o rest) \subseteq ToSet(found) \cup ToSet(rest)
  BY <1>6, <1>8, JoinIsSeq
<1> QED BY <1>4, <1>6, <1>7, <1>8, <1>9


-----------------------------------------------------------------------------
\* A message registers its new headers at once; nothing else of the index moves.
HeadersRegistered ==
  /\ known \subseteq known' /\ known' \subseteq Blocks
  /\ UNCHANGED <<height, mainChain, orphanBlocks, transactions, tasks, worker, status>>

IndexStep == [Next]_vars \/ HeadersRegistered

\* A handler that only answers or asks leaves the index alone.
LEMMA QuietHandlers ==
  ASSUME IInv, MessagesOK, NEW w \in Workers,
         \/ InvApply(w) \/ GetDataApply(w) \/ ReceiveInventory(w) \/ SendHeaders(w) \/ SendBlocks(w)
  PROVE  MessagesOK' /\ UNCHANGED vars
<1>1. UNCHANGED vars
  BY DEF InvApply, GetDataApply, ReceiveInventory, SendHeaders, SendBlocks, chain, vars
<1>2. /\ message.type \in {"inv", "getdata", "notfound"} => IsSeq(message.hashes)
      /\ IsSeq(toNode') /\ \A m \in ToSet(toNode') : NamesToNode(m)
      /\ tip' \in 0..Len(PeerChain)
  BY NodeTakes DEF InvApply, GetDataApply, ReceiveInventory, SendHeaders, SendBlocks, NamesToNode
<1> DEFINE Asked == IsSeq(toPeer') /\ \A m \in ToSet(toPeer') : NamesToPeer(m)
<1>3. CASE InvApply(w) \/ GetDataApply(w)
  <2>1. message.type \in {"inv", "getdata"} /\ AskInventory(message.hashes)
    BY <1>3, NodeTakes DEF InvApply, GetDataApply
  <2>2. Asked
    BY <1>2, <2>1, AsksForItems
  <2> QED BY <1>1, <1>2, <2>2 DEF MessagesOK
<1>4. CASE ReceiveInventory(w)
  <2> DEFINE notFound == Those(message.hashes, (Txs \cup Blocks) \ transactions)
             txs == Those(message.hashes, transactions)
             sent == [i \in DOMAIN txs |-> Message("tx", <<txs[i]>>)]
             rest == IF notFound = <<>> THEN <<>> ELSE <<Message("notfound", notFound)>>
  <2>1. IsSeq(message.hashes)
    BY <1>2, <1>4, NodeTakes DEF ReceiveInventory
  <2>2. IsSeq(txs)
    BY <2>1, ThoseOfItems
  <2>3. toPeer' = toPeer \o sent \o rest
    BY <1>4 DEF ReceiveInventory
  <2> HIDE DEF txs, notFound
  <2>4. Len(txs) \in Nat /\ DOMAIN txs = 1..Len(txs)
    BY <2>2, SeqOfItsEntries
  <2>5. IsSeq(sent) /\ ToSet(sent) = {sent[i] : i \in 1..Len(txs)}
    BY <2>4, ListIsSeq
  <2>6. \A m \in ToSet(sent) : NamesToPeer(m)
    BY <2>4, <2>5 DEF NamesToPeer, Message
  <2>7. IsSeq(rest) /\ \A m \in ToSet(rest) : NamesToPeer(m)
    <3>1. NamesToPeer(Message("notfound", notFound))
      BY DEF NamesToPeer, Message
    <3> QED BY <3>1, OneIsSeq
  <2> HIDE DEF sent, rest
  <2>8. IsSeq(toPeer \o sent) /\ ToSet(toPeer \o sent) \subseteq ToSet(toPeer) \cup ToSet(sent)
    BY <2>5, JoinIsSeq DEF MessagesOK
  <2>9. /\ IsSeq(toPeer')
        /\ ToSet(toPeer') \subseteq ToSet(toPeer \o sent) \cup ToSet(rest)
    BY <2>3, <2>7, <2>8, JoinIsSeq
  <2>10. Asked
    BY <2>6, <2>7, <2>8, <2>9 DEF MessagesOK
  <2> QED BY <1>1, <1>2, <2>10 DEF MessagesOK
<1>5. CASE SendHeaders(w)
  <2> DEFINE headers == getBlockHeaders(message.hashes, message.stop)
  <2>1. toPeer' = toPeer \/ toPeer' = Append(toPeer, Message("headers", headers))
    BY <1>5 DEF SendHeaders
  <2>2. NamesToPeer(Message("headers", headers))
    BY DEF NamesToPeer, Message
  <2>3. Asked
    BY <2>1, <2>2, PeerGetsOne DEF MessagesOK
  <2> QED BY <1>1, <1>2, <2>3 DEF MessagesOK
<1>6. CASE SendBlocks(w)
  <2> DEFINE blocks == getBlocks(message.hashes, message.stop)
             sent == [i \in DOMAIN blocks |-> Message("block", <<>>)]
  <2>1. toPeer' = toPeer \o sent
    BY <1>6 DEF SendBlocks
  <2>2. DOMAIN blocks = 1..0 \/ DOMAIN blocks = 1..MaxReply
    BY DEF getBlocks, getBlockHeaders
  <2> HIDE DEF blocks
  <2>3. PICK n \in Nat : DOMAIN blocks = 1..n
    BY <2>2, PeerAssumption
  <2>4. IsSeq(sent) /\ ToSet(sent) = {sent[i] : i \in 1..n}
    BY <2>3, ListIsSeq
  <2>5. \A m \in ToSet(sent) : NamesToPeer(m)
    BY <2>3, <2>4 DEF NamesToPeer, Message
  <2> HIDE DEF sent
  <2>6. IsSeq(toPeer') /\ ToSet(toPeer') \subseteq ToSet(toPeer) \cup ToSet(sent)
    BY <2>1, <2>4, JoinIsSeq DEF MessagesOK
  <2>7. Asked
    BY <2>5, <2>6 DEF MessagesOK
  <2> QED BY <1>1, <1>2, <2>7 DEF MessagesOK
<1> QED BY <1>3, <1>4, <1>5, <1>6

\* A handler that receives headers, a block or a transaction moves the index as Blockchain
\* says.
LEMMA HandlersThatMove ==
  ASSUME IInv, MessagesOK, NEW w \in Workers, ReceiveHeaders(w) \/ BlockApply(w) \/ TxApply(w)
  PROVE  MessagesOK' /\ IndexStep
<1>1. /\ NamesToNode(message)
      /\ IsSeq(toNode') /\ \A m \in ToSet(toNode') : NamesToNode(m)
      /\ tip' \in 0..Len(PeerChain)
  BY NodeTakes DEF ReceiveHeaders, BlockApply, TxApply
<1> DEFINE Asked == IsSeq(toPeer') /\ \A m \in ToSet(toPeer') : NamesToPeer(m)
<1>2. CASE ReceiveHeaders(w)
  <2> DEFINE new == NewHeaders(message.hashes)
  <2>1. message.hashes \in Seq(Blocks)
    BY <1>1, <1>2, NodeTakes DEF ReceiveHeaders, NamesToNode
  <2>2. new \in Seq(Blocks)
    BY <2>1, NewHeadersAreBlocks
  <2>3. /\ known' = known \cup ToSet(new) /\ AskInventory(new)
        /\ UNCHANGED <<height, mainChain, orphanBlocks, transactions, tasks, worker, status>>
    BY <1>2 DEF ReceiveHeaders
  <2> HIDE DEF new
  <2>4. IsSeq(new) /\ ToSet(new) \subseteq Blocks
    BY <2>2 DEF IsSeq, ToSet
  <2>5. Asked
    BY <2>3, <2>4, AsksForItems
  <2>6. HeadersRegistered
    BY <2>3, <2>4 DEF HeadersRegistered, IInv, TypeOK
  <2> QED BY <1>1, <2>5, <2>6 DEF MessagesOK, IndexStep
<1>3. CASE BlockApply(w)
  <2>1. message.hashes[1] \in Blocks /\ ReceiveBlock(w, message.hashes[1])
    BY <1>1, <1>3, NodeTakes DEF BlockApply, NamesToNode
  <2>2. Next
    BY <2>1 DEF Next
  <2>3. toPeer' = toPeer \/ toPeer' = Append(toPeer, GetHeaders')
    BY <1>3 DEF BlockApply
  <2>4. NamesToPeer(GetHeaders)'
    BY DEF NamesToPeer, GetHeaders
  <2>5. \A m : NamesToPeer(m) /\ toPeer' = Append(toPeer, m) => Asked
    BY PeerGetsOne
  <2>6. Asked
    BY <2>3, <2>4, <2>5 DEF MessagesOK, NamesToPeer
  <2> QED BY <1>1, <2>2, <2>6 DEF MessagesOK, IndexStep
<1>4. CASE TxApply(w)
  <2>1. message.hashes[1] \in Txs /\ ReceiveTx(w, message.hashes[1]) /\ toPeer' = toPeer
    BY <1>1, <1>4, NodeTakes DEF TxApply, NamesToNode
  <2>2. Next
    BY <2>1 DEF Next
  <2> QED BY <1>1, <2>1, <2>2 DEF MessagesOK, IndexStep
<1> QED BY <1>2, <1>3, <1>4


\* Every step, of anything or of a dialog, is one the index knows, and what is under way
\* names what it may.
LEMMA ChainStep ==
  ASSUME IInv, MessagesOK, [ChainNext]_syncVars
  PROVE  MessagesOK' /\ IndexStep
<1>1. CASE UNCHANGED <<toNode, toPeer, peer>> /\ [Next]_vars
  BY <1>1 DEF MessagesOK, IndexStep, peer
<1>2. CASE initialSetup
  <2>1. /\ toPeer' = <<GetHeaders>> \/ toPeer' = <<Message("getdata", <<Genesis>>)>>
        /\ UNCHANGED <<chain, toNode, peer>>
    BY <1>2 DEF initialSetup
  <2>2. NamesToPeer(GetHeaders) /\ NamesToPeer(Message("getdata", <<Genesis>>))
    <3>1. <<Genesis>> \in Seq(Blocks \cup Txs)
      BY BlocksAssumption
    <3> QED BY <3>1 DEF NamesToPeer, GetHeaders, Message
  <2>3. IsSeq(toPeer') /\ \A m \in ToSet(toPeer') : NamesToPeer(m)
    BY <2>1, <2>2, OneIsSeq
  <2> QED BY <2>1, <2>3 DEF MessagesOK, IndexStep, peer, chain, vars
<1>3. CASE PeerAnswers
  <2> DEFINE asked == Head(toPeer)
             headers == HeadersAfter(asked.hashes)
             answer == CASE asked.type = "getheaders" /\ headers # <<>> -> <<Message("headers", headers)>>
                         [] asked.type = "getdata" -> Inventory(asked.hashes)
                         [] OTHER -> <<>>
  <2>1. /\ toPeer # <<>> /\ toPeer' = Tail(toPeer) /\ toNode' = toNode \o answer
        /\ UNCHANGED <<chain, peer>>
    BY <1>3 DEF PeerAnswers
  <2>2. /\ IsSeq(Tail(toPeer)) /\ ToSet(Tail(toPeer)) \subseteq ToSet(toPeer)
        /\ asked \in ToSet(toPeer)
    BY <2>1, TailIsSeq DEF MessagesOK
  <2>3. NamesToPeer(asked)
    BY <2>2 DEF MessagesOK
  <2>4. IsSeq(answer) /\ \A m \in ToSet(answer) : NamesToNode(m)
    <3>1. CASE asked.type = "getheaders"
      <4>1. NamesToNode(Message("headers", headers))
        BY HeadersArePeers DEF NamesToNode, Message
      <4>2. answer = <<Message("headers", headers)>> \/ answer = <<>>
        BY <3>1
      <4> HIDE DEF headers, answer
      <4> QED BY <4>1, <4>2, OneIsSeq
    <3>2. CASE asked.type = "getdata"
      <4>1. asked.hashes \in Seq(Blocks \cup Txs)
        BY <2>3, <3>2 DEF NamesToPeer
      <4>2. answer = Inventory(asked.hashes)
        BY <3>2
      <4> HIDE DEF answer
      <4> QED BY <4>1, <4>2, InventoryIsPeers
    <3>3. CASE asked.type \notin {"getheaders", "getdata"}
      <4>1. answer = <<>>
        BY <3>3
      <4> HIDE DEF answer
      <4> QED BY <4>1, OneIsSeq
    <3> QED BY <3>1, <3>2, <3>3
  <2> HIDE DEF answer, asked
  <2>5. IsSeq(toNode') /\ ToSet(toNode') \subseteq ToSet(toNode) \cup ToSet(answer)
    BY <2>1, <2>4, JoinIsSeq DEF MessagesOK
  <2> QED BY <2>1, <2>2, <2>4, <2>5 DEF MessagesOK, IndexStep, chain, peer, vars
<1>4. CASE PeerAnnounces \/ PeerAsks
  <2>1. PICK m : /\ NamesToNode(m) /\ toNode' = Append(toNode, m)
                 /\ tip' \in 0..Len(PeerChain)
    <3>1. CASE PeerAnnounces
      <4>1. PICK type \in {"inv", "headers"} :
              toNode' = Append(toNode, Message(type, <<PeerChain[tip + 1]>>))
        BY <3>1 DEF PeerAnnounces
      <4>2. tip + 1 \in 1..Len(PeerChain) /\ tip' = tip + 1
        BY <3>1, PeerAssumption DEF PeerAnnounces, MessagesOK
      <4>3. PeerChain[tip + 1] \in Blocks
        BY <4>2, PeerAssumption
      <4>4. <<PeerChain[tip + 1]>> \in Seq(Blocks)
        BY <4>3
      <4>5. NamesToNode(Message(type, <<PeerChain[tip + 1]>>))
        BY <4>1, <4>4 DEF NamesToNode, Message, IsSeq
      <4> QED BY <4>1, <4>2, <4>5
    <3>2. CASE PeerAsks
      <4>1. PICK q \in Questions : toNode' = Append(toNode, q)
        BY <3>2 DEF PeerAsks
      <4>2. IsSeq(q.hashes)
        BY PeerAssumption, ListIsSeq
      <4>3. NamesToNode(q)
        BY <4>2, PeerAssumption DEF NamesToNode
      <4> QED BY <3>2, <4>1, <4>3 DEF PeerAsks, MessagesOK
    <3> QED BY <1>4, <3>1, <3>2
  <2>2. IsSeq(toNode') /\ ToSet(toNode') \subseteq ToSet(toNode) \cup {m}
    BY <2>1, AppendIsSeq DEF MessagesOK
  <2>3. UNCHANGED <<chain, toPeer>>
    BY <1>4 DEF PeerAnnounces, PeerAsks
  <2> QED BY <2>1, <2>2, <2>3 DEF MessagesOK, IndexStep, chain, vars
<1>5. ASSUME NEW w \in Workers, AskHeaders(w) PROVE MessagesOK' /\ IndexStep
  <2>1. toPeer' = Append(toPeer, GetHeaders) /\ UNCHANGED <<chain, toNode, peer>>
    BY <1>5 DEF AskHeaders
  <2>2. NamesToPeer(GetHeaders)
    BY DEF NamesToPeer, GetHeaders
  <2>3. IsSeq(toPeer') /\ \A m \in ToSet(toPeer') : NamesToPeer(m)
    BY <2>1, <2>2, PeerGetsOne
  <2> QED BY <2>1, <2>3 DEF MessagesOK, IndexStep, chain, peer, vars
<1>6. ASSUME NEW w \in Workers, Connect(w) \/ \E b \in Blocks : AddBlock(w, b)
      PROVE  UNCHANGED <<toNode, toPeer, peer>> /\ Next
  BY <1>6 DEF Connect, AddBlock, Next
<1>7. ASSUME NEW w \in Workers, Handle(w) PROVE MessagesOK' /\ IndexStep
  <2>1. UNCHANGED vars => IndexStep
    BY DEF IndexStep
  <2> QED BY <1>7, <2>1, QuietHandlers, HandlersThatMove DEF Handle
<1>8. CASE UNCHANGED syncVars
  BY <1>1, <1>8 DEF syncVars, chain, vars
<1>9. CASE SyncNext
  BY <1>1, <1>2, <1>3, <1>4, <1>5, <1>6, <1>7, <1>9 DEF SyncNext
<1> QED BY <1>1, <1>8, <1>9 DEF ChainNext


-----------------------------------------------------------------------------
\* A branch the node has from another peer is what the invariant asks for.
LEMMA StartIsBranch ==
  ASSUME NEW start, BranchOf(start), SyncInit(start)
  PROVE  IInv /\ TopIsHighest
<1> DEFINE place(b) == CHOOSE i \in DOMAIN start : start[i] = b
<1>1. /\ start \in Seq(Blocks) /\ Len(start) \in Nat /\ DOMAIN start = 1..Len(start)
      /\ start # <<>> => start[1] = Genesis
      /\ \A i \in 1..Len(start) - 1 : Prev[start[i + 1]] = start[i]
      /\ \A i, j \in 1..Len(start) : start[i] = start[j] => i = j
  BY DEF BranchOf
<1>2. ToSet(start) = {start[i] : i \in 1..Len(start)}
  BY <1>1 DEF ToSet
<1>3. height = [b \in Blocks |-> IF b \in ToSet(start) THEN place(b) - 1 ELSE NoHeight]
  BY DEF SyncInit
<1>4. ASSUME NEW i \in 1..Len(start)
      PROVE  start[i] \in Blocks /\ height[start[i]] = i - 1
  <2>1. place(start[i]) = i
    BY <1>1
  <2>2. start[i] \in Blocks /\ start[i] \in ToSet(start)
    BY <1>1, <1>2
  <2> HIDE DEF place
  <2> QED BY <1>3, <2>1, <2>2
<1>5. ASSUME NEW b \in Blocks, b \notin ToSet(start) PROVE height[b] = NoHeight
  <2> HIDE DEF place
  <2> QED BY <1>3, <1>5
<1> HIDE DEF place
<1>6. Connected = ToSet(start)
  BY <1>2, <1>4, <1>5 DEF Connected, NoHeight
<1>7. ASSUME NEW b \in Blocks PROVE height[b] \in Nat \cup {NoHeight}
  <2>1. CASE b \in ToSet(start)
    <3>1. PICK i \in 1..Len(start) : b = start[i]
      BY <1>2, <2>1
    <3> QED BY <1>4, <3>1
  <2> QED BY <1>5, <2>1
<1>8. /\ known = ToSet(start) /\ mainChain = start /\ tasks = {} /\ status = "running"
      /\ orphanBlocks = [p \in Hashes |-> <<>>] /\ worker = [w \in Workers |-> Idle]
      /\ transactions = UNION {TxOf[b] : b \in ToSet(start)}
  BY DEF SyncInit
<1>9. ToSet(start) \subseteq Blocks
  BY <1>1, <1>2
<1>10. TypeOK
  <2>1. height \in [Blocks -> Nat \cup {NoHeight}]
    BY <1>3, <1>7
  <2>2. transactions \subseteq Txs
    BY <1>8, <1>9, TxAssumption
  <2>3. orphanBlocks \in [Hashes -> Seq(Blocks)] /\ worker \in [Workers -> WorkerState]
    BY <1>8 DEF WorkerState
  <2> QED BY <1>1, <1>8, <1>9, <2>1, <2>2, <2>3 DEF TypeOK
<1>11. MainChainIsBranch
  BY <1>1, <1>4, <1>8 DEF MainChainIsBranch
<1>12. LoopHasEntry /\ AllPrepared
  <2>1. \A b \in Connected : Prepared(b)
    BY <1>6, <1>8 DEF Prepared
  <2> QED BY <1>8, <2>1 DEF LoopHasEntry, AllPrepared, TasksPrepared, OrphansPrepared,
                            DanglingPrepared, Idle
<1>13. EmptyOrGenesis
  BY <1>1, <1>2, <1>6, <1>8 DEF EmptyOrGenesis
<1>14. ASSUME NEW b \in Connected
       PROVE  /\ \E c : IsBranch(c, b)
              /\ b \in known
              /\ \/ b = Genesis /\ height[b] = 0
                 \/ Prev[b] \in Connected /\ height[b] = height[Prev[b]] + 1
              /\ height[b] \in Nat /\ TopHeight \in Int /\ height[b] <= TopHeight
  <2>1. PICK n \in 1..Len(start) : b = start[n]
    BY <1>2, <1>6
  <2>2. height[b] = n - 1 /\ height[b] + 1 = n
    BY <1>4, <2>1
  <2> DEFINE c == [i \in 1..n |-> start[i]]
  <2>3. \A i \in 1..n : start[i] \in Connected /\ height[start[i]] = i - 1
    BY <1>1, <1>2, <1>4, <1>6, <2>1
  <2>4. IsBranch(c, b)
    BY <1>1, <2>1, <2>2, <2>3 DEF IsBranch
  <2>5. \/ b = Genesis /\ height[b] = 0
        \/ Prev[b] \in Connected /\ height[b] = height[Prev[b]] + 1
    <3>1. CASE n = 1
      BY <1>1, <2>1, <2>2, <3>1
    <3>2. CASE n # 1
      <4>1. n - 1 \in 1..Len(start) - 1 /\ n - 1 \in 1..n
        BY <1>1, <3>2
      <4>2. Prev[b] = start[n - 1]
        BY <1>1, <2>1, <4>1
      <4> QED BY <2>2, <2>3, <4>1, <4>2
    <3> QED BY <3>1, <3>2
  <2>6. b \in known /\ height[b] \in Nat /\ TopHeight \in Int /\ height[b] <= TopHeight
    BY <1>1, <1>6, <1>8, <2>2 DEF TopHeight
  <2> QED BY <2>4, <2>5, <2>6
<1>15. HeightsFollowPrev /\ HasBranch
  BY <1>14 DEF HeightsFollowPrev, HasBranch
<1>16. TopIsHighest
  <2>1. ASSUME NEW b \in Connected PROVE ~(height[b] > TopHeight)
    BY <1>14, <2>1
  <2> QED BY <2>1 DEF TopIsHighest
<1> QED BY <1>10, <1>11, <1>12, <1>13, <1>15, <1>16 DEF IInv

\* The invariant of the node with its peer.
ChainInv == IInv /\ TopIsHighest /\ MessagesOK

\* It holds when the node starts, without blocks or with a branch, and no message is under way.
LEMMA ChainStarts == ChainInit => ChainInv
<1>1. ASSUME toNode = <<>>, toPeer = <<>>, tip \in 0..Len(PeerChain) PROVE MessagesOK
  BY <1>1, OneIsSeq DEF MessagesOK
<1>2. Len(PeerChain) \in Nat \ {0}
  BY PeerAssumption
<1>3. CASE Anything
  <2>1. IInv /\ TopIsHighest
    BY <1>3, InitInvariant DEF Anything, Init, TopIsHighest, Connected
  <2> QED BY <1>1, <1>2, <1>3, <2>1 DEF Anything, ChainInv
<1>4. ASSUME NEW start \in Starts, SyncInit(start) PROVE ChainInv
  <2>1. IInv /\ TopIsHighest
    BY <1>4, StartIsBranch, PeerAssumption
  <2>2. toNode = <<>> /\ toPeer = <<>> /\ tip \in 0..Len(PeerChain)
    BY <1>2, <1>4 DEF SyncInit
  <2> QED BY <1>1, <2>1, <2>2 DEF ChainInv
<1> QED BY <1>3, <1>4 DEF ChainInit

\* What a step of the index does, whether Blockchain's or that of a message of headers.
LEMMA IndexKeeps ==
  IInv /\ TopIsHighest /\ IndexStep => IInv' /\ TopIsHighest' /\ HeightsKept /\ Grows
<1> SUFFICES ASSUME IInv, TopIsHighest, IndexStep
             PROVE  IInv' /\ TopIsHighest' /\ HeightsKept /\ Grows
  OBVIOUS
<1>1. IInv' /\ HeightsKept /\ TopMoves
  <2>1. CASE [Next]_vars
    BY <2>1, StepInvariant, StepMovesTop
  <2>2. CASE HeadersRegistered
    <3>1. TasksPrepared'
      BY <2>2 DEF HeadersRegistered, IInv, AllPrepared, TasksPrepared, Prepared
    <3>2. IInv' /\ HeightsKept
      BY <2>2, <3>1, QuietStep DEF HeadersRegistered, IInv, TypeOK
    <3>3. TopMoves
      BY <2>2, TopStays DEF HeadersRegistered
    <3> QED BY <3>2, <3>3
  <2> QED BY <2>1, <2>2 DEF IndexStep
<1>2. TopIsHighest' /\ Grows
  BY <1>1, TopKeeps, ChainGrows
<1> QED BY <1>1, <1>2

\* So a step of the node with its peer keeps the invariant.
LEMMA ChainInvStep ==
  ChainInv /\ [ChainNext]_syncVars => ChainInv' /\ HeightsKept /\ Grows
BY ChainStep, IndexKeeps DEF ChainInv

-----------------------------------------------------------------------------
\* Whatever a peer sends, asks, announces and answers, and in whatever order the handlers
\* and the tasks run, the index keeps its invariant, and what is under way names what it may.
THEOREM ChainInvariance == ChainSpec => []ChainInv
BY ChainStarts, ChainInvStep, PTL DEF ChainSpec

\* The block index and the main chain keep their type while a peer is followed: a header,
\* a block or a transaction reaches them only as what it is.
THEOREM ChainTypeCorrect == ChainSpec => []TypeOK
<1>1. ChainInv => TypeOK
  BY DEF ChainInv, IInv
<1> QED BY <1>1, ChainInvariance, PTL

\* Following a peer, through batches of headers, announcements and reorganisations, leaves
\* _mainChain a branch from the genesis block whose positions are the heights.
THEOREM FollowedChainIsBranch == ChainSpec => []MainChainIsBranch
<1>1. ChainInv => MainChainIsBranch
  BY DEF ChainInv, IInv
<1> QED BY <1>1, ChainInvariance, PTL

\* And no block is given a height on a branch with a gap, though headers are registered
\* long before their blocks come.
THEOREM FollowedHeightsFollowPrev == ChainSpec => []HeightsFollowPrev
<1>1. ChainInv => HeightsFollowPrev
  BY DEF ChainInv, IInv
<1> QED BY <1>1, ChainInvariance, PTL

\* The main chain is the highest branch known while a peer is followed.
THEOREM FollowedTopIsHighest == ChainSpec => []TopIsHighest
<1>1. ChainInv => TopIsHighest
  BY DEF ChainInv
<1> QED BY <1>1, ChainInvariance, PTL

\* No message of a peer changes a height that was given.
THEOREM FollowedHeightsAreFinal == ChainSpec => HeightsAreFinal
<1>1. ChainInv /\ [ChainNext]_syncVars => [HeightsKept]_vars
  BY ChainInvStep
<1> QED BY <1>1, ChainInvariance, PTL DEF ChainSpec, HeightsAreFinal, HeightsKept

\* No message of a peer makes the chain shorter, or another below a block it keeps.
THEOREM FollowedChainOnlyGrows == ChainSpec => ChainNeverShrinks
<1>1. ChainInv /\ [ChainNext]_syncVars => [Grows]_vars
  BY ChainInvStep
<1> QED BY <1>1, ChainInvariance, PTL DEF ChainSpec, ChainNeverShrinks, Grows

=============================================================================
