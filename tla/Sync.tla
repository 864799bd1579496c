-------------------------------- MODULE Sync --------------------------------
(***************************************************************************)
(* How the node follows the chain of a peer: the handlers of the messages  *)
(* about blocks and transactions (apply() of src/src/protocol/messages and *)
(* the Ask, Receive and Send functions of src/src/net/Peer.cpp) over the   *)
(* block index and the worker threads of Blockchain.tla.  One connection   *)
(* is open; its messages are handled one after the other, each in a step   *)
(* of its own.  The peer is external: it has one chain, which grows, and   *)
(* answers what it is asked in the order it was asked.                     *)
(*                                                                         *)
(* A block or a transaction stands for itself in an inventory: its hash    *)
(* tells its type.                                                         *)
(***************************************************************************)
EXTENDS Blockchain, SequencesExt

CONSTANTS
  PeerChain,     \* the blocks of the peer, from the genesis block
  Batch,         \* how many headers the peer sends at once
  Questions,     \* what the peer may ask of its own accord
  MaxQuestions,  \* bound on how often
  MaxReply,      \* headers.size() <= 1000: how many the node sends at once
  Dense,         \* how many hashes of a locator follow without a gap, 10
  Starts         \* the branches the node may have when the peer comes

\* A branch from the genesis block, as Blockchain leaves it.
BranchOf(start) ==
  /\ start \in Seq(Blocks)
  /\ start # <<>> => start[1] = Genesis
  /\ \A i \in 1..Len(start) - 1 : Prev[start[i + 1]] = start[i]
  /\ \A i, j \in 1..Len(start) : start[i] = start[j] => i = j

\* Blocks and transactions have different hashes.  The peer has at least the genesis block,
\* and sends headers, blocks and transactions only when it is asked or has a new block.
ASSUME PeerAssumption ==
  /\ Blocks \cap Txs = {} /\ Null \notin Txs
  /\ PeerChain \in Seq(Blocks) /\ PeerChain # <<>>
  /\ \A q \in Questions : /\ q.type \in {"getdata", "inv", "notfound", "getheaders", "getblocks"}
                         /\ q.hashes = [i \in 1..Len(q.hashes) |-> q.hashes[i]]
                         /\ Len(q.hashes) \in Nat
  /\ Batch \in Nat /\ MaxQuestions \in Nat /\ MaxReply \in Nat /\ Dense \in Nat
  /\ \A start \in Starts : BranchOf(start)

VARIABLES
  dialog,     \* "none", "new" before initialSetup(), "open", "lost" with its thread
  toNode,     \* messages on their way to the node
  toPeer,     \* messages on their way to the peer
  later,      \* the tasks "To ask next portion of headers": the top when they were set
  tip,        \* how many blocks of PeerChain there are
  questions,  \* how many were asked
  mishaps     \* history: "refused", a block before its previous one; "late", a task
              \* that asks when nothing was connected since it was set

chain == <<known, height, mainChain, orphanBlocks, transactions, tasks, worker, status>>
peer == <<tip, questions>>
syncVars == <<chain, dialog, toNode, toPeer, later, peer, mishaps>>

Message(type, hashes) == [type |-> type, hashes |-> hashes, stop |-> Null]

\* Those of the items that are wanted, in their order.
Those(items, wanted) ==
  LET kept[n \in 0..Len(items)] ==
        IF n = 0 THEN <<>>
        ELSE IF items[n] \in wanted THEN Append(kept[n - 1], items[n]) ELSE kept[n - 1]
  IN  kept[Len(items)]

-----------------------------------------------------------------------------
getBlockHash(h) == IF h \in 0..TopHeight THEN mainChain[h + 1] ELSE Null

\* The top first, then down to the genesis block in steps that double once there are
\* more than Dense hashes.
getBlockLocator ==
  LET top == IF mainChain = <<>> THEN 0 ELSE TopHeight
      step(n) == IF n > Dense THEN 2 ^ (n - Dense) ELSE 1
      at[n \in 1..top + 1] ==
        IF n = 1 THEN top
        ELSE IF at[n - 1] > step(n - 1) THEN at[n - 1] - step(n - 1) ELSE 0
      last == CHOOSE n \in 1..top + 1 : at[n] = 0 /\ \A k \in 1..n - 1 : at[k] # 0
  IN  [n \in 1..last |-> getBlockHash(at[n])]

\* The height of the first hash of a locator that is inChain().
KnownHeight(locator) ==
  LET found == Those(locator, {h \in known : inChain(height, h)})
  IN  IF found = <<>> THEN NoHeight ELSE height[found[1]]

\* The hash is read once, before the loop: each turn takes the same header, which is that
\* of the locator's own block.
getBlockHeaders(locator, stop) ==
  LET hash == getBlockHash(KnownHeight(locator))
  IN  IF hash \in {Null, stop} THEN <<>> ELSE [i \in 1..MaxReply |-> hash]

\* getBlock() finds none: as many null pointers.
getBlocks(locator, stop) == [i \in DOMAIN getBlockHeaders(locator, stop) |-> Null]

\* filterKnownInventory: what stays is what the node does not have.
filterKnownInventory(items) ==
  Those(items, (Txs \ transactions) \cup {b \in Blocks : ~inChain(height, b)})

GetHeaders ==
  [type |-> "getheaders", hashes |-> getBlockLocator, stop |-> getBlockHash(TopHeight)]

AskInventory(items) ==
  LET unknown == filterKnownInventory(items)
  IN  toPeer' = IF unknown = <<>> THEN toPeer ELSE Append(toPeer, Message("getdata", unknown))

-----------------------------------------------------------------------------
\* The node starts without blocks or, when another peer was there before, with a branch.
SyncInit(start) ==
  /\ dialog = "new" /\ toNode = <<>> /\ toPeer = <<>> /\ later = <<>>
  /\ tip \in {Len(PeerChain) - 1, Len(PeerChain)} /\ questions = 0 /\ mishaps = {}
  /\ known = ToSet(start)
  /\ height = [b \in Blocks |-> IF b \in ToSet(start)
                                THEN (CHOOSE i \in DOMAIN start : start[i] = b) - 1
                                ELSE NoHeight]
  /\ mainChain = start
  /\ orphanBlocks = [p \in Hashes |-> <<>>]
  /\ transactions = UNION {TxOf[b] : b \in ToSet(start)}
  /\ tasks = {}
  /\ worker = [w \in Workers |-> Idle]
  /\ status = "running"

\* Node::connectToPeers calls initialSetup() for the new peer.
initialSetup ==
  /\ status = "running" /\ dialog = "new" /\ dialog' = "open"
  /\ toPeer' = <<IF mainChain # <<>> THEN GetHeaders ELSE Message("getdata", <<Genesis>>)>>
  /\ UNCHANGED <<chain, toNode, later, peer, mishaps>>

\* A worker takes the next message of the connection.
Take(w, types) ==
  /\ dialog = "open" /\ Ready(w)
  /\ toNode # <<>> /\ Head(toNode).type \in types
  /\ toNode' = Tail(toNode)
  /\ UNCHANGED peer
message == Head(toNode)

\* The headers that are not registered, each where it comes first.
NewHeaders(hashes) ==
  LET first == Those([i \in DOMAIN hashes |-> i],
                     {i \in DOMAIN hashes : /\ hashes[i] \notin known
                                            /\ \A k \in 1..i - 1 : hashes[k] # hashes[i]})
  IN  [n \in DOMAIN first |-> hashes[first[n]]]

\* Mutant: the task that asks for more headers is missing.
ReceiveHeaders_AsksOnce(w) ==
  LET new == NewHeaders(message.hashes)
  IN  /\ Take(w, {"headers"})
      /\ known' = known \cup ToSet(new)
      /\ AskInventory(new)
      /\ UNCHANGED <<height, mainChain, orphanBlocks, transactions, tasks, worker, status,
                     dialog, later, mishaps>>

\* Headers::apply.  Only headers that are new are asked for, and only they make the node
\* ask again, five seconds later.
ReceiveHeaders(w) ==
  LET new == NewHeaders(message.hashes)
  IN  /\ Take(w, {"headers"})
      /\ known' = known \cup ToSet(new)
      /\ AskInventory(new)
      /\ later' = IF new = <<>> THEN later ELSE Append(later, TopHeight)
      /\ UNCHANGED <<height, mainChain, orphanBlocks, transactions, tasks, worker, status,
                     dialog, mishaps>>

\* Block::apply.  After a block without a previous one the node asks for headers, unless
\* addBlock() has refused it or has not come back.
BlockApply(w) ==
  LET b == message.hashes[1]
      back == worker'[w] = Idle /\ status' = "running"
  IN  /\ Take(w, {"block"})
      /\ ReceiveBlock(w, b)
      /\ toPeer' = IF Prev[b] = Null /\ b \notin Malformed /\ back
                     THEN Append(toPeer, GetHeaders') ELSE toPeer
      /\ dialog' = IF worker'[w] = Idle THEN "open" ELSE "lost"
      /\ UNCHANGED <<later, mishaps>>

\* Tx::apply.
TxApply(w) ==
  /\ Take(w, {"tx"})
  /\ ReceiveTx(w, message.hashes[1])
  /\ UNCHANGED <<dialog, toPeer, later, mishaps>>

\* Inv::apply, and GetData::apply, which does the same: the node asks the peer for what the
\* peer asked for.
InvApply(w) ==
  /\ Take(w, {"inv"}) /\ AskInventory(message.hashes)
  /\ UNCHANGED <<chain, dialog, later, mishaps>>
GetDataApply(w) ==
  /\ Take(w, {"getdata"}) /\ AskInventory(message.hashes)
  /\ UNCHANGED <<chain, dialog, later, mishaps>>

\* NotFound::apply calls ReceiveInventory: what the peer does not have is sent to it, blocks
\* excepted, of which getBlock() finds none.
ReceiveInventory(w) ==
  LET notFound == Those(message.hashes, (Txs \cup Blocks) \ transactions)
      txs == Those(message.hashes, transactions)
  IN  /\ Take(w, {"notfound"})
      /\ toPeer' = toPeer \o [i \in DOMAIN txs |-> Message("tx", <<txs[i]>>)]
                     \o (IF notFound = <<>> THEN <<>> ELSE <<Message("notfound", notFound)>>)
      /\ UNCHANGED <<chain, dialog, later, mishaps>>

\* GetHeaders::apply
SendHeaders(w) ==
  LET headers == getBlockHeaders(message.hashes, message.stop)
  IN  /\ Take(w, {"getheaders"})
      /\ toPeer' = IF headers = <<>> THEN toPeer ELSE Append(toPeer, Message("headers", headers))
      /\ UNCHANGED <<chain, dialog, later, mishaps>>

\* GetBlocks::apply: a message without a block for every null pointer.
SendBlocks(w) ==
  LET blocks == getBlocks(message.hashes, message.stop)
  IN  /\ Take(w, {"getblocks"})
      /\ toPeer' = toPeer \o [i \in DOMAIN blocks |-> Message("block", <<>>)]
      /\ UNCHANGED <<chain, dialog, later, mishaps>>

\* "To ask next portion of headers"
AskHeaders(w) ==
  /\ Ready(w) /\ later # <<>>
  /\ later' = Tail(later)
  /\ toPeer' = Append(toPeer, GetHeaders)
  /\ mishaps' = IF TopHeight = Head(later) THEN mishaps \cup {"late"} ELSE mishaps
  /\ UNCHANGED <<chain, dialog, toNode, peer>>

\* The tasks and the loops of Blockchain.tla.
AddBlock(w, b) ==
  /\ dialog # "none" /\ RunAddBlock(w, b)
  /\ mishaps' = IF b \notin Malformed /\ (mainChain = <<>> \/ ~inChain(height, Prev[b]))
                  THEN mishaps \cup {"refused"} ELSE mishaps
  /\ UNCHANGED <<dialog, toNode, toPeer, later, peer>>
Connect(w) ==
  /\ dialog # "none"
  /\ (\E b \in Blocks : RunConnect(w, b)) \/ EnqueueDescendant(w) \/ ReadErased(w)
  /\ UNCHANGED <<dialog, toNode, toPeer, later, peer, mishaps>>

-----------------------------------------------------------------------------
\* The peer's answers: the headers after the first hash it knows, the blocks it has, and
\* the names of those it has not.
PeerBlocks == SubSeq(PeerChain, 1, tip)
HeadersAfter(locator) ==
  LET shared == {i \in 1..tip :
                   \E n \in DOMAIN locator :
                     /\ locator[n] = PeerBlocks[i]
                     /\ \A m \in 1..n - 1 : locator[m] \notin ToSet(PeerBlocks)}
      at == IF shared = {} THEN 1 ELSE CHOOSE i \in shared : TRUE
  IN  SubSeq(PeerBlocks, at + 1, IF at + Batch < tip THEN at + Batch ELSE tip)
PeerHas == Txs \cup ToSet(PeerBlocks)
Inventory(items) ==
  LET has == Those(items, PeerHas)
      hasNot == Those(items, ToSet(items) \ PeerHas)
  IN  [i \in DOMAIN has |-> Message(IF has[i] \in Txs THEN "tx" ELSE "block", <<has[i]>>)]
        \o (IF hasNot = <<>> THEN <<>> ELSE <<Message("notfound", hasNot)>>)

PeerAnswers ==
  LET asked == Head(toPeer)
      headers == HeadersAfter(asked.hashes)
  IN  /\ dialog \in {"open", "lost"} /\ toPeer # <<>>
      /\ toPeer' = Tail(toPeer)
      /\ toNode' = toNode \o
           CASE asked.type = "getheaders" /\ headers # <<>> -> <<Message("headers", headers)>>
             [] asked.type = "getdata" -> Inventory(asked.hashes)
             [] OTHER -> <<>>
      /\ UNCHANGED <<chain, dialog, later, peer, mishaps>>

\* A new block of the peer, announced in one of the two ways.
PeerAnnounces ==
  /\ dialog = "open" /\ tip < Len(PeerChain)
  /\ tip' = tip + 1
  /\ \E type \in {"inv", "headers"} :
       toNode' = Append(toNode, Message(type, <<PeerChain[tip + 1]>>))
  /\ UNCHANGED <<chain, dialog, toPeer, later, questions, mishaps>>

PeerAsks ==
  /\ dialog = "open" /\ questions < MaxQuestions
  /\ questions' = questions + 1
  /\ \E q \in Questions : toNode' = Append(toNode, q)
  /\ UNCHANGED <<chain, dialog, toPeer, later, tip, mishaps>>

-----------------------------------------------------------------------------
Handle(w) ==
  \/ ReceiveHeaders(w) \/ BlockApply(w) \/ TxApply(w) \/ InvApply(w) \/ GetDataApply(w)
  \/ ReceiveInventory(w) \/ SendHeaders(w) \/ SendBlocks(w)

SyncNext ==
  \/ initialSetup \/ PeerAnswers \/ PeerAnnounces \/ PeerAsks
  \/ \E w \in Workers :
       Handle(w) \/ AskHeaders(w) \/ Connect(w) \/ \E b \in Blocks : AddBlock(w, b)

\* What came is read, what is queued runs, and the peer answers; it need not announce or
\* ask anything.
SyncFairness ==
  /\ WF_syncVars(initialSetup) /\ WF_syncVars(PeerAnswers)
  /\ WF_syncVars(\E w \in Workers : Handle(w)) /\ WF_syncVars(\E w \in Workers : AskHeaders(w))
  /\ \A b \in Blocks : WF_syncVars(\E w \in Workers : AddBlock(w, b))

-----------------------------------------------------------------------------
\* Either anything comes in any order, or there is one peer that keeps to its part.
Anything ==
  /\ Init /\ dialog = "none"
  /\ toNode = <<>> /\ toPeer = <<>> /\ later = <<>> /\ mishaps = {}
  /\ tip = 1 /\ questions = 0
ChainInit == Anything \/ \E start \in Starts : SyncInit(start)
ChainNext ==
  \/ dialog = "none" /\ Next /\ UNCHANGED <<dialog, toNode, toPeer, later, peer, mishaps>>
  \/ dialog # "none" /\ SyncNext
ChainSpec == ChainInit /\ [][ChainNext]_syncVars /\ Fairness /\ SyncFairness

-----------------------------------------------------------------------------
CaughtUp == \A b \in ToSet(PeerBlocks) : inChain(height, b)
ThreadLost == \E w \in Workers : worker[w] # Idle

\* Liveness: a peer that answers everything, in order, is followed to its last block, batch
\* after batch of headers and through a reorganisation, unless one of these happens: a block
\* is refused because its previous one is not connected yet (it will not be asked for
\* again, for its header is known), the task that asks for more headers finds nothing
\* connected (the answer brings nothing new, and nothing new makes the node ask no more), or
\* a thread or the process ends in connectToAncestor.
CatchesUp ==
  (dialog # "none") ~> (CaughtUp \/ mishaps # {} \/ ThreadLost \/ status # "running")

\* GetHeaders.hpp:32: "Return a headers packet containing the headers of blocks starting right
\* after the last known hash in the block locator object".
HeadersFollowLocator ==
  \A m \in ToSet(toNode) :
    LET h == KnownHeight(m.hashes)
    IN  m.type = "getheaders" /\ h # NoHeight =>
          IsPrefix(getBlockHeaders(m.hashes, m.stop), SubSeq(mainChain, h + 2, Len(mainChain)))
=============================================================================
