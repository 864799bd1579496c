----------------------------- MODULE Blockchain -----------------------------
(***************************************************************************)
(* The block index and the main chain of the node                          *)
(* (src/src/node/Blockchain.cpp), driven by the messages that reach it     *)
(* (Block::apply, Headers::apply, Tx::apply) and by the worker threads     *)
(* that run the tasks those handlers enqueue.                              *)
(*                                                                         *)
(* A block is named by its hash.  The numeric id of a block is its         *)
(* position in the append-only vector _blocks, so _blocks, _blockIds and   *)
(* _blockHashes together are the set "known" here.  A task runs as one     *)
(* step: ConnectSteps.tla splits it.                                       *)
(***************************************************************************)
EXTENDS Integers, Sequences

CONSTANTS
  Blocks,       \* hashes of the blocks peers may send
  Genesis,      \* _genesisBlockHash
  Null,         \* the null hash
  Prev,         \* BlockHeader::prev(), a function on Blocks
  Malformed,    \* blocks whose transactions do not match their merkle root
  Txs,          \* transactions
  TxOf,         \* Block::txList(), a function on Blocks
  Workers,      \* the threads of ThreadPool
  Asserts,      \* TRUE for the default build, FALSE for one with NDEBUG
  MaxOrphans    \* bound on the orphans kept for one parent

ASSUME BlocksAssumption ==
  /\ Null \notin Blocks
  /\ Prev \in [Blocks -> Blocks \cup {Null}]
  /\ Genesis \in Blocks /\ Prev[Genesis] = Null
ASSUME TxAssumption ==
  /\ TxOf \in [Blocks -> SUBSET Txs]
  /\ Malformed \subseteq Blocks
ASSUME BoundAssumption == Asserts \in BOOLEAN /\ MaxOrphans \in Nat

VARIABLES
  known,         \* _blocks, _blockIds, _blockHashes: the headers registered
  height,        \* BlockHeader::_height of each of them
  mainChain,     \* _mainChain
  orphanBlocks,  \* _orphanBlocks: the entries under each previous hash, in order
  transactions,  \* _transactions, _txIds, _txHashes
  tasks,         \* what TaskManager holds for this component
  worker,        \* what each thread is stuck in, if it is
  status         \* the process: an assertion or a bad read may end it

vars == <<known, height, mainChain, orphanBlocks, transactions, tasks, worker,
          status>>

NoHeight == -1
Hashes == Blocks \cup {Null}

Task == [op : {"addBlock", "connect"}, block : Blocks]

\* A thread between two tasks, or in a loop of connectToAncestor that it never
\* leaves: "erase" of the block being connected, "descendants" of a parent, or
\* "dangling" when the entry such a loop points at was erased under it.
Idle == [loop |-> "idle", at |-> Null]
WorkerState == {Idle} \cup
               [loop : {"erase", "descendants", "dangling"}, at : Blocks]

inChain(h, b) == b \in Blocks /\ h[b] # NoHeight

TopHeight == Len(mainChain) - 1

IsGenesis(b) == b = Genesis /\ Prev[b] = Null

\* Mutant: follows prev() once too often.
Path_OneTooLong(b, n) ==
  LET c[i \in 0..n] == IF i = n THEN b ELSE Prev[c[i + 1]]
  IN  [i \in 1..n + 1 |-> c[i - 1]]

\* The blocks from the root up to b, found by following prev() n - 1 times.
Path(b, n) ==
  LET c[i \in 1..n] == IF i = n THEN b ELSE Prev[c[i + 1]] IN c

-----------------------------------------------------------------------------
Init ==
  /\ known = {}
  /\ height = [b \in Blocks |-> NoHeight]
  /\ mainChain = <<>>
  /\ orphanBlocks = [p \in Hashes |-> <<>>]
  /\ transactions = {}
  /\ tasks = {}
  /\ worker = [w \in Workers |-> Idle]
  /\ status = "running"

Ready(w) == status = "running" /\ worker[w] = Idle

\* No member of the multimap under the first entry of a key is reached once a
\* loop without an increment starts: the thread stays there.
Stuck(w, loop, b) == [worker EXCEPT ![w] = [loop |-> loop, at |-> b]]

\* The loop that enqueues the descendants of b stops only on an empty range.
FindDescendants(w, b) ==
  worker' = IF orphanBlocks'[b] = <<>> THEN worker ELSE Stuck(w, "descendants", b)

\* connectToAncestor before there is a genesis block: any other block is kept
\* under its previous hash, on the side of its equals the library chooses.
RecordOrphan(b) ==
  /\ mainChain = <<>> /\ ~IsGenesis(b)
  /\ Len(orphanBlocks[Prev[b]]) < MaxOrphans
  /\ \E entries \in {Append(orphanBlocks[Prev[b]], b),
                     <<b>> \o orphanBlocks[Prev[b]]} :
       orphanBlocks' = [orphanBlocks EXCEPT ![Prev[b]] = entries]
  /\ UNCHANGED <<height, mainChain, worker, status>>

ConnectGenesis(w, b) ==
  /\ mainChain = <<>> /\ IsGenesis(b)
  /\ height' = [height EXCEPT ![b] = 0]
  /\ mainChain' = <<b>>
  /\ UNCHANGED <<orphanBlocks, status>>
  /\ FindDescendants(w, b)

\* The previous block is not registered, or is registered but not connected.
RefuseUnconnected(b) ==
  /\ mainChain # <<>>
  /\ Prev[b] \notin known' \/ ~inChain(height, Prev[b])
  /\ UNCHANGED <<height, mainChain, orphanBlocks, worker, status>>

\* setHeight on a block that has a height already.
AssertHeightUnset(b) ==
  /\ mainChain # <<>>
  /\ Prev[b] \in known' /\ inChain(height, Prev[b])
  /\ Asserts /\ height[b] # NoHeight
  /\ status' = "aborted"
  /\ UNCHANGED <<height, mainChain, orphanBlocks, worker>>

\* Mutant: the test of inChain() at line 474 is missing.
CanConnect_AnyPrev(b) ==
  mainChain # <<>> /\ Prev[b] \in known' /\ (Asserts => height[b] = NoHeight)

CanConnect(b) ==
  /\ mainChain # <<>>
  /\ Prev[b] \in known' /\ inChain(height, Prev[b])
  /\ Asserts => height[b] = NoHeight

\* Mutant: the commented-out line 526, the height is the end of the main chain.
SetHeight_EndOfChain(b) ==
  height' = [height EXCEPT ![b] = Len(mainChain)]

SetHeight(b) == height' = [height EXCEPT ![b] = height[Prev[b]] + 1]

\* The loop that removes b from the orphans looks at the first entry only; if
\* it is another block the thread never gets past it.
LoopOnFirstOrphan(w, b) ==
  /\ CanConnect(b)
  /\ orphanBlocks[Prev[b]] # <<>> /\ Head(orphanBlocks[Prev[b]]) # b
  /\ SetHeight(b)
  /\ worker' = Stuck(w, "erase", b)
  /\ UNCHANGED <<mainChain, orphanBlocks, status>>

\* Mutants: a block is put on top without walking back to the fork; only a block
\* on the top is taken; every block takes its branch with it.
ExtendOrReorganise_NoRollback(b) ==
  mainChain' = IF height'[b] >= TopHeight THEN Append(mainChain, b)
                                           ELSE mainChain
ExtendOrReorganise_TopOnly(b) ==
  mainChain' = IF Prev[b] = mainChain[Len(mainChain)] THEN Append(mainChain, b)
                                                      ELSE mainChain
ExtendOrReorganise_Always(b) == mainChain' = Path(b, height'[b] + 1)

\* The main chain after b got its height: a block at least as high as the top
\* takes its whole branch with it, one that is lower stays on a side branch.
ExtendOrReorganise(b) ==
  mainChain' = IF height'[b] >= TopHeight THEN Path(b, height'[b] + 1)
                                           ELSE mainChain

\* Erasing the first entry under a key frees the node that a thread looping on
\* the descendants of that key points at.
LeaveDangling(p, b) ==
  [w \in Workers |->
     IF worker[w] = [loop |-> "descendants", at |-> p]
       THEN [loop |-> "dangling", at |-> b] ELSE worker[w]]

ConnectToParent(w, b) ==
  /\ CanConnect(b)
  /\ orphanBlocks[Prev[b]] = <<>>
  /\ SetHeight(b)
  /\ ExtendOrReorganise(b)
  /\ UNCHANGED <<orphanBlocks, status>>
  /\ FindDescendants(w, b)

ConnectOrphan(w, b) ==
  /\ CanConnect(b)
  /\ orphanBlocks[Prev[b]] # <<>> /\ Head(orphanBlocks[Prev[b]]) = b
  /\ SetHeight(b)
  /\ ExtendOrReorganise(b)
  /\ orphanBlocks' = [orphanBlocks EXCEPT ![Prev[b]] = Tail(@)]
  /\ UNCHANGED status
  /\ LET left == LeaveDangling(Prev[b], b)
     IN  worker' = IF orphanBlocks'[b] = <<>> THEN left
                   ELSE [left EXCEPT ![w] = [loop |-> "descendants", at |-> b]]

connectToAncestor(w, b) ==
  \/ RecordOrphan(b)
  \/ ConnectGenesis(w, b)
  \/ RefuseUnconnected(b)
  \/ AssertHeightUnset(b)
  \/ LoopOnFirstOrphan(w, b)
  \/ ConnectToParent(w, b)
  \/ ConnectOrphan(w, b)

addBlock_HeaderIsEnough(w, b) ==
  \/ /\ b \in Malformed \cup known
     /\ UNCHANGED <<known, height, mainChain, orphanBlocks, transactions,
                    worker, status>>
  \/ /\ b \notin Malformed \cup known
     /\ known' = known \cup {b}
     /\ transactions' = transactions \cup TxOf[b]
     /\ connectToAncestor(w, b)

addBlock(w, b) ==
  \/ /\ b \in Malformed
     /\ UNCHANGED <<known, height, mainChain, orphanBlocks, transactions,
                    worker, status>>
  \/ /\ b \notin Malformed
     /\ known' = known \cup {b}
     /\ transactions' = transactions \cup TxOf[b]
     /\ connectToAncestor(w, b)

-----------------------------------------------------------------------------
\* Headers::apply: addBlockHeader, for one header of the message after the other.
ReceiveHeader(w, h) ==
  /\ Ready(w)
  /\ known' = known \cup {h}
  /\ UNCHANGED <<height, mainChain, orphanBlocks, transactions, tasks, worker,
                 status>>

\* Tx::apply: addTx.
ReceiveTx(w, tx) ==
  /\ Ready(w)
  /\ transactions' = transactions \cup {tx}
  /\ UNCHANGED <<known, height, mainChain, orphanBlocks, tasks, worker, status>>

\* Block::apply: a block without a previous one is added at once, any other by
\* a task.
ReceiveBlock(w, b) ==
  /\ Ready(w)
  /\ \/ /\ Prev[b] = Null
        /\ addBlock(w, b)
        /\ UNCHANGED tasks
     \/ /\ Prev[b] # Null
        /\ tasks' = tasks \cup {[op |-> "addBlock", block |-> b]}
        /\ UNCHANGED <<known, height, mainChain, orphanBlocks, transactions,
                       worker, status>>

RunAddBlock(w, b) ==
  LET task == [op |-> "addBlock", block |-> b]
  IN  /\ Ready(w)
      /\ task \in tasks
      /\ tasks' = tasks \ {task}
      /\ addBlock(w, b)

RunConnect(w, b) ==
  LET task == [op |-> "connect", block |-> b]
  IN  /\ Ready(w)
      /\ task \in tasks
      /\ tasks' = tasks \ {task}
      /\ UNCHANGED <<known, transactions>>
      /\ connectToAncestor(w, b)

\* One more turn of the loop over the descendants: the same first entry again.
EnqueueDescendant(w) ==
  /\ status = "running"
  /\ worker[w].loop = "descendants"
  /\ tasks' = tasks \cup {[op |-> "connect",
                           block |-> Head(orphanBlocks[worker[w].at])]}
  /\ UNCHANGED <<known, height, mainChain, orphanBlocks, transactions, worker,
                 status>>

\* The loop reads a freed entry: the process dies, or the old id is still there.
ReadErased(w) ==
  /\ status = "running"
  /\ worker[w].loop = "dangling"
  /\ \/ status' = "crashed" /\ UNCHANGED tasks
     \/ /\ tasks' = tasks \cup {[op |-> "connect", block |-> worker[w].at]}
        /\ UNCHANGED status
  /\ UNCHANGED <<known, height, mainChain, orphanBlocks, transactions, worker>>

Next ==
  \E w \in Workers :
    \/ \E h \in Blocks : ReceiveHeader(w, h)
    \/ \E tx \in Txs : ReceiveTx(w, tx)
    \/ \E b \in Blocks : ReceiveBlock(w, b)
    \/ \E b \in Blocks : RunAddBlock(w, b)
    \/ \E b \in Blocks : RunConnect(w, b)
    \/ EnqueueDescendant(w)
    \/ ReadErased(w)

Spec == Init /\ [][Next]_vars

\* TaskManager hands the oldest task to the first thread that asks, so a task
\* waits for ever only when no thread is left.  Peers owe nothing.
Fairness ==
  \A b \in Blocks :
    /\ WF_vars(\E w \in Workers : RunAddBlock(w, b))
    /\ WF_vars(\E w \in Workers : RunConnect(w, b))

FairSpec == Spec /\ Fairness

-----------------------------------------------------------------------------
\* The state of Blockchain.cpp keeps its type: only blocks, never the null hash,
\* are put on _mainChain.
TypeOK ==
  /\ known \subseteq Blocks
  /\ height \in [Blocks -> Nat \cup {NoHeight}]
  /\ mainChain \in Seq(Blocks)
  /\ orphanBlocks \in [Hashes -> Seq(Blocks)]
  /\ transactions \subseteq Txs
  /\ tasks \subseteq Task
  /\ worker \in [Workers -> WorkerState]
  /\ status \in {"running", "aborted", "crashed"}

Connected == {b \in Blocks : height[b] # NoHeight}

\* Safety: _mainChain is a branch.  It starts at the genesis block, each block
\* names the one below it as its previous block, and the position of a block is
\* its height (what getBlockHash(height) and the assertion at line 525 rely on),
\* after any sequence of extensions and reorganisations.
MainChainIsBranch ==
  /\ mainChain # <<>> => mainChain[1] = Genesis
  /\ \A i \in 1..Len(mainChain) : height[mainChain[i]] = i - 1
  /\ \A i \in 1..Len(mainChain) - 1 : Prev[mainChain[i + 1]] = mainChain[i]

\* Safety: a height is never a guess.  A block that is inChain() is registered,
\* and its previous block is inChain() exactly one lower, down to the genesis
\* block: connectToAncestor never gives a height to a block on a branch with a gap.
HeightsFollowPrev ==
  \A b \in Connected :
    /\ b \in known
    /\ \/ b = Genesis /\ height[b] = 0
       \/ /\ Prev[b] \in Connected
          /\ height[b] = height[Prev[b]] + 1

\* Safety: the main chain is the highest branch known.  A block higher than the
\* top can only be one whose thread is caught, after setHeight, in the loop at
\* line 484.
TopIsHighest ==
  \A b \in Connected :
    height[b] > TopHeight =>
      \E w \in Workers : worker[w] = [loop |-> "erase", at |-> b]

\* Safety: addBlock stores the transactions before it connects the block, so
\* each transaction of each connected block is found by getTx.
ConnectedHaveTransactions ==
  \A b \in Connected : TxOf[b] \subseteq transactions

\* Action property: a height, once given, is kept by every later step, through
\* reorganisations and redelivered blocks (setHeight is asserted to run once).
HeightsAreFinal ==
  [][\A b \in Connected : height'[b] = height[b]]_vars

\* Action property: a reorganisation never makes the chain shorter, and keeps
\* everything below the point where the two branches part.
ChainNeverShrinks ==
  [][/\ Len(mainChain') >= Len(mainChain)
     /\ \A i, j \in 1..Len(mainChain) :
          i <= j /\ mainChain'[j] = mainChain[j]
            => mainChain'[i] = mainChain[i]]_vars

NoThreadLeft == \A w \in Workers : worker[w] # Idle

\* Liveness: a well-formed block whose task is queued when its parent is
\* connected is connected in the end, unless the process ends or every thread
\* is lost in one of the two endless loops first.
ReadyBlockConnects ==
  \A b \in Blocks \ Malformed :
    [op |-> "addBlock", block |-> b] \in tasks /\ Prev[b] \in Connected
      ~> b \in Connected \/ status # "running" \/ NoThreadLeft

\* BlockHeader.hpp:114 (assert(_height == -1) in setHeight): connectToAncestor
\* is never run for a block that has its height.
HeightIsSetOnce == status # "aborted"
=============================================================================
