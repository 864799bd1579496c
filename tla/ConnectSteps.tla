---------------------------- MODULE ConnectSteps ----------------------------
(***************************************************************************)
(* addBlock and connectToAncestor of src/src/node/Blockchain.cpp, one step *)
(* per statement that touches what threads share.  Nothing in them takes   *)
(* Blockchain::_mutex, so the steps of two threads interleave (overlap);   *)
(* in a behaviour without overlap a run of connectToAncestor is left alone *)
(* until it ends, and its steps then implement Blockchain.tla, where a run *)
(* is one step.  A container operation is one step: the torn states of a   *)
(* container written by two threads at once are left out, so every         *)
(* disagreement shown here is one that locking each container by itself    *)
(* would not cure.  Transactions are left out.                             *)
(***************************************************************************)
EXTENDS Integers, Sequences

CONSTANTS
  Blocks, Genesis, Null, Prev,  \* as in Blockchain
  Workers,                      \* the threads of ThreadPool
  Asserts,                      \* TRUE for the default build
  MaxOrphans,                   \* bound on the orphans kept for one parent
  Few                           \* bound on the blocks that come when runs overlap

ASSUME BlocksAssumption ==
  /\ Null \notin Blocks /\ Prev \in [Blocks -> Blocks \cup {Null}]
  /\ Genesis \in Blocks /\ Prev[Genesis] = Null
ASSUME BoundAssumption == Asserts \in BOOLEAN /\ MaxOrphans \in Nat

VARIABLES
  known, height, mainChain, orphanBlocks, tasks, status,  \* as in Blockchain
  pc,     \* the statement each thread is at
  arg,    \* the block of its run
  local,  \* its local variables: top, block, new, old and the stack chain
  before, \* history: what was shared when the current run began
  overlap \* may two threads be in connectToAncestor at once

shared == <<known, height, mainChain, orphanBlocks, tasks, status>>
vars == <<shared, pc, arg, local, before, overlap>>

NoHeight == -1
Hashes == Blocks \cup {Null}
Task == [op : {"addBlock", "connect"}, block : Blocks]

\* Lines of connectToAncestor: the test for a genesis block (440), the orphan
\* (445), setHeight(0) (449), the genesis block on the chain (450), the previous
\* block (458), setHeight (479), the orphans list (483), the height of the top
\* (497), the climb (503), the top block (510), the walk back (512), the replay
\* (521) and the descendants (535).
Running ==
  {"genesis?", "orphan", "setGenesis", "pushGenesis", "prev", "setHeight",
   "erase", "measure", "climb", "top", "rollback", "replay", "descend"}
\* Between two tasks, or in one of the loops a thread never leaves.
Resting == {"idle", "eraseLoop", "descendLoop", "dangling"}

NoLocal == [top |-> 0, block |-> Null, old |-> Null, chain |-> <<>>]
\* What each thread is stuck in, as Blockchain.tla describes it.
Stuckness ==
  [w \in Workers |->
    CASE pc[w] = "descendLoop" -> [loop |-> "descendants", at |-> arg[w]]
      [] pc[w] = "eraseLoop" -> [loop |-> "erase", at |-> arg[w]]
      [] pc[w] = "dangling" -> [loop |-> "dangling", at |-> arg[w]]
      [] OTHER -> [loop |-> "idle", at |-> Null]]

NoSnapshot == [known |-> {}, height |-> <<>>, mainChain |-> <<>>,
               orphanBlocks |-> <<>>, tasks |-> {}, worker |-> <<>>]
Snapshot == [known |-> known, height |-> height, mainChain |-> mainChain,
             orphanBlocks |-> orphanBlocks, tasks |-> tasks, worker |-> Stuckness]

inChain(b) == b \in Blocks /\ height[b] # NoHeight

Exclusive(w) == overlap \/ \A v \in Workers \ {w} : pc[v] \in Resting

-----------------------------------------------------------------------------
Init ==
  /\ known = {}
  /\ height = [b \in Blocks |-> NoHeight]
  /\ mainChain = <<>>
  /\ orphanBlocks = [p \in Hashes |-> <<>>]
  /\ tasks = {}
  /\ status = "running"
  /\ pc = [w \in Workers |-> "idle"]
  /\ arg = [w \in Workers |-> Null]
  /\ local = [w \in Workers |-> NoLocal]
  /\ before = NoSnapshot
  /\ overlap \in BOOLEAN

At(w, label) == status = "running" /\ pc[w] = label /\ Exclusive(w)
Goto(w, label) == pc' = [pc EXCEPT ![w] = label]
Stop(w, label) == Goto(w, label) /\ before' = NoSnapshot
Finish(w) ==
  /\ Stop(w, "idle")
  /\ arg' = [arg EXCEPT ![w] = Null]
  /\ local' = [local EXCEPT ![w] = NoLocal]

Comes(b) == overlap => b \in Few

Begin(w, b) ==
  /\ Goto(w, "genesis?")
  /\ arg' = [arg EXCEPT ![w] = b]
  /\ before' = IF overlap THEN NoSnapshot ELSE Snapshot
  /\ UNCHANGED <<height, mainChain, orphanBlocks, status, local>>

\* Headers::apply, one header of the message after the other.
ReceiveHeader(w, h) ==
  /\ At(w, "idle") /\ Comes(h)
  /\ known' = known \cup {h}
  /\ UNCHANGED <<height, mainChain, orphanBlocks, tasks, status, pc, arg, local, before>>

\* Block::apply of a block that has a previous one.
ReceiveBlock(w, b) ==
  /\ At(w, "idle") /\ Comes(b) /\ Prev[b] # Null
  /\ tasks' = tasks \cup {[op |-> "addBlock", block |-> b]}
  /\ UNCHANGED <<known, height, mainChain, orphanBlocks, status, pc, arg, local, before>>

\* Block::apply of a block that has none: addBlock at once.
ReceiveRoot(w, b) ==
  /\ At(w, "idle") /\ Comes(b) /\ Prev[b] = Null
  /\ known' = known \cup {b}
  /\ UNCHANGED tasks
  /\ Begin(w, b)

RunAddBlock(w, b) ==
  LET task == [op |-> "addBlock", block |-> b]
  IN  /\ At(w, "idle") /\ task \in tasks
      /\ tasks' = tasks \ {task}
      /\ known' = known \cup {b}
      /\ Begin(w, b)

RunConnect(w, b) ==
  LET task == [op |-> "connect", block |-> b]
  IN  /\ At(w, "idle") /\ task \in tasks
      /\ tasks' = tasks \ {task}
      /\ UNCHANGED known
      /\ Begin(w, b)

-----------------------------------------------------------------------------
\* 440, 442
TestGenesis(w) ==
  LET b == arg[w]
  IN  /\ At(w, "genesis?")
      /\ Goto(w, IF mainChain # <<>> THEN "prev"
                 ELSE IF b = Genesis /\ Prev[b] = Null THEN "setGenesis" ELSE "orphan")
      /\ UNCHANGED <<shared, arg, local, before>>

\* 445
KeepOrphan(w) ==
  LET p == Prev[arg[w]]
  IN  /\ At(w, "orphan")
      /\ Len(orphanBlocks[p]) < MaxOrphans
      /\ \E entries \in {Append(orphanBlocks[p], arg[w]), <<arg[w]>> \o orphanBlocks[p]} :
           orphanBlocks' = [orphanBlocks EXCEPT ![p] = entries]
      /\ Finish(w)
      /\ UNCHANGED <<known, height, mainChain, tasks, status>>

\* 449, 479: setHeight asserts that there is none yet.
GiveHeight(w, h, next) ==
  \/ /\ Asserts /\ height[arg[w]] # NoHeight
     /\ status' = "aborted"
     /\ Finish(w)
     /\ UNCHANGED <<known, height, mainChain, orphanBlocks, tasks>>
  \/ /\ Asserts => height[arg[w]] = NoHeight
     /\ height' = [height EXCEPT ![arg[w]] = h]
     /\ Goto(w, next)
     /\ UNCHANGED <<known, mainChain, orphanBlocks, tasks, status, arg, local, before>>

SetGenesisHeight(w) == At(w, "setGenesis") /\ GiveHeight(w, 0, "pushGenesis")

\* 450
PushGenesis(w) ==
  /\ At(w, "pushGenesis")
  /\ mainChain' = Append(mainChain, arg[w])
  /\ Goto(w, "descend")
  /\ UNCHANGED <<known, height, orphanBlocks, tasks, status, arg, local, before>>

\* Mutant: the previous block need only be registered.
FindPrev_NoInChain(w) ==
  /\ At(w, "prev")
  /\ IF Prev[arg[w]] \in known
       THEN Goto(w, "setHeight") /\ UNCHANGED <<arg, local, before>>
       ELSE Finish(w)
  /\ UNCHANGED shared

\* 458 to 477
FindPrev(w) ==
  LET p == Prev[arg[w]]
  IN  /\ At(w, "prev")
      /\ IF p \in known /\ inChain(p)
           THEN Goto(w, "setHeight") /\ UNCHANGED <<arg, local, before>>
           ELSE Finish(w)
      /\ UNCHANGED shared

SetHeight(w) ==
  At(w, "setHeight") /\ GiveHeight(w, height[Prev[arg[w]]] + 1, "erase")

\* 483 to 491: only the first entry is ever looked at.  The entry it erases may
\* be the one another thread loops on.
EraseOrphan(w) ==
  LET b == arg[w]
      entries == orphanBlocks[Prev[b]]
      first == IF entries = <<>> THEN "none" ELSE IF entries[1] = b THEN "b" ELSE "other"
  IN  /\ At(w, "erase")
      /\ orphanBlocks' = IF first = "b" THEN [orphanBlocks EXCEPT ![Prev[b]] = Tail(@)]
                         ELSE orphanBlocks
      /\ pc' = [v \in Workers |->
                 IF v = w THEN IF first = "other" THEN "eraseLoop" ELSE "measure"
                 ELSE IF first = "b" /\ pc[v] = "descendLoop" /\ arg[v] = Prev[b]
                      THEN "dangling" ELSE pc[v]]
      /\ arg' = [v \in Workers |-> IF v # w /\ pc'[v] # pc[v] THEN b ELSE arg[v]]
      /\ before' = IF first = "other" THEN NoSnapshot ELSE before
      /\ UNCHANGED <<known, height, mainChain, tasks, status, local>>

\* Mutant: a block must be higher than the top.
Measure_Higher(w) ==
  LET top == Len(mainChain) - 1
  IN  /\ At(w, "measure")
      /\ local' = [local EXCEPT ![w].top = top, ![w].block = arg[w]]
      /\ Goto(w, IF mainChain # <<>> /\ height[arg[w]] > top THEN "climb" ELSE "descend")
      /\ UNCHANGED <<shared, arg, before>>

\* 497, 501: the size of an empty chain, less one, is the largest size_t, which no block
\* reaches.
Measure(w) ==
  LET top == Len(mainChain) - 1
  IN  /\ At(w, "measure")
      /\ local' = [local EXCEPT ![w].top = top, ![w].block = arg[w]]
      /\ Goto(w, IF mainChain # <<>> /\ height[arg[w]] >= top THEN "climb" ELSE "descend")
      /\ UNCHANGED <<shared, arg, before>>

\* getBlockHeader(block->prev()): null when the hash is not registered.
PrevHeader(b) == IF Prev[b] \in known THEN Prev[b] ELSE Null

\* 503 to 507
Climb(w) ==
  LET b == local[w].block
  IN  /\ At(w, "climb")
      /\ \/ /\ b # Null /\ height[b] > local[w].top
            /\ local' = [local EXCEPT ![w].chain = <<b>> \o @,
                                      ![w].block = PrevHeader(b)]
            /\ UNCHANGED pc
         \/ /\ b = Null \/ height[b] <= local[w].top
            /\ Goto(w, "top")
            /\ UNCHANGED local
      /\ UNCHANGED <<shared, arg, before>>

\* 510
ReadTop(w) ==
  /\ At(w, "top")
  /\ local' = [local EXCEPT ![w].old = IF mainChain = <<>> THEN Null
                                       ELSE mainChain[Len(mainChain)]]
  /\ Goto(w, "rollback")
  /\ UNCHANGED <<shared, arg, before>>

\* 512 to 519.  pop_back of an empty vector has no meaning; the process ends.
Rollback(w) ==
  LET b == local[w].block
      old == local[w].old
      apart == b # Null /\ old # Null /\ b # old
  IN  /\ At(w, "rollback")
      /\ \/ /\ apart /\ mainChain # <<>>
            /\ local' = [local EXCEPT ![w].chain = <<b>> \o @,
                                      ![w].block = PrevHeader(b),
                                      ![w].old = PrevHeader(old)]
            /\ mainChain' = SubSeq(mainChain, 1, Len(mainChain) - 1)
            /\ UNCHANGED <<pc, status>>
         \/ /\ apart /\ mainChain = <<>>
            /\ status' = "crashed"
            /\ UNCHANGED <<mainChain, local, pc>>
         \/ /\ ~apart
            /\ Goto(w, "replay")
            /\ UNCHANGED <<mainChain, local, status>>
      /\ UNCHANGED <<known, height, orphanBlocks, tasks, arg, before>>

\* 521 to 528, with the assertion at 525.
Replay(w) ==
  LET chain == local[w].chain
  IN  /\ At(w, "replay")
      /\ \/ /\ chain # <<>> /\ (Asserts => height[chain[1]] = Len(mainChain))
            /\ mainChain' = Append(mainChain, chain[1])
            /\ local' = [local EXCEPT ![w].chain = Tail(@)]
            /\ UNCHANGED <<pc, status>>
         \/ /\ chain # <<>> /\ Asserts /\ height[chain[1]] # Len(mainChain)
            /\ status' = "aborted"
            /\ UNCHANGED <<mainChain, local, pc>>
         \/ /\ chain = <<>>
            /\ Goto(w, "descend")
            /\ UNCHANGED <<mainChain, local, status>>
      /\ UNCHANGED <<known, height, orphanBlocks, tasks, arg, before>>

\* 535, 536
FindDescendants(w) ==
  /\ At(w, "descend")
  /\ IF orphanBlocks[arg[w]] = <<>>
       THEN Finish(w)
       ELSE Stop(w, "descendLoop") /\ local' = [local EXCEPT ![w] = NoLocal]
                                   /\ UNCHANGED arg
  /\ UNCHANGED shared

\* 538: one more turn.  The entry is still there unless it was erased.
EnqueueDescendant(w) ==
  /\ At(w, "descendLoop")
  /\ tasks' = tasks \cup {[op |-> "connect", block |-> orphanBlocks[arg[w]][1]]}
  /\ UNCHANGED <<known, height, mainChain, orphanBlocks, status, pc, arg, local, before>>

\* The turn that reads an erased entry: the process dies, or the old id is read.
ReadErased(w) ==
  /\ At(w, "dangling")
  /\ \/ status' = "crashed" /\ UNCHANGED tasks
     \/ /\ tasks' = tasks \cup {[op |-> "connect", block |-> arg[w]]}
        /\ UNCHANGED status
  /\ UNCHANGED <<known, height, mainChain, orphanBlocks, pc, arg, local, before>>

Step(w) ==
  \/ TestGenesis(w) \/ KeepOrphan(w) \/ SetGenesisHeight(w) \/ PushGenesis(w)
  \/ FindPrev(w) \/ SetHeight(w) \/ EraseOrphan(w) \/ Measure(w) \/ Climb(w)
  \/ ReadTop(w) \/ Rollback(w) \/ Replay(w) \/ FindDescendants(w)
  \/ EnqueueDescendant(w) \/ ReadErased(w)

Next ==
  /\ UNCHANGED overlap
  /\ \E w \in Workers :
       \/ \E h \in Blocks : ReceiveHeader(w, h)
       \/ \E b \in Blocks :
            \/ ReceiveBlock(w, b) \/ ReceiveRoot(w, b)
            \/ RunAddBlock(w, b) \/ RunConnect(w, b)
       \/ Step(w)

Spec == Init /\ [][Next]_vars

-----------------------------------------------------------------------------
\* The shared state keeps its type and so do the locals: only blocks are put on
\* the stack "chain", and a thread loops over the descendants of a block only
\* where the list has an entry for it.
TypeOK ==
  /\ known \subseteq Blocks
  /\ height \in [Blocks -> Nat \cup {NoHeight}]
  /\ mainChain \in Seq(Blocks)
  /\ orphanBlocks \in [Hashes -> Seq(Blocks)]
  /\ tasks \subseteq Task
  /\ status \in {"running", "aborted", "crashed"}
  /\ pc \in [Workers -> Running \cup Resting]
  /\ arg \in [Workers -> Hashes]
  /\ \A w \in Workers : local[w].chain \in Seq(Blocks) /\ local[w].block \in Hashes
  /\ \A w \in Workers : pc[w] = "descendLoop" => orphanBlocks[arg[w]] # <<>>

Connected == {b \in Blocks : height[b] # NoHeight}

\* Safety with overlapping runs: a height depends on the previous block alone, so
\* no interleaving gives a block a height its ancestry does not have.
HeightsFollowPrev ==
  \A b \in Connected :
    \/ b = Genesis /\ height[b] = 0
    \/ Prev[b] \in Connected /\ height[b] = height[Prev[b]] + 1

\* Blockchain.cpp:525 (assert(block->height() == am._mainChain.size())): the
\* replay puts each block at the position of its height.
ReplayMeetsHeight ==
  \A w \in Workers :
    pc[w] = "replay" /\ local[w].chain # <<>> =>
      height[local[w].chain[1]] = Len(mainChain)

-----------------------------------------------------------------------------
\* Refinement: seen when no run is in progress, the steps are those of Blockchain.  While
\* a run is in progress the abstract state is the one before it.  Of runs that overlap
\* nothing is claimed: they are seen as the initial state.
InRun == \E w \in Workers : pc[w] \in Running
abs(first, now, then) == IF overlap THEN first ELSE IF InRun THEN then ELSE now
Atomic == INSTANCE Blockchain WITH
  known <- abs({}, known, before.known),
  height <- abs([b \in Blocks |-> NoHeight], height, before.height),
  mainChain <- abs(<<>>, mainChain, before.mainChain),
  orphanBlocks <- abs([p \in Hashes |-> <<>>], orphanBlocks, before.orphanBlocks),
  tasks <- abs({}, tasks, before.tasks),
  worker <- abs([w \in Workers |-> [loop |-> "idle", at |-> Null]], Stuckness, before.worker),
  status <- abs("running", status, status),
  transactions <- {},
  Txs <- {},
  TxOf <- [b \in Blocks |-> {}],
  Malformed <- {}

\* Runs of connectToAncestor that do not overlap, loops and all, do what the
\* steps of Blockchain.tla say: the climb, the walk back and the replay together
\* put the branch of the block on the main chain.
ImplementsBlockchain == Atomic!Spec
=============================================================================
