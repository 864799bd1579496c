-------------------------- MODULE BlockchainProofs --------------------------
(***************************************************************************)
(* Proofs about Blockchain: for any set of blocks and any number of        *)
(* threads, the main chain is a branch from the genesis block, and heights *)
(* follow the previous hashes and never change.                            *)
(*                                                                         *)
(* MainChainIsBranch is not inductive: a reorganisation builds the new     *)
(* chain out of blocks of a side branch, so the invariant must say that    *)
(* every connected block, on the main chain or off it, has a whole branch  *)
(* under it (HasBranch).  That blocks waiting in the queue or among the    *)
(* orphans are registered (Prepared) makes HeightsFollowPrev inductive.    *)
(* What one step does to the top of the main chain (TopMoves) then gives   *)
(* TopIsHighest, and that two branches which share a block share all below *)
(* it (SameBelow) gives ChainNeverShrinks.                                 *)
(***************************************************************************)
EXTENDS Blockchain, WellFoundedInduction, TLAPS

\* c is a branch of connected blocks from the genesis block up to b.
IsBranch(c, b) ==
  /\ c \in [1..height[b] + 1 -> Connected]
  /\ c[1] = Genesis
  /\ c[height[b] + 1] = b
  /\ \A i \in 1..height[b] + 1 : height[c[i]] = i - 1
  /\ \A i \in 1..height[b] : Prev[c[i + 1]] = c[i]

HasBranch == \A b \in Connected : \E c : IsBranch(c, b)

\* A thread looping over descendants points at an entry.
LoopHasEntry ==
  \A w \in Workers :
    worker[w].loop = "descendants" => orphanBlocks[worker[w].at] # <<>>

\* Blocks that addBlock has been through.
Prepared(b) == b \in known /\ TxOf[b] \subseteq transactions

TasksPrepared == \A t \in tasks : t.op = "connect" => Prepared(t.block)

OrphansPrepared ==
  \A p \in Hashes : \A i \in DOMAIN orphanBlocks[p] : Prepared(orphanBlocks[p][i])

DanglingPrepared ==
  \A w \in Workers : worker[w].loop = "dangling" => Prepared(worker[w].at)

AllPrepared ==
  /\ \A b \in Connected : Prepared(b)
  /\ TasksPrepared
  /\ OrphansPrepared
  /\ DanglingPrepared

EmptyOrGenesis ==
  IF mainChain = <<>> THEN Connected = {} ELSE Genesis \in Connected

IInv ==
  /\ TypeOK
  /\ LoopHasEntry
  /\ AllPrepared
  /\ EmptyOrGenesis
  /\ HeightsFollowPrev
  /\ HasBranch
  /\ MainChainIsBranch

-----------------------------------------------------------------------------
\* Every non-empty set of naturals has a least element.
LEMMA NatHasMin ==
  ASSUME NEW T, T \subseteq Nat, T # {}
  PROVE  \E x \in T : \A y \in T : x <= y
<1> DEFINE R == {ss \in Nat \X Nat : ss[1] < ss[2]}
<1>1. IsWellFoundedOn(R, Nat)
  BY NatLessThanWellFounded DEF OpToRel
<1> HIDE DEF R
<1>2. PICK x \in T : \A y \in T : ~ (<<y, x>> \in R)
  BY <1>1, WFMin, Zenon
<1>3. \A y \in T : ~ (y < x)
  BY <1>2 DEF R
<1> QED BY <1>3

\* Where there is a branch up to b, Path follows it: the reorganisation finds
\* exactly the blocks that lead from the genesis block to b.
LEMMA PathIsBranch ==
  ASSUME NEW b \in Blocks, NEW n \in Nat \ {0}, NEW c \in [1..n -> Blocks],
         c[n] = b, \A i \in 1..n - 1 : Prev[c[i + 1]] = c[i]
  PROVE  Path(b, n) = c
<1> DEFINE F(p) == [i \in 1..n |-> IF i = n THEN b ELSE Prev[p[i + 1]]]
           P == Path(b, n)
<1>1. c = F(c)
  OBVIOUS
<1>2. P = CHOOSE p : p = F(p)
  BY DEF Path
<1>3. P = F(P)
  <2> HIDE DEF F
  <2> QED BY <1>1, <1>2
<1> HIDE DEF P
<1> DEFINE Differ == {k \in Nat : k < n /\ P[n - k] # c[n - k]}
<1>4. Differ = {}
  <2> SUFFICES ASSUME Differ # {} PROVE FALSE
    OBVIOUS
  <2>1. PICK k \in Differ : \A j \in Differ : k <= j
    BY NatHasMin
  <2>2. k # 0
    BY <1>3, <2>1
  <2>3. P[n - (k - 1)] = c[n - (k - 1)]
    BY <2>1, <2>2
  <2>4. P[n - k] = Prev[P[n - k + 1]] /\ c[n - k] = Prev[c[n - k + 1]]
    BY <1>3, <2>1, <2>2
  <2>5. n - (k - 1) = n - k + 1
    BY <2>1
  <2> QED BY <2>1, <2>3, <2>4, <2>5
<1>5. \A i \in 1..n : P[i] = c[i]
  <2> TAKE i \in 1..n
  <2>1. n - i \in Nat /\ n - i < n /\ n - (n - i) = i
    OBVIOUS
  <2> QED BY <1>4, <2>1
<1>6. P = [i \in 1..n |-> P[i]] /\ c = [i \in 1..n |-> c[i]]
  BY <1>3
<1>7. P = c
  BY <1>5, <1>6
<1> QED BY <1>7 DEF P

-----------------------------------------------------------------------------
\* A block that can be connected gets the one height its previous block allows,
\* and no other height changes.
LEMMA SetHeightKeeps ==
  ASSUME IInv, NEW b \in Blocks, CanConnect(b), SetHeight(b)
  PROVE  /\ height' \in [Blocks -> Nat \cup {NoHeight}]
         /\ Prev[b] \in Connected
         /\ height'[b] = height[Prev[b]] + 1
         /\ \A x \in Connected : height'[x] = height[x]
         /\ Connected' = Connected \cup {b}
<1> USE DEF IInv, TypeOK, NoHeight
<1>1. Prev[b] \in Blocks /\ height[Prev[b]] \in Nat
  BY DEF CanConnect, inChain
<1>2. b # Genesis
  BY <1>1, BlocksAssumption
<1>3. height' = [height EXCEPT ![b] = height[Prev[b]] + 1]
  BY DEF SetHeight
<1>4. height[b] # NoHeight => height[b] = height[Prev[b]] + 1
  BY <1>2 DEF HeightsFollowPrev, Connected
<1> QED BY <1>1, <1>3, <1>4 DEF Connected

\* The branch up to the previous block, with b on it, is the branch up to b.
LEMMA BranchGrows ==
  ASSUME IInv, NEW b \in Blocks, CanConnect(b), SetHeight(b)
  PROVE  \E c : IsBranch(c, b)'
<1> DEFINE p == Prev[b]
           n == height[p] + 1
<1>1. /\ height' \in [Blocks -> Nat \cup {NoHeight}]
      /\ p \in Connected
      /\ height'[b] = n
      /\ \A x \in Connected : height'[x] = height[x]
      /\ Connected' = Connected \cup {b}
  BY SetHeightKeeps
<1>2. height[p] \in Nat /\ n \in Nat \ {0} /\ n - 1 = height[p]
  BY <1>1 DEF Connected, IInv, TypeOK, NoHeight
<1>3. PICK c : IsBranch(c, p)
  BY <1>1 DEF IInv, HasBranch
<1> DEFINE d == [i \in 1..n + 1 |-> IF i = n + 1 THEN b ELSE c[i]]
<1>4. \A i \in 1..n : c[i] \in Connected /\ height[c[i]] = i - 1
  BY <1>3 DEF IsBranch
<1>5. d \in [1..n + 1 -> Connected']
  BY <1>1, <1>2, <1>4
<1>6. d[1] = Genesis /\ d[n + 1] = b
  BY <1>2, <1>3 DEF IsBranch
<1>7. \A i \in 1..n + 1 : height'[d[i]] = i - 1
  BY <1>1, <1>2, <1>4
<1>8. \A i \in 1..n : Prev[d[i + 1]] = d[i]
  <2> TAKE i \in 1..n
  <2>1. CASE i = n
    BY <2>1, <1>2, <1>3 DEF IsBranch
  <2>2. CASE i # n
    <3>1. i \in 1..height[p] /\ i + 1 \in 1..n
      BY <2>2, <1>2
    <3>2. Prev[c[i + 1]] = c[i]
      BY <3>1, <1>3 DEF IsBranch
    <3>3. d[i + 1] = c[i + 1] /\ d[i] = c[i]
      BY <3>1, <1>2
    <3> QED BY <3>2, <3>3
  <2> QED BY <2>1, <2>2
<1> HIDE DEF d
<1>9. PICK e : e = d
  OBVIOUS
<1>10. IsBranch(e, b)'
  BY <1>1, <1>5, <1>6, <1>7, <1>8, <1>9 DEF IsBranch
<1> QED BY <1>10

\* Branches that are there stay, for their heights do not change.
LEMMA BranchesStay ==
  ASSUME IInv, NEW b \in Blocks, CanConnect(b), SetHeight(b)
  PROVE  HasBranch'
<1>1. /\ \A x \in Connected : height'[x] = height[x]
      /\ Connected' = Connected \cup {b}
  BY SetHeightKeeps
<1>2. \E c : IsBranch(c, b)'
  BY BranchGrows
<1>3. ASSUME NEW x \in Connected PROVE \E c : IsBranch(c, x)'
  <2>1. PICK c : IsBranch(c, x)
    BY DEF IInv, HasBranch
  <2>2. height'[x] = height[x] /\ height[x] \in Nat
    BY <1>1 DEF Connected, IInv, TypeOK, NoHeight
  <2>3. \A i \in 1..height[x] + 1 : c[i] \in Connected /\ height'[c[i]] = i - 1
    BY <1>1, <2>1 DEF IsBranch
  <2>4. c \in [1..height[x] + 1 -> Connected']
    BY <1>1, <2>1 DEF IsBranch
  <2>5. IsBranch(c, x)'
    BY <2>1, <2>2, <2>3, <2>4 DEF IsBranch
  <2> QED BY <2>5
<1>4. \A x \in Connected' : \E c : IsBranch(c, x)'
  BY <1>1, <1>2, <1>3
<1> QED BY <1>4 DEF HasBranch

\* What every way of giving b its height, followed by an extension, a
\* reorganisation or nothing, preserves.
LEMMA ConnectKeepsChain ==
  ASSUME IInv, NEW b \in Blocks, CanConnect(b), SetHeight(b),
         ExtendOrReorganise(b) \/ UNCHANGED mainChain
  PROVE  /\ mainChain' \in Seq(Blocks)
         /\ mainChain' # <<>>
         /\ MainChainIsBranch'
<1>1. /\ height' \in [Blocks -> Nat \cup {NoHeight}]
      /\ Prev[b] \in Connected
      /\ height'[b] = height[Prev[b]] + 1
      /\ \A x \in Connected : height'[x] = height[x]
      /\ Connected' = Connected \cup {b}
  BY SetHeightKeeps
<1>2. mainChain \in Seq(Blocks) /\ mainChain # <<>> /\ MainChainIsBranch
  BY DEF IInv, TypeOK, CanConnect
<1>3. CASE UNCHANGED mainChain
  <2>1. \A i \in 1..Len(mainChain) :
          mainChain[i] \in Connected /\ height[mainChain[i]] = i - 1
    BY <1>2 DEF MainChainIsBranch, Connected, NoHeight
  <2>2. \A i \in 1..Len(mainChain') : height'[mainChain'[i]] = i - 1
    BY <1>1, <1>3, <2>1
  <2> QED BY <1>2, <1>3, <2>2 DEF MainChainIsBranch
<1>4. CASE mainChain' = Path(b, height'[b] + 1)
  <2> DEFINE n == height'[b] + 1
  <2>1. n \in Nat \ {0} /\ n - 1 = height'[b]
    BY <1>1 DEF Connected, IInv, TypeOK, NoHeight
  <2>2. PICK c : IsBranch(c, b)'
    BY BranchGrows
  <2>3. c \in [1..n -> Blocks]
    BY <2>2, <1>1 DEF IsBranch, Connected
  <2>4. c[n] = b /\ \A i \in 1..n - 1 : Prev[c[i + 1]] = c[i]
    BY <2>1, <2>2 DEF IsBranch
  <2>5. mainChain' = c
    BY <1>4, <2>1, <2>3, <2>4, PathIsBranch
  <2>6. mainChain' \in Seq(Blocks) /\ Len(mainChain') = n
    BY <2>1, <2>3, <2>5
  <2>7. mainChain'[1] = Genesis
    BY <2>2, <2>5 DEF IsBranch
  <2>8. \A i \in 1..n : height'[mainChain'[i]] = i - 1
    BY <2>2, <2>5 DEF IsBranch
  <2> QED BY <2>1, <2>4, <2>5, <2>6, <2>7, <2>8 DEF MainChainIsBranch
<1> QED BY <1>3, <1>4 DEF ExtendOrReorganise

-----------------------------------------------------------------------------
\* The part of the invariant about heights and chain: it holds after any run of
\* connectToAncestor and after any step that leaves both alone.
HeightFollows(b) ==
  \/ b = Genesis /\ height[b] = 0
  \/ Prev[b] \in Connected /\ height[b] = height[Prev[b]] + 1

Chained ==
  /\ height \in [Blocks -> Nat \cup {NoHeight}]
  /\ mainChain \in Seq(Blocks)
  /\ EmptyOrGenesis
  /\ \A b \in Connected : HeightFollows(b)
  /\ HasBranch
  /\ MainChainIsBranch

\* What leaves heights and the main chain alone leaves the branches alone.
LEMMA ChainedFrame ==
  ASSUME IInv, UNCHANGED <<height, mainChain>>
  PROVE  Chained' /\ \A x \in Connected : height'[x] = height[x]
<1>1. Connected' = Connected
  BY DEF Connected
<1>2. HasBranch'
  BY <1>1 DEF IInv, HasBranch, IsBranch
<1>3. \A x \in Connected' : HeightFollows(x)'
  BY <1>1 DEF IInv, HeightsFollowPrev, HeightFollows
<1>4. EmptyOrGenesis' /\ MainChainIsBranch'
  BY <1>1 DEF IInv, EmptyOrGenesis, MainChainIsBranch
<1> QED BY <1>2, <1>3, <1>4 DEF Chained, IInv, TypeOK

\* A block connected on its parent leaves a main chain that is a branch.
LEMMA ConnectIsChained ==
  ASSUME IInv, NEW b \in Blocks, CanConnect(b), SetHeight(b),
         ExtendOrReorganise(b) \/ UNCHANGED mainChain
  PROVE  /\ Chained'
         /\ \A x \in Connected : height'[x] = height[x]
         /\ Connected' = Connected \cup {b}
<1>1. /\ height' \in [Blocks -> Nat \cup {NoHeight}]
      /\ Prev[b] \in Connected
      /\ height'[b] = height[Prev[b]] + 1
      /\ \A x \in Connected : height'[x] = height[x]
      /\ Connected' = Connected \cup {b}
  BY SetHeightKeeps
<1>2. HasBranch'
  BY BranchesStay
<1>3. mainChain' \in Seq(Blocks) /\ mainChain' # <<>> /\ MainChainIsBranch'
  BY ConnectKeepsChain
<1>4. EmptyOrGenesis'
  BY <1>1, <1>3 DEF EmptyOrGenesis, IInv, CanConnect
<1>5. \A x \in Connected' : HeightFollows(x)'
  <2>1. \A x \in Connected : HeightFollows(x)
    BY DEF IInv, HeightsFollowPrev, HeightFollows
  <2> QED BY <1>1, <2>1 DEF HeightFollows
<1> QED BY <1>1, <1>2, <1>3, <1>4, <1>5 DEF Chained

\* The genesis block is a main chain of its own.
LEMMA GenesisIsChained ==
  ASSUME IInv, NEW w \in Workers, NEW b \in Blocks, ConnectGenesis(w, b)
  PROVE  /\ Chained'
         /\ \A x \in Connected : height'[x] = height[x]
         /\ Connected' = {b}
<1>1. /\ Connected = {} /\ b = Genesis
      /\ height \in [Blocks -> Nat \cup {NoHeight}]
      /\ height' = [height EXCEPT ![b] = 0]
      /\ mainChain' = <<b>>
  BY DEF ConnectGenesis, IsGenesis, IInv, EmptyOrGenesis, TypeOK
<1>2. \A x \in Blocks : height[x] = NoHeight
  BY <1>1 DEF Connected
<1>3. height'[b] = 0 /\ Connected' = {b}
  BY <1>1, <1>2 DEF Connected, NoHeight
<1>4. HasBranch'
  <2>1. PICK e : e = [i \in 1..1 |-> b]
    OBVIOUS
  <2>2. e \in [1..height'[b] + 1 -> Connected']
    BY <1>3, <2>1
  <2>3. /\ \A i \in 1..height'[b] + 1 : height'[e[i]] = i - 1
        /\ e[1] = b /\ e[height'[b] + 1] = b
    BY <1>3, <2>1
  <2>4. \A i \in 1..height'[b] : Prev[e[i + 1]] = e[i]
    BY <1>3
  <2>5. IsBranch(e, b)'
    BY <1>1, <2>2, <2>3, <2>4 DEF IsBranch
  <2> QED BY <1>3, <2>5 DEF HasBranch
<1>5. MainChainIsBranch'
  BY <1>1, <1>3 DEF MainChainIsBranch
<1>6. height' \in [Blocks -> Nat \cup {NoHeight}] /\ mainChain' \in Seq(Blocks)
  BY <1>1
<1>7. EmptyOrGenesis'
  BY <1>1, <1>3 DEF EmptyOrGenesis
<1>8. \A x \in Connected' : HeightFollows(x)'
  BY <1>1, <1>3 DEF HeightFollows
<1> QED BY <1>1, <1>3, <1>4, <1>5, <1>6, <1>7, <1>8 DEF Chained

\* The part of the invariant about orphans and the threads looping over them.
Attached ==
  /\ orphanBlocks \in [Hashes -> Seq(Blocks)]
  /\ worker \in [Workers -> WorkerState]
  /\ LoopHasEntry
  /\ OrphansPrepared
  /\ DanglingPrepared

\* Blocks that are waiting stay prepared while the index only grows.
LEMMA AttachedFrame ==
  ASSUME IInv, UNCHANGED <<orphanBlocks, worker>>,
         known \subseteq known', transactions \subseteq transactions'
  PROVE  Attached'
BY DEF IInv, TypeOK, AllPrepared, Attached, LoopHasEntry, OrphansPrepared,
       DanglingPrepared, Prepared

\* A thread that starts to loop over the descendants of b finds an entry there.
LEMMA LoopStarts ==
  ASSUME IInv, NEW w \in Workers, NEW b \in Blocks,
         UNCHANGED orphanBlocks, FindDescendants(w, b),
         known \subseteq known', transactions \subseteq transactions'
  PROVE  Attached'
<1>1. CASE worker' = worker
  BY <1>1, AttachedFrame
<1>2. CASE /\ orphanBlocks'[b] # <<>>
           /\ worker' = [worker EXCEPT ![w] = [loop |-> "descendants", at |-> b]]
  <2>1. worker' \in [Workers -> WorkerState]
    BY <1>2 DEF IInv, TypeOK, WorkerState
  <2>2. LoopHasEntry'
    BY <1>2 DEF IInv, TypeOK, LoopHasEntry
  <2>3. OrphansPrepared' /\ DanglingPrepared'
    BY <1>2 DEF IInv, TypeOK, AllPrepared, OrphansPrepared, DanglingPrepared, Prepared
  <2> QED BY <2>1, <2>2, <2>3 DEF IInv, TypeOK, Attached
<1> QED BY <1>1, <1>2 DEF FindDescendants, Stuck

\* A worker caught in the loop over an erased entry points at a prepared block.
LEMMA EraseLoopStarts ==
  ASSUME IInv, NEW w \in Workers, NEW b \in Blocks,
         UNCHANGED orphanBlocks, worker' = Stuck(w, "erase", b),
         known \subseteq known', transactions \subseteq transactions'
  PROVE  Attached'
<1>1. worker' = [worker EXCEPT ![w] = [loop |-> "erase", at |-> b]]
  BY DEF Stuck
<1>2. worker' \in [Workers -> WorkerState]
  BY <1>1 DEF IInv, TypeOK, WorkerState
<1>3. LoopHasEntry'
  BY <1>1 DEF IInv, TypeOK, LoopHasEntry
<1>4. OrphansPrepared' /\ DanglingPrepared'
  BY <1>1 DEF IInv, TypeOK, AllPrepared, OrphansPrepared, DanglingPrepared, Prepared
<1> QED BY <1>2, <1>3, <1>4 DEF IInv, TypeOK, Attached

\* A block kept as an orphan has been through addBlock.
LEMMA OrphanRecorded ==
  ASSUME IInv, NEW b \in Blocks, RecordOrphan(b), Prepared(b)',
         known \subseteq known', transactions \subseteq transactions'
  PROVE  Attached'
<1> DEFINE p == Prev[b]
<1>1. p \in Hashes
  BY BlocksAssumption DEF Hashes
<1>2. PICK entries \in {Append(orphanBlocks[p], b), <<b>> \o orphanBlocks[p]} :
        orphanBlocks' = [orphanBlocks EXCEPT ![p] = entries]
  BY DEF RecordOrphan
<1>3. orphanBlocks[p] \in Seq(Blocks)
  BY <1>1 DEF IInv, TypeOK
<1>4. /\ entries \in Seq(Blocks) /\ entries # <<>>
      /\ \A i \in DOMAIN entries :
           entries[i] = b \/ \E j \in DOMAIN orphanBlocks[p] : entries[i] = orphanBlocks[p][j]
  <2>1. CASE entries = Append(orphanBlocks[p], b)
    BY <1>3, <2>1
  <2>2. CASE entries = <<b>> \o orphanBlocks[p]
    <3>1. entries \in Seq(Blocks) /\ Len(entries) = 1 + Len(orphanBlocks[p])
      BY <1>3, <2>2
    <3>2. \A i \in 1..Len(entries) : i # 1 => /\ i - 1 \in 1..Len(orphanBlocks[p])
                                              /\ entries[i] = orphanBlocks[p][i - 1]
      BY <1>3, <2>2, <3>1
    <3>3. entries[1] = b
      BY <1>3, <2>2
    <3>4. entries # <<>> /\ DOMAIN entries = 1..Len(entries)
      BY <1>3, <3>1
    <3> QED BY <1>3, <3>1, <3>2, <3>3, <3>4
  <2> QED BY <1>2, <2>1, <2>2
<1>5. orphanBlocks' \in [Hashes -> Seq(Blocks)]
  BY <1>2, <1>4 DEF IInv, TypeOK
<1>6. OrphansPrepared'
  BY <1>1, <1>2, <1>4 DEF IInv, TypeOK, AllPrepared, OrphansPrepared, Prepared
<1>7. worker' = worker
  BY DEF RecordOrphan
<1>8. LoopHasEntry'
  BY <1>1, <1>2, <1>4, <1>7 DEF IInv, TypeOK, LoopHasEntry
<1>9. DanglingPrepared'
  BY <1>7 DEF IInv, AllPrepared, DanglingPrepared, Prepared
<1> QED BY <1>5, <1>6, <1>7, <1>8, <1>9 DEF IInv, TypeOK, Attached

\* Erasing the first entry of a parent leaves no thread looping on that parent.
LEMMA OrphanErased ==
  ASSUME IInv, NEW w \in Workers, NEW b \in Blocks, ConnectOrphan(w, b), Prepared(b)',
         known \subseteq known', transactions \subseteq transactions'
  PROVE  Attached'
<1> DEFINE p == Prev[b]
           left == LeaveDangling(p, b)
<1>1. /\ p \in Hashes /\ orphanBlocks[p] \in Seq(Blocks) /\ orphanBlocks[p] # <<>>
      /\ orphanBlocks' = [orphanBlocks EXCEPT ![p] = Tail(orphanBlocks[p])]
      /\ worker' = IF orphanBlocks'[b] = <<>> THEN left
                   ELSE [left EXCEPT ![w] = [loop |-> "descendants", at |-> b]]
  BY BlocksAssumption DEF ConnectOrphan, Hashes, IInv, TypeOK
<1>2. Tail(orphanBlocks[p]) \in Seq(Blocks)
  BY <1>1
<1>3. \A i \in DOMAIN Tail(orphanBlocks[p]) :
        i + 1 \in DOMAIN orphanBlocks[p] /\ Tail(orphanBlocks[p])[i] = orphanBlocks[p][i + 1]
  BY <1>1
<1>4. orphanBlocks' \in [Hashes -> Seq(Blocks)]
  BY <1>1, <1>2 DEF IInv, TypeOK
<1>5. OrphansPrepared'
  BY <1>1, <1>3 DEF IInv, TypeOK, AllPrepared, OrphansPrepared, Prepared
<1>6. /\ left \in [Workers -> WorkerState]
      /\ \A x \in Workers : left[x].loop = "descendants" =>
                              left[x] = worker[x] /\ worker[x].at # p
      /\ \A x \in Workers : left[x].loop = "dangling" =>
                              left[x].at = b \/ left[x] = worker[x]
  <2>1. left \in [Workers -> WorkerState]
    BY DEF LeaveDangling, IInv, TypeOK, WorkerState
  <2>2. \A x \in Workers : worker[x] \in WorkerState
    BY DEF IInv, TypeOK
  <2>3. \A x \in Workers : worker[x].loop = "descendants" =>
                             worker[x] = [loop |-> "descendants", at |-> worker[x].at]
    BY <2>2 DEF WorkerState, Idle
  <2> QED BY <2>1, <2>3 DEF LeaveDangling
<1> HIDE DEF left
<1>7. worker' \in [Workers -> WorkerState]
  BY <1>1, <1>6 DEF WorkerState
<1>8. DanglingPrepared'
  BY <1>1, <1>6 DEF IInv, AllPrepared, DanglingPrepared, Prepared
<1>9. LoopHasEntry'
  <2> SUFFICES ASSUME NEW x \in Workers, worker'[x].loop = "descendants"
               PROVE  orphanBlocks'[worker'[x].at] # <<>>
    BY DEF LoopHasEntry
  <2>1. CASE worker'[x] = [loop |-> "descendants", at |-> b] /\ orphanBlocks'[b] # <<>>
    BY <2>1
  <2>2. CASE worker'[x] = left[x]
    <3>1. left[x] = worker[x] /\ worker[x].at # p
      BY <1>6, <2>2
    <3>2. worker[x].at \in Hashes
      BY DEF IInv, TypeOK, WorkerState, Idle, Hashes
    <3> QED BY <1>1, <2>2, <3>1, <3>2 DEF IInv, TypeOK, LoopHasEntry
  <2> QED BY <1>1, <1>6, <2>1, <2>2
<1> QED BY <1>4, <1>5, <1>7, <1>8, <1>9 DEF Attached

\* What connectToAncestor(b) preserves once b is registered with its
\* transactions.
LEMMA ConnectKeeps ==
  ASSUME IInv, NEW w \in Workers, NEW b \in Blocks, connectToAncestor(w, b),
         Prepared(b)', known \subseteq known', known' \subseteq Blocks,
         transactions \subseteq transactions'
  PROVE  /\ Chained' /\ Attached'
         /\ \A x \in Connected : height'[x] = height[x]
         /\ Connected' \subseteq Connected \cup {b}
         /\ status' \in {"running", "aborted", "crashed"}
<1>1. CASE RecordOrphan(b)
  <2>1. Attached'
    BY <1>1, OrphanRecorded
  <2>2. UNCHANGED <<height, mainChain, status>>
    BY <1>1 DEF RecordOrphan
  <2> QED BY <2>1, <2>2, ChainedFrame DEF Connected, IInv, TypeOK
<1>2. CASE ConnectGenesis(w, b)
  <2>1. Attached'
    BY <1>2, LoopStarts DEF ConnectGenesis
  <2>2. UNCHANGED status
    BY <1>2 DEF ConnectGenesis
  <2> QED BY <1>2, <2>1, <2>2, GenesisIsChained DEF IInv, TypeOK
<1>3. CASE RefuseUnconnected(b) \/ AssertHeightUnset(b)
  <2>1. /\ UNCHANGED <<height, mainChain, orphanBlocks, worker>>
        /\ status' \in {"running", "aborted", "crashed"}
    BY <1>3 DEF RefuseUnconnected, AssertHeightUnset, IInv, TypeOK
  <2> QED BY <2>1, ChainedFrame, AttachedFrame DEF Connected
<1>4. CASE LoopOnFirstOrphan(w, b)
  <2>1. /\ CanConnect(b) /\ SetHeight(b)
        /\ worker' = Stuck(w, "erase", b)
        /\ UNCHANGED <<mainChain, orphanBlocks, status>>
    BY <1>4 DEF LoopOnFirstOrphan
  <2> QED BY <2>1, ConnectIsChained, EraseLoopStarts DEF IInv, TypeOK
<1>5. CASE ConnectToParent(w, b)
  <2>1. /\ CanConnect(b) /\ SetHeight(b) /\ ExtendOrReorganise(b)
        /\ FindDescendants(w, b)
        /\ UNCHANGED <<orphanBlocks, status>>
    BY <1>5 DEF ConnectToParent
  <2> QED BY <2>1, ConnectIsChained, LoopStarts DEF IInv, TypeOK
<1>6. CASE ConnectOrphan(w, b)
  <2>1. CanConnect(b) /\ SetHeight(b) /\ ExtendOrReorganise(b) /\ UNCHANGED status
    BY <1>6 DEF ConnectOrphan
  <2>2. Attached'
    BY <1>6, OrphanErased
  <2> QED BY <2>1, <2>2, ConnectIsChained DEF IInv, TypeOK
<1> QED BY <1>1, <1>2, <1>3, <1>4, <1>5, <1>6 DEF connectToAncestor

\* What addBlock preserves, whether it takes the block or refuses it.
LEMMA AddBlockKeeps ==
  ASSUME IInv, NEW w \in Workers, NEW b \in Blocks, addBlock(w, b)
  PROVE  /\ Chained' /\ Attached'
         /\ \A x \in Connected : height'[x] = height[x]
         /\ known \subseteq known' /\ known' \subseteq Blocks
         /\ transactions \subseteq transactions' /\ transactions' \subseteq Txs
         /\ \A x \in Connected' : Prepared(x)'
         /\ status' \in {"running", "aborted", "crashed"}
<1>1. CASE UNCHANGED <<known, height, mainChain, orphanBlocks, transactions,
                       worker, status>>
  <2>1. Connected' = Connected
    BY <1>1 DEF Connected
  <2>2. \A x \in Connected' : Prepared(x)'
    BY <1>1, <2>1 DEF IInv, AllPrepared, Prepared
  <2> QED BY <1>1, <2>2, ChainedFrame, AttachedFrame DEF IInv, TypeOK
<1>2. CASE /\ known' = known \cup {b}
           /\ transactions' = transactions \cup TxOf[b]
           /\ connectToAncestor(w, b)
  <2>1. /\ known \subseteq known' /\ known' \subseteq Blocks
        /\ transactions \subseteq transactions' /\ transactions' \subseteq Txs
        /\ Prepared(b)'
    BY <1>2, TxAssumption DEF IInv, TypeOK, Prepared
  <2>2. /\ Chained' /\ Attached'
        /\ \A x \in Connected : height'[x] = height[x]
        /\ Connected' \subseteq Connected \cup {b}
        /\ status' \in {"running", "aborted", "crashed"}
    BY <1>2, <2>1, ConnectKeeps
  <2>3. \A x \in Connected' : Prepared(x)'
    BY <2>1, <2>2 DEF IInv, AllPrepared, Prepared
  <2> QED BY <2>1, <2>2, <2>3
<1> QED BY <1>1, <1>2 DEF addBlock

\* The parts put together again.
LEMMA PartsMakeInvariant ==
  ASSUME Chained', Attached', known' \subseteq Blocks, transactions' \subseteq Txs,
         tasks' \subseteq Task, TasksPrepared', (\A b \in Connected : Prepared(b))',
         status' \in {"running", "aborted", "crashed"}
  PROVE  IInv'
<1>1. HeightsFollowPrev'
  BY DEF Chained, HeightFollows, HeightsFollowPrev, Prepared
<1> QED BY <1>1 DEF IInv, TypeOK, AllPrepared, Chained, Attached

\* The empty index satisfies the invariant.
LEMMA InitInvariant == Init => IInv
<1> SUFFICES ASSUME Init PROVE IInv
  OBVIOUS
<1>1. Connected = {}
  BY DEF Init, Connected
<1>2. TypeOK
  BY DEF Init, TypeOK, WorkerState, NoHeight
<1>3. LoopHasEntry /\ AllPrepared
  BY <1>1 DEF Init, LoopHasEntry, AllPrepared, TasksPrepared, OrphansPrepared,
              DanglingPrepared, Idle
<1> QED BY <1>1, <1>2, <1>3 DEF Init, IInv, EmptyOrGenesis, HeightsFollowPrev,
                                HasBranch, MainChainIsBranch

-----------------------------------------------------------------------------
HeightsKept == \A b \in Connected : height'[b] = height[b]

\* A step that leaves heights, chain, orphans and threads alone, and may add
\* tasks, headers and transactions.
LEMMA QuietStep ==
  ASSUME IInv, UNCHANGED <<height, mainChain, orphanBlocks, worker>>,
         known \subseteq known', known' \subseteq Blocks,
         transactions \subseteq transactions', transactions' \subseteq Txs,
         tasks' \subseteq Task, TasksPrepared', status' \in {"running", "aborted", "crashed"}
  PROVE  IInv' /\ HeightsKept
<1>1. Chained' /\ Attached' /\ HeightsKept
  BY ChainedFrame, AttachedFrame DEF HeightsKept
<1>2. Connected' = Connected
  BY DEF Connected
<1>3. (\A b \in Connected : Prepared(b))'
  BY <1>2 DEF IInv, AllPrepared, Prepared
<1> QED BY <1>1, <1>3, PartsMakeInvariant

\* A block that a peer sent: its header, its transactions and its task.
LEMMA ReceiveBlockKeeps ==
  ASSUME IInv, NEW w \in Workers, NEW b \in Blocks, ReceiveBlock(w, b)
  PROVE  IInv' /\ HeightsKept
<1>1. CASE addBlock(w, b) /\ UNCHANGED tasks
  <2>1. /\ Chained' /\ Attached' /\ HeightsKept
        /\ known \subseteq known' /\ known' \subseteq Blocks
        /\ transactions \subseteq transactions' /\ transactions' \subseteq Txs
        /\ (\A x \in Connected : Prepared(x))'
        /\ status' \in {"running", "aborted", "crashed"}
    BY <1>1, AddBlockKeeps DEF HeightsKept
  <2>2. tasks' \subseteq Task /\ TasksPrepared'
    BY <1>1, <2>1 DEF IInv, TypeOK, AllPrepared, TasksPrepared, Prepared
  <2> QED BY <2>1, <2>2, PartsMakeInvariant
<1>2. CASE /\ tasks' = tasks \cup {[op |-> "addBlock", block |-> b]}
           /\ UNCHANGED <<known, height, mainChain, orphanBlocks, transactions,
                          worker, status>>
  <2>1. tasks' \subseteq Task /\ TasksPrepared'
    BY <1>2 DEF IInv, TypeOK, AllPrepared, TasksPrepared, Prepared, Task
  <2> QED BY <1>2, <2>1, QuietStep DEF IInv, TypeOK
<1> QED BY <1>1, <1>2 DEF ReceiveBlock

\* The task that runs addBlock.
LEMMA RunAddBlockKeeps ==
  ASSUME IInv, NEW w \in Workers, NEW b \in Blocks, RunAddBlock(w, b)
  PROVE  IInv' /\ HeightsKept
<1>1. addBlock(w, b) /\ tasks' \subseteq tasks
  BY DEF RunAddBlock
<1>2. /\ Chained' /\ Attached' /\ HeightsKept
      /\ known \subseteq known' /\ known' \subseteq Blocks
      /\ transactions \subseteq transactions' /\ transactions' \subseteq Txs
      /\ (\A x \in Connected : Prepared(x))'
      /\ status' \in {"running", "aborted", "crashed"}
  BY <1>1, AddBlockKeeps DEF HeightsKept
<1>3. tasks' \subseteq Task /\ TasksPrepared'
  BY <1>1, <1>2 DEF IInv, TypeOK, AllPrepared, TasksPrepared, Prepared
<1> QED BY <1>2, <1>3, PartsMakeInvariant

\* The task of connectToAncestor, in each of its ways.
LEMMA RunConnectKeeps ==
  ASSUME IInv, NEW w \in Workers, NEW b \in Blocks, RunConnect(w, b)
  PROVE  IInv' /\ HeightsKept
<1>1. /\ connectToAncestor(w, b) /\ tasks' \subseteq tasks
      /\ UNCHANGED <<known, transactions>>
      /\ [op |-> "connect", block |-> b] \in tasks
  BY DEF RunConnect
<1>2. Prepared(b)'
  BY <1>1 DEF IInv, AllPrepared, TasksPrepared, Prepared
<1>3. known \subseteq known' /\ known' \subseteq Blocks
      /\ transactions \subseteq transactions' /\ transactions' \subseteq Txs
  BY <1>1 DEF IInv, TypeOK
<1>4. /\ Chained' /\ Attached'
      /\ \A x \in Connected : height'[x] = height[x]
      /\ Connected' \subseteq Connected \cup {b}
      /\ status' \in {"running", "aborted", "crashed"}
  BY <1>1, <1>2, <1>3, ConnectKeeps
<1>5. (\A x \in Connected : Prepared(x))'
  BY <1>2, <1>3, <1>4 DEF IInv, AllPrepared, Prepared
<1>6. tasks' \subseteq Task /\ TasksPrepared'
  BY <1>1, <1>3 DEF IInv, TypeOK, AllPrepared, TasksPrepared, Prepared
<1> QED BY <1>3, <1>4, <1>5, <1>6, PartsMakeInvariant DEF HeightsKept

\* A turn of the loop over the descendants, whose first entry is there.
LEMMA EnqueueDescendantKeeps ==
  ASSUME IInv, NEW w \in Workers, EnqueueDescendant(w)
  PROVE  IInv' /\ HeightsKept
<1> DEFINE p == worker[w].at
           b == Head(orphanBlocks[p])
<1>1. /\ worker[w].loop = "descendants"
      /\ tasks' = tasks \cup {[op |-> "connect", block |-> b]}
      /\ UNCHANGED <<known, height, mainChain, orphanBlocks, transactions,
                     worker, status>>
  BY DEF EnqueueDescendant
<1>2. p \in Hashes /\ orphanBlocks[p] \in Seq(Blocks) /\ orphanBlocks[p] # <<>>
  BY <1>1 DEF IInv, TypeOK, LoopHasEntry, WorkerState, Idle, Hashes
<1>3. 1 \in DOMAIN orphanBlocks[p] /\ b = orphanBlocks[p][1] /\ b \in Blocks
  BY <1>2
<1>4. Prepared(b)
  BY <1>2, <1>3 DEF IInv, AllPrepared, OrphansPrepared
<1> HIDE DEF b
<1>5. tasks' \subseteq Task
  BY <1>1, <1>3 DEF IInv, TypeOK, Task
<1>6. TasksPrepared'
  BY <1>1, <1>4 DEF IInv, AllPrepared, TasksPrepared, Prepared
<1> QED BY <1>1, <1>5, <1>6, QuietStep DEF IInv, TypeOK

\* A turn of the loop that reads a freed entry.
LEMMA ReadErasedKeeps ==
  ASSUME IInv, NEW w \in Workers, ReadErased(w)
  PROVE  IInv' /\ HeightsKept
<1>1. /\ UNCHANGED <<known, height, mainChain, orphanBlocks, transactions, worker>>
      /\ status' \in {"running", "aborted", "crashed"}
      /\ \/ tasks' = tasks
         \/ tasks' = tasks \cup {[op |-> "connect", block |-> worker[w].at]}
  BY DEF ReadErased, IInv, TypeOK
<1>2. Prepared(worker[w].at)
  BY DEF ReadErased, IInv, AllPrepared, DanglingPrepared
<1>3. tasks' \subseteq Task
  BY <1>1, <1>2 DEF IInv, TypeOK, Task, Prepared
<1>4. TasksPrepared'
  BY <1>1, <1>2 DEF IInv, AllPrepared, TasksPrepared, Prepared
<1> QED BY <1>1, <1>3, <1>4, QuietStep DEF IInv, TypeOK

\* Every step keeps the invariant, and every height that was given.
LEMMA StepInvariant == IInv /\ [Next]_vars => IInv' /\ HeightsKept
<1> SUFFICES ASSUME IInv, [Next]_vars PROVE IInv' /\ HeightsKept
  OBVIOUS
<1>1. ASSUME NEW w \in Workers, NEW h \in Blocks, ReceiveHeader(w, h)
      PROVE  IInv' /\ HeightsKept
  <2>1. TasksPrepared'
    BY <1>1 DEF ReceiveHeader, IInv, AllPrepared, TasksPrepared, Prepared
  <2> QED BY <1>1, <2>1, QuietStep DEF ReceiveHeader, IInv, TypeOK
<1>2. ASSUME NEW w \in Workers, NEW tx \in Txs, ReceiveTx(w, tx)
      PROVE  IInv' /\ HeightsKept
  <2>1. TasksPrepared'
    BY <1>2 DEF ReceiveTx, IInv, AllPrepared, TasksPrepared, Prepared
  <2> QED BY <1>2, <2>1, QuietStep DEF ReceiveTx, IInv, TypeOK
<1>3. CASE UNCHANGED vars
  <2>1. TasksPrepared'
    BY <1>3 DEF vars, IInv, AllPrepared, TasksPrepared, Prepared
  <2> QED BY <1>3, <2>1, QuietStep DEF vars, IInv, TypeOK
<1> QED BY <1>1, <1>2, <1>3, ReceiveBlockKeeps, RunAddBlockKeeps, RunConnectKeeps,
           EnqueueDescendantKeeps, ReadErasedKeeps DEF Next

-----------------------------------------------------------------------------
\* Two branches that hold the same block at one place hold the same blocks below.
LEMMA SameBelow ==
  ASSUME NEW s \in Seq(Blocks), \A k \in 1..Len(s) - 1 : Prev[s[k + 1]] = s[k],
         NEW t \in Seq(Blocks), \A k \in 1..Len(t) - 1 : Prev[t[k + 1]] = t[k],
         Len(s) <= Len(t),
         NEW j \in 1..Len(s), t[j] = s[j], NEW i \in 1..Len(s), i <= j
  PROVE  t[i] = s[i]
<1> DEFINE Differ == {k \in Nat : k < j /\ t[j - k] # s[j - k]}
<1>1. Differ = {}
  <2> SUFFICES ASSUME Differ # {} PROVE FALSE
    OBVIOUS
  <2>1. PICK k \in Differ : \A m \in Differ : k <= m
    BY NatHasMin
  <2>2. k # 0
    BY <2>1
  <2>3. t[j - (k - 1)] = s[j - (k - 1)]
    <3>1. k - 1 \in Nat /\ k - 1 < j /\ ~(k <= k - 1)
      BY <2>1, <2>2
    <3>2. k - 1 \notin Differ
      BY <2>1, <3>1
    <3> QED BY <3>1, <3>2
  <2>4. /\ j - (k - 1) = (j - k) + 1
        /\ j - k \in 1..Len(s) - 1 /\ j - k \in 1..Len(t) - 1
    BY <2>1, <2>2
  <2>5. t[j - k] = Prev[t[(j - k) + 1]] /\ s[j - k] = Prev[s[(j - k) + 1]]
    BY <2>4
  <2> QED BY <2>1, <2>3, <2>4, <2>5
<1>2. j - i \in Nat /\ j - i < j /\ j - (j - i) = i
  OBVIOUS
<1> QED BY <1>1, <1>2

\* What a step does to the top of the main chain: it never comes down, and a block
\* that is connected in the step is not above it, unless its thread is caught in
\* the loop of line 484, which no thread leaves.
Caught(b) == \E w \in Workers : worker[w] = [loop |-> "erase", at |-> b]

TopMoves ==
  /\ Len(mainChain') >= Len(mainChain)
  /\ \A x \in Connected' : x \in Connected \/ height'[x] <= TopHeight' \/ Caught(x)'
  /\ \A x \in Blocks : Caught(x) => Caught(x)'

\* A block that takes its branch with it is the new top.
LEMMA ReachesTop ==
  ASSUME IInv, NEW b \in Blocks, CanConnect(b), SetHeight(b), ExtendOrReorganise(b)
  PROVE  Len(mainChain') >= Len(mainChain) /\ height'[b] <= TopHeight'
<1>1. height'[b] \in Nat
  BY SetHeightKeeps DEF Connected, IInv, TypeOK, NoHeight
<1>2. Len(mainChain) \in Nat
  BY DEF IInv, TypeOK
<1>3. CASE height'[b] >= TopHeight
  <2> DEFINE n == height'[b] + 1
  <2>1. n \in Nat \ {0} /\ n - 1 = height'[b]
    BY <1>1
  <2>2. PICK c : IsBranch(c, b)'
    BY BranchGrows
  <2>3. c \in [1..n -> Blocks]
    BY <2>2 DEF IsBranch, Connected
  <2>4. c[n] = b /\ \A i \in 1..n - 1 : Prev[c[i + 1]] = c[i]
    BY <2>1, <2>2 DEF IsBranch
  <2>5. mainChain' = c
    BY <1>3, <2>1, <2>3, <2>4, PathIsBranch DEF ExtendOrReorganise
  <2>6. Len(mainChain') = n
    BY <2>1, <2>3, <2>5
  <2> QED BY <1>1, <1>2, <1>3, <2>6 DEF TopHeight
<1>4. CASE ~(height'[b] >= TopHeight)
  BY <1>1, <1>2, <1>4 DEF ExtendOrReorganise, TopHeight
<1> QED BY <1>3, <1>4

\* A step that leaves chain, heights and threads alone does not move the top.
LEMMA TopStays ==
  ASSUME IInv, UNCHANGED <<height, mainChain, worker>>
  PROVE  TopMoves
BY DEF TopMoves, Connected, Caught, IInv, TypeOK

\* After connectToAncestor the chain is no shorter, and no new block is above its top but one in a loop.
LEMMA ConnectMovesTop ==
  ASSUME IInv, NEW w \in Workers, NEW b \in Blocks, worker[w] = Idle,
         connectToAncestor(w, b)
  PROVE  TopMoves
<1>1. ASSUME FindDescendants(w, b) PROVE \A x \in Blocks : Caught(x) => Caught(x)'
  BY <1>1 DEF FindDescendants, Stuck, Caught, Idle, IInv, TypeOK
<1>2. CASE RecordOrphan(b) \/ RefuseUnconnected(b) \/ AssertHeightUnset(b)
  BY <1>2, TopStays DEF RecordOrphan, RefuseUnconnected, AssertHeightUnset
<1>3. CASE ConnectGenesis(w, b)
  <2>1. Connected' = {b} /\ Len(mainChain) = 0 /\ Len(mainChain') = 1 /\ height'[b] = 0
    BY <1>3, GenesisIsChained DEF ConnectGenesis, IInv, TypeOK
  <2> QED BY <1>1, <1>3, <2>1 DEF ConnectGenesis, TopMoves, TopHeight
<1>4. CASE LoopOnFirstOrphan(w, b)
  <2>1. /\ Connected' = Connected \cup {b} /\ mainChain' = mainChain
        /\ worker' = [worker EXCEPT ![w] = [loop |-> "erase", at |-> b]]
    BY <1>4, ConnectIsChained DEF LoopOnFirstOrphan, Stuck
  <2>2. Caught(b)' /\ \A x \in Blocks : Caught(x) => Caught(x)'
    BY <2>1 DEF Caught, Idle, IInv, TypeOK
  <2> QED BY <2>1, <2>2 DEF TopMoves, IInv, TypeOK
<1>5. CASE ConnectToParent(w, b)
  <2>1. CanConnect(b) /\ SetHeight(b) /\ ExtendOrReorganise(b) /\ FindDescendants(w, b)
    BY <1>5 DEF ConnectToParent
  <2>2. Connected' = Connected \cup {b}
    BY <2>1, SetHeightKeeps
  <2> QED BY <1>1, <2>1, <2>2, ReachesTop DEF TopMoves
<1>6. CASE ConnectOrphan(w, b)
  <2>1. CanConnect(b) /\ SetHeight(b) /\ ExtendOrReorganise(b)
    BY <1>6 DEF ConnectOrphan
  <2>2. Connected' = Connected \cup {b}
    BY <2>1, SetHeightKeeps
  <2>3. \A v \in Workers :
          worker[v].loop = "erase" => v # w /\ worker'[v] = worker[v]
    BY <1>6 DEF ConnectOrphan, LeaveDangling, Idle
  <2>4. \A x \in Blocks : Caught(x) => Caught(x)'
    BY <2>3 DEF Caught
  <2> QED BY <2>1, <2>2, <2>4, ReachesTop DEF TopMoves
<1> QED BY <1>2, <1>3, <1>4, <1>5, <1>6 DEF connectToAncestor

\* So it is after every step.
LEMMA StepMovesTop == IInv /\ [Next]_vars => TopMoves
<1> SUFFICES ASSUME IInv, [Next]_vars PROVE TopMoves
  OBVIOUS
<1>1. ASSUME NEW w \in Workers, NEW b \in Blocks, Ready(w), addBlock(w, b)
      PROVE  TopMoves
  BY <1>1, TopStays, ConnectMovesTop DEF addBlock, Ready
<1>2. ASSUME NEW w \in Workers, NEW b \in Blocks,
             ReceiveBlock(w, b) \/ RunAddBlock(w, b)
      PROVE  TopMoves
  BY <1>1, <1>2, TopStays DEF ReceiveBlock, RunAddBlock
<1>3. ASSUME NEW w \in Workers, NEW b \in Blocks, RunConnect(w, b)
      PROVE  TopMoves
  BY <1>3, ConnectMovesTop DEF RunConnect, Ready
<1>4. ASSUME NEW w \in Workers,
             \/ \E h \in Blocks : ReceiveHeader(w, h)
             \/ \E tx \in Txs : ReceiveTx(w, tx)
             \/ EnqueueDescendant(w) \/ ReadErased(w)
      PROVE  TopMoves
  BY <1>4, TopStays DEF ReceiveHeader, ReceiveTx, EnqueueDescendant, ReadErased
<1>5. CASE UNCHANGED vars
  BY <1>5, TopStays DEF vars
<1> QED BY <1>2, <1>3, <1>4, <1>5 DEF Next

\* A step that moves the top so keeps it the highest.
LEMMA TopKeeps == IInv /\ IInv' /\ TopMoves /\ HeightsKept /\ TopIsHighest => TopIsHighest'
<1> SUFFICES ASSUME IInv, IInv', TopMoves, HeightsKept, TopIsHighest,
                    NEW b \in Connected', height'[b] > TopHeight'
             PROVE  Caught(b)'
  BY DEF TopIsHighest, Caught
<1>1. /\ height'[b] \in Nat /\ b \in Blocks
      /\ Len(mainChain) \in Nat /\ Len(mainChain') \in Nat
  BY DEF Connected, IInv, TypeOK, NoHeight
<1>2. CASE b \in Connected
  BY <1>1, <1>2 DEF TopMoves, HeightsKept, TopIsHighest, Caught, TopHeight
<1>3. CASE b \notin Connected
  BY <1>1, <1>3 DEF TopMoves, TopHeight
<1> QED BY <1>2, <1>3

\* The main chain after a step is no shorter, and below a block that both have at one
\* place it is as before.
Grows ==
  /\ Len(mainChain') >= Len(mainChain)
  /\ \A i, j \in 1..Len(mainChain) :
       i <= j /\ mainChain'[j] = mainChain[j] => mainChain'[i] = mainChain[i]

\* Two branches that the invariant holds for agree below a common block.
LEMMA ChainGrows == IInv /\ IInv' /\ TopMoves => Grows
<1> SUFFICES ASSUME IInv, IInv', TopMoves PROVE Grows
  OBVIOUS
<1>1. /\ Len(mainChain) <= Len(mainChain')
      /\ mainChain \in Seq(Blocks) /\ mainChain' \in Seq(Blocks)
  BY DEF TopMoves, IInv, TypeOK
<1>2. /\ \A k \in 1..Len(mainChain) - 1 : Prev[mainChain[k + 1]] = mainChain[k]
      /\ \A k \in 1..Len(mainChain') - 1 : Prev[mainChain'[k + 1]] = mainChain'[k]
  BY DEF IInv, MainChainIsBranch
<1> QED BY <1>1, <1>2, SameBelow DEF Grows

-----------------------------------------------------------------------------
\* The inductive invariant of the block index holds in every reachable state.
THEOREM Invariance == Spec => []IInv
<1>1. Init => IInv
  BY InitInvariant
<1>2. IInv /\ [Next]_vars => IInv'
  BY StepInvariant
<1> QED BY <1>1, <1>2, PTL DEF Spec

\* Every variable of Blockchain.cpp keeps its type: reorganisations put blocks,
\* never the null hash, on _mainChain, and no thread loops on an empty range.
THEOREM TypeCorrect == Spec => []TypeOK
<1>1. IInv => TypeOK
  BY DEF IInv
<1> QED BY <1>1, Invariance, PTL

\* Through any sequence of connectToAncestor runs, on any number of threads,
\* _mainChain is one branch from the genesis block, indexed by height.
THEOREM MainChainIsAlwaysBranch == Spec => []MainChainIsBranch
<1>1. IInv => MainChainIsBranch
  BY DEF IInv
<1> QED BY <1>1, Invariance, PTL

\* connectToAncestor gives a height only to a registered block whose previous
\* block has the height below it.
THEOREM HeightsAlwaysFollowPrev == Spec => []HeightsFollowPrev
<1>1. IInv => HeightsFollowPrev
  BY DEF IInv
<1> QED BY <1>1, Invariance, PTL

\* getTx finds each transaction of each connected block.
THEOREM ConnectedAlwaysHaveTransactions == Spec => []ConnectedHaveTransactions
<1>1. IInv => ConnectedHaveTransactions
  BY DEF IInv, AllPrepared, Prepared, ConnectedHaveTransactions
<1> QED BY <1>1, Invariance, PTL

\* BlockHeader::setHeight never changes a height, in a build with assertions or
\* without: a block given a second height is given the same one.
THEOREM HeightsNeverChange == Spec => HeightsAreFinal
<1>1. IInv /\ [Next]_vars => [HeightsKept]_vars
  BY StepInvariant
<1>2. [HeightsKept]_vars => [\A b \in Connected : height'[b] = height[b]]_vars
  BY DEF HeightsKept
<1> QED BY <1>1, <1>2, Invariance, PTL DEF Spec, HeightsAreFinal, HeightsKept

\* The main chain is the highest branch known: a block above its top belongs to a
\* thread that never comes back from the loop at line 484.
THEOREM TopIsAlwaysHighest == Spec => []TopIsHighest
<1>1. Init => TopIsHighest
  BY DEF Init, TopIsHighest, Connected
<1>2. IInv /\ TopIsHighest /\ [Next]_vars => TopIsHighest'
  BY StepMovesTop, StepInvariant, TopKeeps
<1> QED BY <1>1, <1>2, Invariance, PTL DEF Spec

\* A reorganisation never makes the chain shorter and keeps everything below the
\* point where the branches part.
THEOREM ChainOnlyGrows == Spec => ChainNeverShrinks
<1>1. IInv /\ [Next]_vars => [Grows]_vars
  BY StepMovesTop, StepInvariant, ChainGrows
<1> QED BY <1>1, Invariance, PTL DEF Spec, ChainNeverShrinks, Grows
=============================================================================
