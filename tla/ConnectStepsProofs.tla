------------------------- MODULE ConnectStepsProofs -------------------------
(***************************************************************************)
(* Proofs about ConnectSteps, for any set of blocks and threads.  First:   *)
(* however the statements of connectToAncestor interleave, a height        *)
(* follows from the previous block.  HeightsFollowPrev is not inductive,   *)
(* for a thread at setHeight reads what it tested three statements before; *)
(* the invariant adds what a thread knows of its block where it is         *)
(* (ArgsFit), which stays true because no height is taken back.            *)
(*                                                                         *)
(* Second: runs that do not overlap implement Blockchain.  What a run may  *)
(* count on is what BlockchainProofs proves of the state it began in, so   *)
(* the invariant of the abstract state (A!IInv) is carried along; RunFits  *)
(* says, statement by statement, how far the run has come from there.      *)
(* Each statement is then a stutter, but for the last of the run.          *)
(***************************************************************************)
EXTENDS ConnectSteps, SequenceTheorems, TLAPS

SharedTyped ==
  /\ known \subseteq Blocks
  /\ height \in [Blocks -> Nat \cup {NoHeight}]
  /\ mainChain \in Seq(Blocks)
  /\ orphanBlocks \in [Hashes -> Seq(Blocks)]
  /\ tasks \subseteq Task
  /\ status \in {"running", "aborted", "crashed"}

Local == [top : Int, block : Hashes, old : Hashes, chain : Seq(Blocks)]

ThreadsTyped ==
  /\ pc \in [Workers -> Running \cup Resting]
  /\ arg \in [Workers -> Hashes]
  /\ local \in [Workers -> Local]

\* What a thread knows of its block, once it has tested it.
Fits(p, b) ==
  /\ p # "idle" => b \in Blocks
  /\ p = "setGenesis" => b = Genesis
  /\ p = "setHeight" => Prev[b] \in Connected

ArgsFit == \A w \in Workers : Fits(pc[w], arg[w])

LoopHasEntry == \A w \in Workers : pc[w] = "descendLoop" => orphanBlocks[arg[w]] # <<>>

IInv ==
  /\ SharedTyped
  /\ ThreadsTyped
  /\ ArgsFit
  /\ LoopHasEntry
  /\ HeightsFollowPrev

-----------------------------------------------------------------------------
\* One thread goes on to p with the block b and the locals l; the others stay.
Moves(w, p, b, l) ==
  /\ pc' = [pc EXCEPT ![w] = p]
  /\ arg' = [arg EXCEPT ![w] = b]
  /\ local' = [local EXCEPT ![w] = l]

\* A step that moves one thread keeps what is said of all threads.
LEMMA ThreadMoves ==
  ASSUME IInv, NEW w \in Workers, NEW p \in Running \cup Resting, NEW b \in Hashes,
         NEW l \in Local, Moves(w, p, b, l), Fits(p, b),
         Connected \subseteq Connected', p = "descendLoop" => orphanBlocks'[b] # <<>>,
         \A v \in Workers : pc[v] = "descendLoop" => orphanBlocks'[arg[v]] # <<>>
  PROVE  ThreadsTyped' /\ ArgsFit' /\ LoopHasEntry'
<1>1. ThreadsTyped'
  BY DEF Moves, IInv, ThreadsTyped
<1>2. ArgsFit'
  <2> SUFFICES ASSUME NEW v \in Workers PROVE Fits(pc[v], arg[v])'
    BY DEF ArgsFit
  <2>1. CASE v = w
    BY <2>1 DEF Moves, IInv, ThreadsTyped, Fits
  <2>2. CASE v # w
    BY <2>2 DEF Moves, IInv, ThreadsTyped, ArgsFit, Fits
  <2> QED BY <2>1, <2>2
<1>3. LoopHasEntry'
  BY DEF Moves, IInv, ThreadsTyped, LoopHasEntry
<1> QED BY <1>1, <1>2, <1>3

\* Goto moves a thread and leaves its locals alone.
LEMMA GotoMoves ==
  ASSUME IInv, NEW w \in Workers, NEW p, Goto(w, p), UNCHANGED <<arg, local>>
  PROVE  /\ Moves(w, p, arg[w], local[w])
         /\ arg[w] \in Hashes /\ local[w] \in Local
BY DEF IInv, ThreadsTyped, Goto, Moves

\* Finish moves a thread to rest and forgets its locals.
LEMMA FinishMoves ==
  ASSUME IInv, NEW w \in Workers, Finish(w)
  PROVE  Moves(w, "idle", Null, NoLocal) /\ NoLocal \in Local /\ Null \in Hashes
<1>1. NoLocal \in Local /\ Null \in Hashes
  BY DEF NoLocal, Local, Hashes
<1> QED BY <1>1 DEF Finish, Stop, Goto, Moves

\* A step that gives no height and leaves the orphans alone.
LEMMA QuietMove ==
  ASSUME IInv, NEW w \in Workers, NEW p \in (Running \cup Resting) \ {"descendLoop"},
         NEW b \in Hashes, NEW l \in Local, Moves(w, p, b, l), Fits(p, b),
         UNCHANGED <<height, orphanBlocks>>, known' \subseteq Blocks,
         mainChain' \in Seq(Blocks), tasks' \subseteq Task,
         status' \in {"running", "aborted", "crashed"}
  PROVE  IInv'
<1>1. SharedTyped'
  BY DEF IInv, SharedTyped
<1>2. Connected' = Connected
  BY DEF Connected
<1>3. ThreadsTyped' /\ ArgsFit' /\ LoopHasEntry'
  BY <1>2, ThreadMoves DEF IInv, LoopHasEntry
<1>4. HeightsFollowPrev'
  BY <1>2 DEF IInv, HeightsFollowPrev
<1> QED BY <1>1, <1>3, <1>4 DEF IInv

\* A step that moves no thread.
LEMMA QuietStep ==
  ASSUME IInv, UNCHANGED <<height, orphanBlocks, pc, arg, local>>, known' \subseteq Blocks,
         mainChain' \in Seq(Blocks), tasks' \subseteq Task,
         status' \in {"running", "aborted", "crashed"}
  PROVE  IInv'
<1>1. SharedTyped' /\ ThreadsTyped'
  BY DEF IInv, SharedTyped, ThreadsTyped
<1>2. Connected' = Connected
  BY DEF Connected
<1>3. ArgsFit' /\ LoopHasEntry' /\ HeightsFollowPrev'
  BY <1>2 DEF IInv, ArgsFit, Fits, LoopHasEntry, HeightsFollowPrev
<1> QED BY <1>1, <1>3 DEF IInv

-----------------------------------------------------------------------------
\* A block that has a height and is given one again is given the same one.
LEMMA GiveHeightKeeps ==
  ASSUME IInv, NEW w \in Workers, NEW h \in Nat, NEW next \in {"pushGenesis", "erase"},
         arg[w] \in Blocks, GiveHeight(w, h, next),
         \/ arg[w] = Genesis /\ h = 0
         \/ arg[w] # Genesis /\ Prev[arg[w]] \in Connected /\ h = height[Prev[arg[w]]] + 1
  PROVE  IInv'
<1> DEFINE b == arg[w]
<1>1. CASE /\ status' = "aborted" /\ Finish(w)
           /\ UNCHANGED <<known, height, mainChain, orphanBlocks, tasks>>
  BY <1>1, FinishMoves, QuietMove DEF IInv, SharedTyped, Fits, Resting
<1>2. CASE /\ height' = [height EXCEPT ![b] = h] /\ Goto(w, next)
           /\ UNCHANGED <<known, mainChain, orphanBlocks, tasks, status, arg, local, before>>
  <2>1. SharedTyped'
    BY <1>2 DEF IInv, SharedTyped
  <2>2. b \in Connected => height[b] = h
    BY BlocksAssumption DEF IInv, HeightsFollowPrev, Connected
  <2>3. height'[b] = h /\ h # NoHeight /\ \A x \in Blocks \ {b} : height'[x] = height[x]
    BY <1>2 DEF IInv, SharedTyped, NoHeight
  <2>4. Connected' = Connected \cup {b} /\ \A x \in Connected : height'[x] = height[x]
    BY <2>2, <2>3 DEF Connected
  <2>5. ThreadsTyped' /\ ArgsFit' /\ LoopHasEntry'
    <3>1. next \in (Running \cup Resting) \ {"descendLoop", "idle", "setGenesis", "setHeight"}
      BY DEF Running
    <3> QED BY <1>2, <2>4, <3>1, GotoMoves, ThreadMoves DEF Fits, IInv, LoopHasEntry
  <2>6. HeightsFollowPrev'
    <3> SUFFICES ASSUME NEW x \in Connected'
                 PROVE  \/ x = Genesis /\ height'[x] = 0
                        \/ Prev[x] \in Connected' /\ height'[x] = height'[Prev[x]] + 1
      BY DEF HeightsFollowPrev
    <3>1. CASE x = b
      BY <2>3, <2>4, <3>1
    <3>2. CASE x # b
      BY <2>4, <3>2 DEF IInv, HeightsFollowPrev
    <3> QED BY <3>1, <3>2
  <2> QED BY <2>1, <2>5, <2>6 DEF IInv
<1> QED BY <1>1, <1>2 DEF GiveHeight

\* The first entry is erased; whoever loops over the descendants there is left with it.
LEMMA EraseKeeps ==
  ASSUME IInv, NEW w \in Workers, EraseOrphan(w)
  PROVE  IInv'
<1> DEFINE b == arg[w]
           entries == orphanBlocks[Prev[b]]
           first == IF entries = <<>> THEN "none" ELSE IF entries[1] = b THEN "b" ELSE "other"
<1>1. b \in Blocks /\ Prev[b] \in Hashes /\ entries \in Seq(Blocks)
  BY BlocksAssumption DEF EraseOrphan, At, IInv, ArgsFit, Fits, SharedTyped, Hashes
<1>2. /\ pc[w] = "erase" /\ UNCHANGED <<known, height, mainChain, tasks, status, local>>
      /\ orphanBlocks' = IF first = "b" THEN [orphanBlocks EXCEPT ![Prev[b]] = Tail(@)]
                         ELSE orphanBlocks
      /\ pc' = [v \in Workers |->
                 IF v = w THEN IF first = "other" THEN "eraseLoop" ELSE "measure"
                 ELSE IF first = "b" /\ pc[v] = "descendLoop" /\ arg[v] = Prev[b]
                      THEN "dangling" ELSE pc[v]]
      /\ arg' = [v \in Workers |-> IF v # w /\ pc'[v] # pc[v] THEN b ELSE arg[v]]
  BY DEF EraseOrphan, At
<1>3. first = "b" => entries # <<>>
  OBVIOUS
<1> HIDE DEF first
<1>4. SharedTyped'
  BY <1>1, <1>2, <1>3 DEF IInv, SharedTyped
<1>5. Connected' = Connected
  BY <1>2 DEF Connected
<1>6. ThreadsTyped'
  <2>1. pc' \in [Workers -> Running \cup Resting]
    BY <1>2 DEF IInv, ThreadsTyped, Running, Resting
  <2> QED BY <1>1, <1>2, <2>1 DEF IInv, ThreadsTyped, Hashes
<1>7. ArgsFit'
  BY <1>1, <1>2, <1>5 DEF IInv, ArgsFit, Fits
<1>8. LoopHasEntry'
  BY <1>1, <1>2 DEF IInv, LoopHasEntry, SharedTyped
<1>9. HeightsFollowPrev'
  BY <1>2, <1>5 DEF IInv, HeightsFollowPrev
<1> QED BY <1>4, <1>6, <1>7, <1>8, <1>9 DEF IInv

\* The statements that touch no height and no list of orphans.
LEMMA PlainStepKeeps ==
  ASSUME IInv, NEW w \in Workers,
         \/ TestGenesis(w) \/ PushGenesis(w) \/ FindPrev(w) \/ Measure(w) \/ Climb(w)
         \/ ReadTop(w) \/ Rollback(w) \/ Replay(w)
  PROVE  IInv'
<1> DEFINE b == arg[w]
<1>1. /\ b \in Hashes /\ (pc[w] # "idle" => b \in Blocks) /\ local[w] \in Local
      /\ SharedTyped /\ \A x \in Hashes : PrevHeader(x) \in Hashes
  BY DEF IInv, ThreadsTyped, ArgsFit, Fits, PrevHeader, SharedTyped, Hashes
<1>2. CASE TestGenesis(w)
  <2> DEFINE p == IF mainChain # <<>> THEN "prev"
                  ELSE IF b = Genesis /\ Prev[b] = Null THEN "setGenesis" ELSE "orphan"
  <2>1. pc[w] = "genesis?" /\ Goto(w, p) /\ UNCHANGED <<shared, arg, local>>
    BY <1>2 DEF TestGenesis, At
  <2>2. p \in {"prev", "setGenesis", "orphan"} /\ (p = "setGenesis" => b = Genesis)
    OBVIOUS
  <2> HIDE DEF p
  <2>3. p \in (Running \cup Resting) \ {"descendLoop"} /\ Fits(p, b)
    BY <1>1, <2>1, <2>2 DEF Fits, Running
  <2>4. Moves(w, p, b, local[w])
    BY <2>1, GotoMoves
  <2> QED BY <1>1, <2>1, <2>3, <2>4, QuietMove DEF shared, SharedTyped
<1>3. CASE PushGenesis(w)
  <2>1. /\ pc[w] = "pushGenesis" /\ Goto(w, "descend") /\ mainChain' = Append(mainChain, b)
        /\ UNCHANGED <<known, height, orphanBlocks, tasks, status, arg, local>>
    BY <1>3 DEF PushGenesis, At
  <2>2. mainChain' \in Seq(Blocks)
    BY <1>1, <2>1 DEF SharedTyped
  <2>3. Moves(w, "descend", b, local[w])
    BY <2>1, GotoMoves
  <2> QED BY <1>1, <2>1, <2>2, <2>3, QuietMove DEF SharedTyped, Fits, Running
<1>4. CASE FindPrev(w)
  <2>1. CASE Prev[b] \in known /\ inChain(Prev[b])
    <3>1. Prev[b] \in Connected
      BY <2>1 DEF inChain, Connected
    <3> QED BY <1>1, <1>4, <2>1, <3>1, GotoMoves, QuietMove
            DEF FindPrev, At, shared, Fits, SharedTyped, Running, Resting
  <2>2. CASE ~(Prev[b] \in known /\ inChain(Prev[b]))
    BY <1>1, <1>4, <2>2, FinishMoves, QuietMove
       DEF FindPrev, shared, Fits, SharedTyped, Running, Resting
  <2> QED BY <2>1, <2>2
<1>5. CASE Measure(w)
  <2> DEFINE l == [local[w] EXCEPT !.top = Len(mainChain) - 1, !.block = b]
             p == IF mainChain # <<>> /\ height[b] >= Len(mainChain) - 1 THEN "climb" ELSE "descend"
  <2>1. /\ pc[w] = "measure" /\ Goto(w, p) /\ UNCHANGED <<shared, arg>>
        /\ local' = [local EXCEPT ![w].top = Len(mainChain) - 1, ![w].block = b]
    BY <1>5 DEF Measure, At
  <2>2. l \in Local /\ Len(mainChain) - 1 \in Int
    <3>1. Len(mainChain) - 1 \in Int
      BY <1>1 DEF SharedTyped
    <3> QED BY <1>1, <3>1 DEF Local
  <2>3. Moves(w, p, b, l)
    BY <2>1, <2>2 DEF Moves, Goto, IInv, ThreadsTyped, Local
  <2>4. p \in {"climb", "descend"}
    OBVIOUS
  <2> HIDE DEF p, l
  <2> QED BY <1>1, <2>1, <2>2, <2>3, <2>4, QuietMove
          DEF shared, Fits, SharedTyped, Running, Resting
<1>6. CASE Climb(w)
  <2>1. pc[w] = "climb" /\ UNCHANGED <<shared, arg>>
    BY <1>6 DEF Climb, At
  <2>2. CASE Goto(w, "top") /\ UNCHANGED local
    BY <1>1, <2>1, <2>2, GotoMoves, QuietMove DEF shared, Fits, SharedTyped, Running, Resting
  <2> DEFINE x == local[w].block
             l == [local[w] EXCEPT !.chain = <<x>> \o @, !.block = PrevHeader(x)]
  <2>3. CASE /\ x # Null /\ UNCHANGED pc
             /\ local' = [local EXCEPT ![w].chain = <<x>> \o @, ![w].block = PrevHeader(x)]
    <3>1. x \in Blocks /\ <<x>> \o local[w].chain \in Seq(Blocks)
      BY <1>1, <2>3 DEF Local, Hashes
    <3>2. l \in Local
      BY <1>1, <3>1 DEF Local, Hashes
    <3>3. Moves(w, "climb", b, l)
      BY <2>1, <2>3 DEF Moves, IInv, ThreadsTyped, Local
    <3> HIDE DEF l
    <3> QED BY <1>1, <2>1, <3>2, <3>3, QuietMove DEF shared, Fits, SharedTyped, Running
  <2> QED BY <1>6, <2>2, <2>3 DEF Climb
<1>7. CASE ReadTop(w)
  <2> DEFINE x == IF mainChain = <<>> THEN Null ELSE mainChain[Len(mainChain)]
             l == [local[w] EXCEPT !.old = x]
  <2>1. /\ pc[w] = "top" /\ Goto(w, "rollback") /\ UNCHANGED <<shared, arg>>
        /\ local' = [local EXCEPT ![w].old = x]
    BY <1>7 DEF ReadTop, At
  <2>2. x \in Hashes
    BY <1>1 DEF SharedTyped, Hashes
  <2> HIDE DEF x
  <2>3. l \in Local
    BY <1>1, <2>2 DEF Local
  <2>4. Moves(w, "rollback", b, l)
    BY <2>1 DEF Moves, Goto, IInv, ThreadsTyped, Local
  <2> HIDE DEF l
  <2> QED BY <1>1, <2>1, <2>3, <2>4, QuietMove DEF shared, Fits, SharedTyped, Running
<1>8. CASE Rollback(w)
  <2>1. pc[w] = "rollback" /\ UNCHANGED <<known, height, orphanBlocks, tasks, arg>>
    BY <1>8 DEF Rollback, At
  <2> DEFINE x == local[w].block
             y == local[w].old
             l == [local[w] EXCEPT !.chain = <<x>> \o @, !.block = PrevHeader(x),
                                   !.old = PrevHeader(y)]
  <2>2. CASE /\ x # Null /\ y # Null /\ mainChain # <<>> /\ UNCHANGED <<pc, status>>
             /\ local' = [local EXCEPT ![w].chain = <<x>> \o @, ![w].block = PrevHeader(x),
                                       ![w].old = PrevHeader(y)]
             /\ mainChain' = SubSeq(mainChain, 1, Len(mainChain) - 1)
    <3>1. x \in Blocks /\ <<x>> \o local[w].chain \in Seq(Blocks)
      BY <1>1, <2>2 DEF Local, Hashes
    <3>2. l \in Local
      BY <1>1, <3>1 DEF Local, Hashes
    <3>3. Moves(w, "rollback", b, l)
      BY <2>1, <2>2 DEF Moves, IInv, ThreadsTyped, Local
    <3>4. mainChain' \in Seq(Blocks)
      BY <1>1, <2>2 DEF SharedTyped
    <3> HIDE DEF l
    <3> QED BY <1>1, <2>1, <2>2, <3>2, <3>3, <3>4, QuietMove DEF Fits, SharedTyped, Running
  <2>3. CASE status' = "crashed" /\ UNCHANGED <<mainChain, local, pc>>
    BY <1>1, <2>1, <2>3, QuietStep DEF SharedTyped
  <2>4. CASE Goto(w, "replay") /\ UNCHANGED <<mainChain, local, status>>
    BY <1>1, <2>1, <2>4, GotoMoves, QuietMove DEF Fits, SharedTyped, Running
  <2> QED BY <1>8, <2>2, <2>3, <2>4 DEF Rollback
<1>9. CASE Replay(w)
  <2>1. pc[w] = "replay" /\ UNCHANGED <<known, height, orphanBlocks, tasks, arg>>
    BY <1>9 DEF Replay, At
  <2> DEFINE chain == local[w].chain
             l == [local[w] EXCEPT !.chain = Tail(@)]
  <2>2. CASE /\ chain # <<>> /\ UNCHANGED <<pc, status>>
             /\ mainChain' = Append(mainChain, chain[1])
             /\ local' = [local EXCEPT ![w].chain = Tail(@)]
    <3>1. chain[1] \in Blocks /\ Tail(chain) \in Seq(Blocks)
      BY <1>1, <2>2 DEF Local
    <3>2. l \in Local
      BY <1>1, <3>1 DEF Local
    <3>3. Moves(w, "replay", b, l)
      BY <2>1, <2>2 DEF Moves, IInv, ThreadsTyped, Local
    <3>4. mainChain' \in Seq(Blocks)
      BY <1>1, <2>2, <3>1 DEF SharedTyped
    <3> HIDE DEF l
    <3> QED BY <1>1, <2>1, <2>2, <3>2, <3>3, <3>4, QuietMove DEF Fits, SharedTyped, Running
  <2>3. CASE status' = "aborted" /\ UNCHANGED <<mainChain, local, pc>>
    BY <1>1, <2>1, <2>3, QuietStep DEF SharedTyped
  <2>4. CASE Goto(w, "descend") /\ UNCHANGED <<mainChain, local, status>>
    BY <1>1, <2>1, <2>4, GotoMoves, QuietMove DEF Fits, SharedTyped, Running
  <2> QED BY <1>9, <2>2, <2>3, <2>4 DEF Replay
<1> QED BY <1>2, <1>3, <1>4, <1>5, <1>6, <1>7, <1>8, <1>9

\* The statements that touch heights or orphans, and the loops over the descendants.
LEMMA OtherStepKeeps ==
  ASSUME IInv, NEW w \in Workers,
         \/ KeepOrphan(w) \/ SetGenesisHeight(w) \/ SetHeight(w) \/ FindDescendants(w)
         \/ EnqueueDescendant(w) \/ ReadErased(w)
  PROVE  IInv'
<1> DEFINE b == arg[w]
<1>1. b \in Hashes /\ local[w] \in Local /\ SharedTyped /\ Fits(pc[w], b)
  BY DEF IInv, ThreadsTyped, ArgsFit
<1>2. CASE KeepOrphan(w)
  <2>1. /\ b \in Blocks /\ Prev[b] \in Hashes
        /\ Finish(w) /\ UNCHANGED <<known, height, mainChain, tasks, status>>
        /\ \E entries \in {Append(orphanBlocks[Prev[b]], b), <<b>> \o orphanBlocks[Prev[b]]} :
             orphanBlocks' = [orphanBlocks EXCEPT ![Prev[b]] = entries]
    BY <1>1, <1>2, BlocksAssumption DEF KeepOrphan, At, Fits, Hashes
  <2>2. PICK entries : /\ entries \in Seq(Blocks) /\ entries # <<>>
                       /\ orphanBlocks' = [orphanBlocks EXCEPT ![Prev[b]] = entries]
    <3> DEFINE old == orphanBlocks[Prev[b]]
    <3>1. old \in Seq(Blocks)
      BY <1>1, <2>1 DEF SharedTyped
    <3>2. Append(old, b) \in Seq(Blocks) /\ <<b>> \o old \in Seq(Blocks)
      BY <2>1, <3>1
    <3>3. /\ Len(old) \in Nat /\ Len(<<>>) = 0
          /\ Len(Append(old, b)) = Len(old) + 1 /\ Len(<<b>> \o old) = 1 + Len(old)
      BY <2>1, <3>1
    <3> HIDE DEF old
    <3>4. Append(old, b) # <<>> /\ <<b>> \o old # <<>>
      <4>1. Len(Append(old, b)) # Len(<<>>) /\ Len(<<b>> \o old) # Len(<<>>)
        BY <3>3
      <4> QED BY <4>1, Zenon
    <3> USE DEF old
    <3> QED BY <2>1, <3>2, <3>4
  <2>3. SharedTyped' /\ Connected' = Connected
    BY <1>1, <2>1, <2>2 DEF SharedTyped, Connected
  <2>4. \A v \in Workers : pc[v] = "descendLoop" => orphanBlocks'[arg[v]] # <<>>
    BY <1>1, <2>1, <2>2 DEF SharedTyped, IInv, LoopHasEntry, ThreadsTyped
  <2>5. ThreadsTyped' /\ ArgsFit' /\ LoopHasEntry'
    BY <2>1, <2>3, <2>4, FinishMoves, ThreadMoves DEF Fits, Resting
  <2> QED BY <2>1, <2>3, <2>5 DEF IInv, HeightsFollowPrev
<1>3. CASE SetGenesisHeight(w)
  <2>1. b = Genesis /\ GiveHeight(w, 0, "pushGenesis")
    BY <1>1, <1>3 DEF SetGenesisHeight, At, Fits
  <2> QED BY <2>1, GiveHeightKeeps, BlocksAssumption
<1>4. CASE SetHeight(w)
  <2>1. /\ b \in Blocks /\ Prev[b] \in Connected /\ b # Genesis
        /\ GiveHeight(w, height[Prev[b]] + 1, "erase")
    BY <1>1, <1>4, BlocksAssumption DEF SetHeight, At, Fits, Connected
  <2>2. height[Prev[b]] + 1 \in Nat
    BY <1>1, <2>1 DEF Connected, SharedTyped
  <2> QED BY <2>1, <2>2, GiveHeightKeeps
<1>5. CASE FindDescendants(w)
  <2>1. pc[w] = "descend" /\ b \in Blocks /\ UNCHANGED shared
    BY <1>1, <1>5 DEF FindDescendants, At, Fits
  <2>2. CASE orphanBlocks[b] = <<>>
    BY <1>1, <1>5, <2>1, <2>2, FinishMoves, QuietMove
       DEF FindDescendants, shared, Fits, SharedTyped, Resting
  <2>3. CASE orphanBlocks[b] # <<>>
    <3>1. Moves(w, "descendLoop", b, NoLocal) /\ NoLocal \in Local
      BY <1>1, <1>5, <2>3
         DEF FindDescendants, Stop, Goto, Moves, IInv, ThreadsTyped, NoLocal, Local, Hashes
    <3>2. Connected' = Connected /\ SharedTyped'
      BY <1>1, <2>1 DEF shared, Connected, SharedTyped
    <3>3. ThreadsTyped' /\ ArgsFit' /\ LoopHasEntry'
      BY <1>1, <2>1, <2>3, <3>1, <3>2, ThreadMoves DEF shared, Fits, Resting, IInv, LoopHasEntry
    <3> QED BY <2>1, <3>2, <3>3 DEF IInv, HeightsFollowPrev, shared
  <2> QED BY <2>2, <2>3
<1>6. CASE EnqueueDescendant(w)
  <2>1. pc[w] = "descendLoop" /\ b \in Blocks /\ orphanBlocks[b] # <<>>
    BY <1>1, <1>6 DEF EnqueueDescendant, At, Fits, IInv, LoopHasEntry
  <2>2. orphanBlocks[b][1] \in Blocks
    BY <1>1, <2>1 DEF SharedTyped, Hashes
  <2>3. tasks' \subseteq Task
    BY <1>1, <1>6, <2>2 DEF EnqueueDescendant, SharedTyped, Task
  <2> QED BY <1>1, <1>6, <2>3, QuietStep DEF EnqueueDescendant, SharedTyped
<1>7. CASE ReadErased(w)
  <2>1. tasks' \subseteq Task
    BY <1>1, <1>7 DEF ReadErased, At, Fits, SharedTyped, Task
  <2> QED BY <1>1, <1>7, <2>1, QuietStep DEF ReadErased, SharedTyped
<1> QED BY <1>2, <1>3, <1>4, <1>5, <1>6, <1>7

\* Messages and tasks, at which a thread begins a run.
LEMMA BeginKeeps ==
  ASSUME IInv, NEW w \in Workers, NEW b \in Blocks, Begin(w, b),
         known' \subseteq Blocks, tasks' \subseteq Task
  PROVE  IInv'
<1>1. Moves(w, "genesis?", b, local[w]) /\ local[w] \in Local
  BY DEF Begin, Goto, Moves, IInv, ThreadsTyped
<1> QED BY <1>1, QuietMove DEF Begin, Fits, IInv, SharedTyped, Running, Hashes

\* Every statement of every thread keeps the invariant.
LEMMA StepInvariant == IInv /\ [Next]_vars => IInv'
<1> SUFFICES ASSUME IInv, [Next]_vars PROVE IInv'
  OBVIOUS
<1>1. SharedTyped
  BY DEF IInv
<1>2. ASSUME NEW w \in Workers, NEW b \in Blocks, ReceiveHeader(w, b) \/ ReceiveBlock(w, b)
      PROVE  IInv'
  <2>1. known' \subseteq Blocks /\ tasks' \subseteq Task
    BY <1>1, <1>2 DEF ReceiveHeader, ReceiveBlock, SharedTyped, Task
  <2> QED BY <1>1, <1>2, <2>1, QuietStep DEF ReceiveHeader, ReceiveBlock, SharedTyped
<1>3. ASSUME NEW w \in Workers, NEW b \in Blocks,
             ReceiveRoot(w, b) \/ RunAddBlock(w, b) \/ RunConnect(w, b)
      PROVE  IInv'
  BY <1>1, <1>3, BeginKeeps DEF ReceiveRoot, RunAddBlock, RunConnect, SharedTyped
<1>4. CASE UNCHANGED vars
  BY <1>1, <1>4, QuietStep DEF vars, shared, SharedTyped
<1>5. ASSUME NEW w \in Workers, Step(w)
      PROVE  IInv'
  BY <1>5, EraseKeeps, PlainStepKeeps, OtherStepKeeps DEF Step
<1> QED BY <1>2, <1>3, <1>4, <1>5 DEF Next

\* The invariant holds before the first block comes.
LEMMA InitInvariant == Init => IInv
<1> SUFFICES ASSUME Init PROVE IInv
  OBVIOUS
<1>1. SharedTyped
  BY DEF Init, SharedTyped
<1>2. ThreadsTyped
  BY DEF Init, ThreadsTyped, Resting, Hashes, NoLocal, Local
<1>3. ArgsFit /\ LoopHasEntry /\ HeightsFollowPrev
  BY DEF Init, ArgsFit, Fits, LoopHasEntry, HeightsFollowPrev, Connected
<1> QED BY <1>1, <1>2, <1>3 DEF IInv

-----------------------------------------------------------------------------
\* The inductive invariant of interleaved runs holds in every reachable state.
THEOREM Invariance == Spec => []IInv
BY StepInvariant, InitInvariant, PTL DEF Spec

\* Whatever is interleaved, the shared containers and the locals keep their types: no
\* null block is put on the stack or on _mainChain, and no thread loops over an empty list.
THEOREM TypeCorrect == Spec => []TypeOK
<1>1. IInv => TypeOK
  BY DEF IInv, SharedTyped, ThreadsTyped, LoopHasEntry, Local, TypeOK
<1> QED BY <1>1, Invariance, PTL

\* Whatever is interleaved, a block has the height its ancestry gives it.
THEOREM HeightsAlwaysFollowPrev == Spec => []HeightsFollowPrev
<1>1. IInv => HeightsFollowPrev
  BY DEF IInv
<1> QED BY <1>1, Invariance, PTL

-----------------------------------------------------------------------------
\* Blockchain and its proofs, of the state of Atomic.
A == INSTANCE BlockchainProofs WITH
  known <- abs({}, known, before.known),
  height <- abs([b \in Blocks |-> NoHeight], height, before.height),
  mainChain <- abs(<<>>, mainChain, before.mainChain),
  orphanBlocks <- abs([p \in Hashes |-> <<>>], orphanBlocks, before.orphanBlocks),
  tasks <- abs({}, tasks, before.tasks),
  worker <- abs([w \in Workers |-> [loop |-> "idle", at |-> Null]], Stuckness, before.worker),
  status <- abs("running", status, status),
  transactions <- {},
  Txs <- {},
  TxOf <- [b \in Blocks |-> {}],
  Malformed <- {}

\* How a run began: with a block that has no previous one, or with a task.
Began(b) ==
  \/ Prev[b] = Null /\ tasks = before.tasks /\ known = before.known \cup {b}
  \/ /\ [op |-> "addBlock", block |-> b] \in before.tasks
     /\ tasks = before.tasks \ {[op |-> "addBlock", block |-> b]}
     /\ known = before.known \cup {b}
  \/ /\ [op |-> "connect", block |-> b] \in before.tasks
     /\ tasks = before.tasks \ {[op |-> "connect", block |-> b]}
     /\ known = before.known

Waiting == orphanBlocks = before.orphanBlocks /\ Stuckness = before.worker
Untouched == height = before.height /\ mainChain = before.mainChain /\ Waiting

\* setHeight has been called, of the genesis block or of another.
Rooted(b) ==
  /\ before.mainChain = <<>> /\ b = Genesis
  /\ height = [before.height EXCEPT ![b] = 0] /\ Waiting

Given(b) ==
  /\ before.mainChain # <<>>
  /\ Prev[b] \in known /\ Prev[b] \in Blocks /\ before.height[Prev[b]] # NoHeight
  /\ Asserts => before.height[b] = NoHeight
  /\ height = [before.height EXCEPT ![b] = before.height[Prev[b]] + 1]

\* The first orphan has been looked at.
Erased(b) ==
  LET entries == before.orphanBlocks[Prev[b]]
  IN  \/ entries = <<>> /\ Waiting
      \/ /\ entries # <<>> /\ Head(entries) = b
         /\ orphanBlocks = [before.orphanBlocks EXCEPT ![Prev[b]] = Tail(@)]
         /\ Stuckness = [v \in Workers |->
              IF before.worker[v] = [loop |-> "descendants", at |-> Prev[b]]
                THEN [loop |-> "dangling", at |-> b] ELSE before.worker[v]]

\* The branch of the block, and the part of it that is on the stack from k on.
Size(b) == height[b] + 1
Branch(b) == A!Path(b, Size(b))
Rest(b, k) == SubSeq(Branch(b), k + 1, Size(b))

\* Where the three loops are: at the block of height k - 1.
Climbs(b, l) ==
  /\ mainChain = before.mainChain /\ l.top = Len(mainChain) - 1 /\ Size(b) >= Len(mainChain)
  /\ \E k \in Len(mainChain)..Size(b) : l.block = Branch(b)[k] /\ l.chain = Rest(b, k)

AtTop(b, l) ==
  /\ mainChain = before.mainChain /\ Size(b) >= Len(mainChain)
  /\ l.block = Branch(b)[Len(mainChain)] /\ l.chain = Rest(b, Len(mainChain))

WalksBack(b, l) ==
  /\ Size(b) >= Len(before.mainChain)
  /\ \E k \in 1..Len(before.mainChain) :
       /\ l.block = Branch(b)[k] /\ l.old = before.mainChain[k] /\ l.chain = Rest(b, k)
       /\ mainChain = SubSeq(before.mainChain, 1, k)

Replays(b, l) ==
  /\ Size(b) >= Len(before.mainChain)
  /\ \E k \in 1..Size(b) : mainChain = SubSeq(Branch(b), 1, k) /\ l.chain = Rest(b, k)

Settled(b) ==
  mainChain = IF height[b] >= Len(before.mainChain) - 1 THEN Branch(b) ELSE before.mainChain

\* How far the run of b with the locals l has come at the statement p.
Progress(p, b, l) ==
  /\ p \in {"genesis?", "orphan", "setGenesis", "prev", "setHeight"} => Untouched
  /\ p \in {"orphan", "setGenesis"} => mainChain = <<>>
  /\ p = "orphan" => ~(b = Genesis /\ Prev[b] = Null)
  /\ p \in {"prev", "setHeight"} => mainChain # <<>>
  /\ p = "setHeight" => Prev[b] \in known /\ inChain(Prev[b])
  /\ p = "pushGenesis" => Rooted(b) /\ mainChain = <<>>
  /\ p = "erase" => Given(b) /\ mainChain = before.mainChain /\ Waiting
  /\ p \in {"measure", "climb", "top", "rollback", "replay"} => Given(b) /\ Erased(b)
  /\ p = "measure" => mainChain = before.mainChain
  /\ p = "climb" => Climbs(b, l)
  /\ p = "top" => AtTop(b, l)
  /\ p = "rollback" => WalksBack(b, l)
  /\ p = "replay" => Replays(b, l)
  /\ p = "descend" => \/ Rooted(b) /\ mainChain = <<b>>
                      \/ Given(b) /\ Erased(b) /\ Settled(b)

RunFits ==
  \A w \in Workers :
    ~overlap /\ pc[w] \in Running =>
      /\ \A v \in Workers \ {w} : pc[v] \in Resting
      /\ status = "running" /\ before.worker[w] = A!Idle
      /\ Began(arg[w]) /\ Progress(pc[w], arg[w], local[w])

-----------------------------------------------------------------------------
\* The abstract state during a run, between runs, and where runs overlap.
LEMMA Stutters ==
  ASSUME UNCHANGED <<overlap, before, status>>, ~overlap => InRun /\ InRun'
  PROVE  UNCHANGED A!vars
BY DEF A!vars, abs

\* A step of the abstract state from what was before a run to what is after it.
LEMMA RunEnds ==
  ASSUME ~overlap, ~overlap', InRun, ~InRun', NEW w \in Workers, NEW b \in Blocks,
         status = "running", before.worker[w] = A!Idle, Began(b), UNCHANGED <<known, tasks>>,
         A!connectToAncestor(w, b)
  PROVE  A!Next
<1> DEFINE C == A!connectToAncestor(w, b)
<1>1. C
  OBVIOUS
<1> HIDE DEF C
<1>2. A!Ready(w)
  BY DEF A!Ready, abs
<1>3. CASE Prev[b] = Null /\ tasks = before.tasks /\ known = before.known \cup {b}
  <2>1. A!addBlock(w, b)
    BY <1>1, <1>3 DEF A!addBlock, abs, C
  <2>2. A!ReceiveBlock(w, b)
    BY <1>2, <1>3, <2>1 DEF A!ReceiveBlock, abs
  <2> QED BY <2>2 DEF A!Next
<1>4. CASE /\ [op |-> "addBlock", block |-> b] \in before.tasks
           /\ tasks = before.tasks \ {[op |-> "addBlock", block |-> b]}
           /\ known = before.known \cup {b}
  <2>1. A!addBlock(w, b)
    BY <1>1, <1>4 DEF A!addBlock, abs, C
  <2>2. A!RunAddBlock(w, b)
    BY <1>2, <1>4, <2>1 DEF A!RunAddBlock, abs
  <2> QED BY <2>2 DEF A!Next
<1>5. CASE /\ [op |-> "connect", block |-> b] \in before.tasks
           /\ tasks = before.tasks \ {[op |-> "connect", block |-> b]}
           /\ known = before.known
  <2>1. A!RunConnect(w, b)
    BY <1>1, <1>2, <1>5 DEF A!RunConnect, abs, C
  <2> QED BY <2>1 DEF A!Next
<1> QED BY <1>3, <1>4, <1>5 DEF Began

\* What a thread is stuck in changes only where a loop is entered.
LEMMA StuckSame ==
  ASSUME IInv, NEW w \in Workers, NEW p \in Running \cup {"idle"}, NEW b, NEW l,
         pc[w] \in Running \cup {"idle"}, Moves(w, p, b, l)
  PROVE  Stuckness' = Stuckness
BY DEF IInv, ThreadsTyped, Moves, Stuckness, Running

\* A thread that enters a loop is a stuck worker of Blockchain.
LEMMA StuckInLoop ==
  ASSUME IInv, NEW w \in Workers, NEW b, NEW l,
         pc[w] \in Running, Moves(w, "descendLoop", b, l)
  PROVE  Stuckness' = [Stuckness EXCEPT ![w] = [loop |-> "descendants", at |-> b]]
BY DEF IInv, ThreadsTyped, Moves, Stuckness, Running

\* A run that ends leaves no thread in one.
LEMMA RunIsOver ==
  ASSUME NEW w \in Workers, \A v \in Workers \ {w} : pc[v] \in Resting /\ pc'[v] \in Resting,
         pc[w] \in Running, pc'[w] \in Resting
  PROVE  InRun /\ ~InRun'
BY DEF InRun, Running, Resting

\* A run that ends with an orphan is one step of Blockchain.
LEMMA RecordOrphanEnds ==
  ASSUME IInv, RunFits, ~overlap, ~overlap', NEW w \in Workers, KeepOrphan(w)
  PROVE  A!Next
<1> DEFINE b == arg[w]
<1>1. /\ pc[w] = "orphan" /\ Finish(w) /\ Len(orphanBlocks[Prev[b]]) < MaxOrphans
      /\ UNCHANGED <<known, height, mainChain, tasks, status>>
      /\ \E entries \in {Append(orphanBlocks[Prev[b]], b), <<b>> \o orphanBlocks[Prev[b]]} :
           orphanBlocks' = [orphanBlocks EXCEPT ![Prev[b]] = entries]
  BY DEF KeepOrphan, At
<1>2. /\ b \in Blocks /\ Began(b) /\ Progress("orphan", b, local[w])
      /\ status = "running" /\ before.worker[w] = A!Idle
      /\ \A v \in Workers \ {w} : pc[v] \in Resting
  BY <1>1 DEF RunFits, Running, IInv, ArgsFit, Fits
<1>3. InRun /\ ~InRun'
  BY <1>1, <1>2, RunIsOver DEF Running, Resting, Finish, Stop, Goto, IInv, ThreadsTyped
<1>4. Stuckness' = Stuckness
  BY <1>1, FinishMoves, StuckSame DEF Running
<1>5. /\ height = before.height /\ mainChain = before.mainChain /\ mainChain = <<>>
      /\ orphanBlocks = before.orphanBlocks /\ Stuckness = before.worker
      /\ ~(b = Genesis /\ Prev[b] = Null)
  BY <1>2 DEF Progress, Untouched, Waiting
<1>6. A!RecordOrphan(b)
  BY <1>1, <1>2, <1>3, <1>4, <1>5 DEF A!RecordOrphan, A!IsGenesis, abs
<1>7. A!connectToAncestor(w, b)
  BY <1>6 DEF A!connectToAncestor
<1> QED BY <1>1, <1>2, <1>3, <1>7, RunEnds

\* What the invariants say of the one run in progress.
LEMMA RunFacts ==
  ASSUME IInv, RunFits, ~overlap, NEW w \in Workers, pc[w] \in Running
  PROVE  /\ arg[w] \in Blocks /\ Began(arg[w]) /\ Progress(pc[w], arg[w], local[w])
         /\ status = "running" /\ before.worker[w] = A!Idle
         /\ \A v \in Workers \ {w} : pc[v] \in Resting
BY DEF RunFits, Running, IInv, ArgsFit, Fits

\* A run that ends where it has not touched anything, or with an assertion.
LEMMA FinishEnds ==
  ASSUME IInv, RunFits, ~overlap, ~overlap', NEW w \in Workers, pc[w] \in Running, Finish(w),
         UNCHANGED <<known, tasks>>,
         InRun /\ ~InRun' /\ Stuckness' = Stuckness => A!connectToAncestor(w, arg[w])
  PROVE  A!Next
<1>1. InRun /\ ~InRun'
  BY RunFacts, RunIsOver DEF Running, Resting, Finish, Stop, Goto, IInv, ThreadsTyped
<1>2. Stuckness' = Stuckness
  BY FinishMoves, StuckSame
<1> HIDE DEF Finish
<1>3. A!connectToAncestor(w, arg[w])
  BY <1>1, <1>2
<1> QED BY <1>1, <1>3, RunEnds, RunFacts

\* A run that finds its parent unconnected is one step of Blockchain.
LEMMA RefuseUnconnectedEnds ==
  ASSUME IInv, RunFits, ~overlap, ~overlap', NEW w \in Workers, FindPrev(w), Finish(w)
  PROVE  A!Next
<1> DEFINE b == arg[w]
<1>1. /\ pc[w] = "prev" /\ pc[w] \in Running /\ UNCHANGED shared
      /\ ~(Prev[b] \in known /\ inChain(Prev[b]))
  <2>1. pc[w] = "prev" /\ pc[w] \in Running /\ UNCHANGED shared
    BY DEF FindPrev, At, Running
  <2>2. pc'[w] = "idle"
    BY DEF Finish, Stop, Goto, IInv, ThreadsTyped
  <2>3. ~(Prev[b] \in known /\ inChain(Prev[b]))
    BY <2>2 DEF FindPrev, Goto, IInv, ThreadsTyped
  <2> QED BY <2>1, <2>3
<1>2. /\ height = before.height /\ mainChain = before.mainChain /\ mainChain # <<>>
      /\ orphanBlocks = before.orphanBlocks /\ Stuckness = before.worker
      /\ before.known \subseteq known
  BY <1>1, RunFacts DEF Progress, Untouched, Waiting, Began
<1>3. ASSUME InRun, ~InRun', Stuckness' = Stuckness
      PROVE  A!connectToAncestor(w, b)
  <2>1. A!RefuseUnconnected(b)
    BY <1>1, <1>2, <1>3 DEF A!RefuseUnconnected, A!inChain, A!NoHeight, abs, inChain, NoHeight, shared
  <2> QED BY <2>1 DEF A!connectToAncestor
<1> QED BY <1>1, <1>3, FinishEnds DEF shared

\* The first block that is connected has no height yet.
LEMMA GenesisIsFirst ==
  ASSUME IInv, RunFits, A!IInv, ~overlap, NEW w \in Workers, pc[w] = "setGenesis"
  PROVE  height[arg[w]] = NoHeight
<1>1. arg[w] \in Blocks /\ Progress("setGenesis", arg[w], local[w]) /\ InRun
  BY RunFacts DEF InRun, Running
<1>2. A!Connected = {}
  BY <1>1 DEF A!IInv, A!EmptyOrGenesis, abs, Progress, Untouched
<1> QED BY <1>1, <1>2 DEF A!Connected, A!NoHeight, NoHeight, abs, Progress, Untouched

\* A run that ends at the assertion of setHeight is one step of Blockchain.
LEMMA AssertEnds ==
  ASSUME IInv, RunFits, ~overlap, ~overlap', NEW w \in Workers, SetHeight(w),
         Asserts, height[arg[w]] # NoHeight, status' = "aborted", Finish(w),
         UNCHANGED <<known, height, mainChain, orphanBlocks, tasks>>
  PROVE  A!Next
<1> DEFINE b == arg[w]
<1>1. pc[w] = "setHeight" /\ pc[w] \in Running
  BY DEF SetHeight, At, Running
<1>2. /\ height = before.height /\ mainChain = before.mainChain /\ mainChain # <<>>
      /\ orphanBlocks = before.orphanBlocks /\ Stuckness = before.worker
      /\ Prev[b] \in known /\ inChain(Prev[b])
  BY <1>1, RunFacts DEF Progress, Untouched, Waiting
<1>3. ASSUME InRun, ~InRun', Stuckness' = Stuckness
      PROVE  A!connectToAncestor(w, b)
  <2>1. A!AssertHeightUnset(b)
    BY <1>2, <1>3 DEF A!AssertHeightUnset, A!inChain, A!NoHeight, abs, inChain, NoHeight
  <2> QED BY <2>1 DEF A!connectToAncestor
<1> QED BY <1>1, <1>3, FinishEnds

\* A run that is caught on the orphans before its own.
LEMMA LoopOnFirstOrphanEnds ==
  ASSUME IInv, RunFits, ~overlap, ~overlap', NEW w \in Workers, EraseOrphan(w),
         orphanBlocks[Prev[arg[w]]] # <<>>, orphanBlocks[Prev[arg[w]]][1] # arg[w]
  PROVE  A!Next
<1> DEFINE b == arg[w]
<1>1. /\ pc[w] = "erase" /\ pc[w] \in Running
      /\ UNCHANGED <<known, height, mainChain, tasks, status, local, orphanBlocks>>
      /\ pc' = [v \in Workers |-> IF v = w THEN "eraseLoop" ELSE pc[v]]
      /\ arg' = [v \in Workers |-> IF v # w /\ pc'[v] # pc[v] THEN b ELSE arg[v]]
  BY DEF EraseOrphan, At, Running
<1>2. /\ Given(b) /\ mainChain = before.mainChain /\ Waiting /\ before.worker[w] = A!Idle
      /\ b \in Blocks /\ \A v \in Workers \ {w} : pc[v] \in Resting
      /\ status = "running" /\ Began(b)
  BY <1>1, RunFacts DEF Progress
<1>3. InRun /\ ~InRun'
  BY <1>1, <1>2, RunIsOver DEF Resting
<1>4. Stuckness' = [Stuckness EXCEPT ![w] = [loop |-> "erase", at |-> b]]
  BY <1>1 DEF Stuckness
<1>5. A!CanConnect(b) /\ A!SetHeight(b)
  BY <1>1, <1>2, <1>3
     DEF A!CanConnect, A!SetHeight, A!inChain, A!NoHeight, abs, Given, NoHeight
<1>6. A!LoopOnFirstOrphan(w, b)
  BY <1>1, <1>2, <1>3, <1>4, <1>5 DEF A!LoopOnFirstOrphan, A!Stuck, abs, Waiting
<1>7. A!connectToAncestor(w, b)
  BY <1>6 DEF A!connectToAncestor
<1> QED BY <1>1, <1>2, <1>3, <1>7, RunEnds

\* A run that has put its block, or its branch, where it belongs.
LEMMA DescendantsEnd ==
  ASSUME IInv, RunFits, ~overlap, ~overlap', NEW w \in Workers, FindDescendants(w)
  PROVE  A!Next
<1> DEFINE b == arg[w]
           loops == [loop |-> "descendants", at |-> b]
<1>1. /\ pc[w] = "descend" /\ pc[w] \in Running
      /\ UNCHANGED <<known, height, mainChain, orphanBlocks, tasks, status>>
  BY DEF FindDescendants, At, shared, Running
<1>2. /\ b \in Blocks /\ status = "running" /\ Began(b) /\ before.worker[w] = A!Idle
      /\ \/ Rooted(b) /\ mainChain = <<b>>
         \/ Given(b) /\ Erased(b) /\ Settled(b)
  BY <1>1, RunFacts DEF Progress
<1>3. Stuckness' = IF orphanBlocks[b] = <<>> THEN Stuckness ELSE [Stuckness EXCEPT ![w] = loops]
  <2>1. CASE orphanBlocks[b] = <<>>
    BY <1>1, <2>1, FinishMoves, StuckSame DEF FindDescendants
  <2>2. CASE orphanBlocks[b] # <<>>
    <3>1. Moves(w, "descendLoop", b, NoLocal)
      BY <2>2 DEF FindDescendants, Stop, Goto, Moves, IInv, ThreadsTyped
    <3> QED BY <1>1, <2>2, <3>1, StuckInLoop
  <2> QED BY <2>1, <2>2
<1>4. InRun /\ ~InRun'
  <2>1. /\ \A v \in Workers \ {w} : pc[v] \in Resting /\ pc'[v] \in Resting
        /\ pc'[w] \in Resting
    BY <1>1, RunFacts DEF FindDescendants, Finish, Stop, Goto, IInv, ThreadsTyped, Resting
  <2> QED BY <1>1, <2>1, RunIsOver
<1>5. CASE Rooted(b) /\ mainChain = <<b>>
  <2>1. A!ConnectGenesis(w, b)
    BY <1>1, <1>2, <1>3, <1>4, <1>5, BlocksAssumption
       DEF A!ConnectGenesis, A!IsGenesis, A!FindDescendants, A!Stuck, abs, Rooted, Waiting
  <2>2. A!connectToAncestor(w, b)
    BY <2>1 DEF A!connectToAncestor
  <2> QED BY <1>1, <1>2, <1>4, <2>2, RunEnds
<1>6. CASE Given(b) /\ Erased(b) /\ Settled(b)
  <2>1. A!CanConnect(b) /\ A!SetHeight(b)
    BY <1>1, <1>4, <1>6
       DEF A!CanConnect, A!SetHeight, A!inChain, A!NoHeight, abs, Given, NoHeight
  <2>2. A!ExtendOrReorganise(b)
    BY <1>1, <1>4, <1>6 DEF A!ExtendOrReorganise, A!TopHeight, abs, Settled, Branch, Size
  <2>3. CASE before.orphanBlocks[Prev[b]] = <<>> /\ Waiting
    <3>1. A!ConnectToParent(w, b)
      BY <1>1, <1>3, <1>4, <2>1, <2>2, <2>3
         DEF A!ConnectToParent, A!FindDescendants, A!Stuck, abs, Waiting
    <3> QED BY <1>1, <1>2, <1>4, <3>1, RunEnds DEF A!connectToAncestor
  <2>4. CASE ~(before.orphanBlocks[Prev[b]] = <<>> /\ Waiting)
    <3>1. A!ConnectOrphan(w, b)
      BY <1>1, <1>3, <1>4, <1>6, <2>1, <2>2, <2>4
         DEF A!ConnectOrphan, A!LeaveDangling, abs, Erased
    <3> QED BY <1>1, <1>2, <1>4, <3>1, RunEnds DEF A!connectToAncestor
  <2> QED BY <2>3, <2>4
<1> QED BY <1>2, <1>5, <1>6

-----------------------------------------------------------------------------
\* What Blockchain assumes of its constants.
LEMMA AbstractAssumptions == A!BlocksAssumption /\ A!TxAssumption /\ A!BoundAssumption
BY BlocksAssumption, BoundAssumption
   DEF A!BlocksAssumption, A!TxAssumption, A!BoundAssumption

\* In a run that has given b its height, the branch that leads to it is all registered.
LEMMA BranchIsThere ==
  ASSUME IInv, A!IInv, ~overlap, InRun, NEW b \in Blocks, Given(b), Began(b)
  PROVE  /\ Size(b) \in Nat \ {0} /\ Branch(b) \in Seq(Blocks) /\ Len(Branch(b)) = Size(b)
         /\ Branch(b)[1] = Genesis /\ Branch(b)[Size(b)] = b
         /\ \A i \in 1..Size(b) : Branch(b)[i] \in Blocks /\ height[Branch(b)[i]] = i - 1
         /\ \A i \in 1..Size(b) - 1 :
              Prev[Branch(b)[i + 1]] = Branch(b)[i] /\ Branch(b)[i] \in known
<1> DEFINE p == Prev[b]
           n == before.height[p] + 1
<1>1. /\ before.height \in [Blocks -> Nat \cup {NoHeight}] /\ p \in A!Connected
      /\ \A x \in A!Connected : x \in Blocks /\ x \in known /\ before.height[x] \in Nat
  BY DEF A!IInv, A!TypeOK, A!NoHeight, A!Connected, A!HeightsFollowPrev, abs, Given, Began, NoHeight
<1>2. n \in Nat \ {0} /\ height = [before.height EXCEPT ![b] = n] /\ b # Genesis
  BY <1>1, BlocksAssumption DEF Given
<1>3. \A x \in A!Connected : height[x] = before.height[x]
  <2>1. b \in A!Connected => before.height[b] = n
    BY <1>2 DEF A!IInv, A!HeightsFollowPrev, abs
  <2> QED BY <1>1, <1>2, <2>1
<1>4. Size(b) = n + 1
  BY <1>1, <1>2 DEF Size
<1>5. PICK c : /\ c \in [1..n -> A!Connected] /\ c[1] = Genesis /\ c[n] = p
               /\ \A i \in 1..n : before.height[c[i]] = i - 1
               /\ \A i \in 1..n - 1 : Prev[c[i + 1]] = c[i]
  <2>1. PICK c : A!IsBranch(c, p)
    BY <1>1 DEF A!IInv, A!HasBranch
  <2>2. n - 1 = before.height[p]
    BY <1>1
  <2> QED BY <2>1, <2>2 DEF A!IsBranch, abs
<1> DEFINE d == [i \in 1..n + 1 |-> IF i = n + 1 THEN b ELSE c[i]]
<1>6. /\ d \in [1..n + 1 -> Blocks] /\ d[n + 1] = b /\ d[1] = Genesis
      /\ \A i \in 1..n : d[i] = c[i]
  BY <1>1, <1>2, <1>5
<1>7. \A i \in 1..n : Prev[d[i + 1]] = d[i] /\ d[i] \in known
  <2> SUFFICES ASSUME NEW i \in 1..n PROVE Prev[d[i + 1]] = d[i] /\ d[i] \in known
    OBVIOUS
  <2>1. CASE i = n
    BY <1>1, <1>2, <1>5, <1>6, <2>1
  <2>2. CASE i # n
    <3>1. i \in 1..n - 1 /\ i + 1 \in 1..n
      BY <1>2, <2>2
    <3> QED BY <1>1, <1>5, <1>6, <3>1
  <2> QED BY <2>1, <2>2
<1>8. \A i \in 1..n + 1 : height[d[i]] = i - 1
  BY <1>1, <1>2, <1>3, <1>5
<1> HIDE DEF d, n
<1>9. Branch(b) = d
  <2>1. (n + 1) \in Nat \ {0} /\ (n + 1) - 1 = n
    BY <1>2
  <2>2. A!Path(b, n + 1) = d
    BY <1>6, <1>7, <2>1, A!PathIsBranch, AbstractAssumptions
  <2> QED BY <1>4, <2>2 DEF Branch
<1>10. d \in Seq(Blocks) /\ Len(d) = n + 1
  BY <1>2, <1>6
<1>11. \A i \in 1..n + 1 : d[i] \in Blocks
  BY <1>6
<1>12. n + 1 \in Nat \ {0} /\ (n + 1) - 1 = n
  BY <1>2
<1> QED BY <1>4, <1>6, <1>7, <1>8, <1>9, <1>10, <1>11, <1>12

\* So is the main chain before the run.
LEMMA ChainIsThere ==
  ASSUME IInv, A!IInv, ~overlap, InRun, NEW b \in Blocks, Given(b), Began(b)
  PROVE  /\ before.mainChain \in Seq(Blocks) /\ Len(before.mainChain) \in Nat \ {0}
         /\ before.mainChain[1] = Genesis
         /\ \A i \in 1..Len(before.mainChain) - 1 :
              /\ Prev[before.mainChain[i + 1]] = before.mainChain[i]
              /\ before.mainChain[i] \in known
<1> DEFINE c == before.mainChain
<1>1. /\ c \in Seq(Blocks) /\ c # <<>> /\ before.height \in [Blocks -> Nat \cup {NoHeight}]
      /\ c[1] = Genesis /\ \A i \in 1..Len(c) - 1 : Prev[c[i + 1]] = c[i]
      /\ \A i \in 1..Len(c) : before.height[c[i]] = i - 1
  BY DEF A!IInv, A!TypeOK, A!NoHeight, A!MainChainIsBranch, abs, Given, NoHeight
<1>2. \A i \in 1..Len(c) : c[i] \in Blocks /\ c[i] \in A!Connected
  BY <1>1 DEF A!Connected, A!NoHeight, abs
<1>3. \A x \in A!Connected : x \in known
  BY DEF A!IInv, A!HeightsFollowPrev, abs, Began
<1> QED BY <1>1, <1>2, <1>3

-----------------------------------------------------------------------------
\* The stack takes the block below its first one, and gives back its first one.
LEMMA StackGrows ==
  ASSUME NEW d \in Seq(Blocks), NEW k \in 1..Len(d)
  PROVE  /\ <<d[k]>> \o SubSeq(d, k + 1, Len(d)) = SubSeq(d, k, Len(d))
         /\ SubSeq(d, k, Len(d)) # <<>>
         /\ Head(SubSeq(d, k, Len(d))) = d[k]
         /\ SubSeq(d, k, Len(d))[1] = d[k]
         /\ Tail(SubSeq(d, k, Len(d))) = SubSeq(d, k + 1, Len(d))
<1>1. /\ Len(d) \in Nat /\ k \in Int /\ Len(d) \in k..Len(d)
      /\ \A i \in k..Len(d) : d[i] \in Blocks
  OBVIOUS
<1>2. SubSeq(d, k, Len(d)) = <<d[k]>> \o SubSeq(d, k + 1, Len(d))
  BY <1>1, SubSeqRecursiveFirst
<1>3. /\ Head(SubSeq(d, k, Len(d))) = d[k]
      /\ Tail(SubSeq(d, k, Len(d))) = SubSeq(d, k + 1, Len(d))
  BY <1>1, HeadTailOfSubSeq
<1> DEFINE e == SubSeq(d, k, Len(d))
<1>4. e \in Seq(Blocks) /\ Len(e) = Len(d) - k + 1 /\ e[1] = d[k]
  <2>1. /\ SubSeq(d, k, Len(d)) \in Seq(Blocks)
        /\ Len(SubSeq(d, k, Len(d))) = IF k <= Len(d) THEN Len(d) - k + 1 ELSE 0
        /\ \A i \in 1..Len(d) - k + 1 : SubSeq(d, k, Len(d))[i] = d[k + i - 1]
    BY <1>1, SubSeqProperties
  <2>2. 1 \in 1..Len(d) - k + 1 /\ k + 1 - 1 = k /\ k <= Len(d)
    BY <1>1
  <2> QED BY <2>1, <2>2
<1> HIDE DEF e
<1>5. Len(e) # Len(<<>>)
  BY <1>1, <1>4
<1>6. e # <<>>
  BY <1>5, Zenon
<1> USE DEF e
<1> QED BY <1>2, <1>3, <1>4, <1>6

\* The first blocks of a branch: one more, one less, all of them.
LEMMA PrefixGrows ==
  ASSUME NEW d \in Seq(Blocks), NEW k \in 1..Len(d)
  PROVE  /\ SubSeq(d, 1, k) \in Seq(Blocks) /\ Len(SubSeq(d, 1, k)) = k
         /\ \A i \in 1..k : SubSeq(d, 1, k)[i] = d[i]
         /\ k < Len(d) => Append(SubSeq(d, 1, k), d[k + 1]) = SubSeq(d, 1, k + 1)
         /\ k > 1 => SubSeq(SubSeq(d, 1, k), 1, k - 1) = SubSeq(d, 1, k - 1)
         /\ SubSeq(d, 1, Len(d)) = d
<1>1. /\ Len(d) \in Nat /\ \A i \in 1..k : d[i] \in Blocks
      /\ k < Len(d) => d[k + 1] \in Blocks
  OBVIOUS
<1>2. /\ SubSeq(d, 1, k) \in Seq(Blocks) /\ Len(SubSeq(d, 1, k)) = k
      /\ \A i \in 1..k : SubSeq(d, 1, k)[i] = d[i]
  <2>1. /\ SubSeq(d, 1, k) \in Seq(Blocks)
        /\ Len(SubSeq(d, 1, k)) = IF 1 <= k THEN k - 1 + 1 ELSE 0
        /\ \A i \in 1..k - 1 + 1 : SubSeq(d, 1, k)[i] = d[1 + i - 1]
    BY <1>1, SubSeqProperties
  <2> QED BY <1>1, <2>1
<1>3. ASSUME k < Len(d) PROVE Append(SubSeq(d, 1, k), d[k + 1]) = SubSeq(d, 1, k + 1)
  <2>1. 1 \in 1..Len(d) /\ k + 1 \in 1..Len(d) /\ (k + 1) - 1 = k
    BY <1>1, <1>3
  <2>2. SubSeq(d, 1, k + 1) = SubSeq(d, 1, k) \o <<d[k + 1]>>
    BY <2>1, SubSeqRecursiveSecond
  <2>3. Append(SubSeq(d, 1, k), d[k + 1]) = SubSeq(d, 1, k) \o <<d[k + 1]>>
    BY <1>1, <1>2, <1>3, AppendIsConcat
  <2> QED BY <2>2, <2>3
<1>4. ASSUME k > 1 PROVE SubSeq(SubSeq(d, 1, k), 1, k - 1) = SubSeq(d, 1, k - 1)
  <2>1. /\ 1 \in 1..Len(d) /\ 1 \in 1..k - 1 + 1 /\ k - 1 \in 1..k - 1 + 1
        /\ 1 + 1 - 1 = 1 /\ 1 + (k - 1) - 1 = k - 1
    BY <1>1, <1>4
  <2> QED BY <2>1, SubSeqOfSubSeq
<1>5. SubSeq(d, 1, Len(d)) = d
  BY SubSeqFull
<1> QED BY <1>2, <1>3, <1>4, <1>5

\* Two branches with a block in common are the same up to it.
LEMMA BranchesMeet ==
  ASSUME NEW c \in Seq(Blocks), \A j \in 1..Len(c) - 1 : Prev[c[j + 1]] = c[j],
         NEW d \in Seq(Blocks), \A j \in 1..Len(d) - 1 : Prev[d[j + 1]] = d[j],
         Len(c) <= Len(d), NEW k \in 1..Len(c), d[k] = c[k]
  PROVE  SubSeq(c, 1, k) = SubSeq(d, 1, k)
<1>1. \A i \in 1..k : d[i] = c[i]
  <2>1. ASSUME NEW i \in 1..k PROVE d[i] = c[i]
    <3>1. i \in 1..Len(c) /\ i <= k
      OBVIOUS
    <3> QED BY <3>1, A!SameBelow, AbstractAssumptions, Z3
  <2> QED BY <2>1
<1> DEFINE e == SubSeq(c, 1, k)
           f == SubSeq(d, 1, k)
<1>2. e \in Seq(Blocks) /\ Len(e) = k /\ \A i \in 1..k : e[i] = c[i]
  BY PrefixGrows
<1>3. f \in Seq(Blocks) /\ Len(f) = k /\ \A i \in 1..k : f[i] = d[i]
  <2>1. k \in 1..Len(d)
    OBVIOUS
  <2> QED BY <2>1, PrefixGrows
<1> HIDE DEF e, f
<1>4. e = f
  BY <1>1, <1>2, <1>3, SeqEqual
<1> QED BY <1>4 DEF e, f

-----------------------------------------------------------------------------
\* A statement in the middle of a run: nobody else moves, and the abstract state stays.
LEMMA StepMoves ==
  ASSUME IInv, RunFits, ~overlap, NEW w \in Workers, pc[w] \in Running,
         NEW p \in Running, NEW l, Moves(w, p, arg[w], l),
         UNCHANGED <<overlap, known, tasks, before, status>>
  PROVE  /\ pc'[w] = p /\ arg'[w] = arg[w] /\ local'[w] = l /\ Stuckness' = Stuckness
         /\ Progress(pc[w], arg[w], local[w])' => RunFits' /\ UNCHANGED A!vars
<1>1. /\ pc'[w] = p /\ arg'[w] = arg[w] /\ local'[w] = l
      /\ \A v \in Workers \ {w} : pc'[v] = pc[v]
  BY DEF Moves, IInv, ThreadsTyped
<1>2. Stuckness' = Stuckness
  BY StuckSame
<1>3. /\ Began(arg[w]) /\ status = "running" /\ before.worker[w] = A!Idle
      /\ \A v \in Workers \ {w} : pc'[v] \in Resting
  BY <1>1, RunFacts
<1>4. Began(arg[w])'
  BY <1>1, <1>3 DEF Began
<1>5. UNCHANGED A!vars
  BY <1>1, Stutters DEF InRun
<1>6. ASSUME Progress(pc[w], arg[w], local[w])'
      PROVE  RunFits'
  <2> SUFFICES ASSUME NEW v \in Workers, pc'[v] \in Running
               PROVE  (/\ \A u \in Workers \ {v} : pc[u] \in Resting
                       /\ status = "running" /\ before.worker[v] = A!Idle
                       /\ Began(arg[v]) /\ Progress(pc[v], arg[v], local[v]))'
    BY DEF RunFits
  <2>1. v = w
    BY <1>3 DEF Running, Resting
  <2> QED BY <1>3, <1>4, <1>6, <2>1 DEF A!Idle
<1> QED BY <1>1, <1>2, <1>5, <1>6

-----------------------------------------------------------------------------
\* The stack of a thread is empty until it climbs, and when it has ended.
StackIsEmpty ==
  \A w \in Workers :
    pc[w] \notin {"climb", "top", "rollback", "replay", "descend"} => local[w].chain = <<>>

\* Only a run that climbs has blocks on its stack.
LEMMA StackStaysEmpty ==
  ASSUME IInv, StackIsEmpty, [Next]_vars
  PROVE  StackIsEmpty'
<1> DEFINE Full == {"climb", "top", "rollback", "replay", "descend"}
<1>1. /\ \A w \in Workers : pc[w] \notin Full => local[w].chain = <<>>
      /\ DOMAIN pc = Workers /\ DOMAIN local = Workers /\ NoLocal.chain = <<>>
      /\ \A w \in Workers : local[w] \in Local
  BY DEF StackIsEmpty, IInv, ThreadsTyped, NoLocal
<1> SUFFICES ASSUME NEW v \in Workers, pc'[v] \notin Full PROVE local'[v].chain = <<>>
  BY DEF StackIsEmpty
<1>2. ASSUME NEW w \in Workers, NEW b \in Blocks,
             \/ ReceiveHeader(w, b) \/ ReceiveBlock(w, b) \/ ReceiveRoot(w, b)
             \/ RunAddBlock(w, b) \/ RunConnect(w, b)
      PROVE  local'[v].chain = <<>>
  BY <1>1, <1>2
     DEF ReceiveHeader, ReceiveBlock, ReceiveRoot, RunAddBlock, RunConnect, Begin, Goto, At
<1>3. ASSUME NEW w \in Workers, Step(w)
      PROVE  local'[v].chain = <<>>
  <2>1. CASE Finish(w)
    <3>1. local'[w] = NoLocal /\ (v # w => pc'[v] = pc[v] /\ local'[v] = local[v])
      BY <1>1, <2>1 DEF Finish, Stop, Goto
    <3> QED BY <1>1, <3>1
  <2>2. CASE UNCHANGED local /\ \A u \in Workers : pc'[u] \notin Full => pc[u] \notin Full
    BY <1>1, <2>2
  <2>3. CASE TestGenesis(w) \/ PushGenesis(w) \/ EnqueueDescendant(w) \/ ReadErased(w)
    BY <1>1, <2>2, <2>3 DEF TestGenesis, PushGenesis, EnqueueDescendant, ReadErased, Goto, At
  <2>4. CASE (SetGenesisHeight(w) \/ SetHeight(w)) /\ ~Finish(w)
    BY <1>1, <2>2, <2>4 DEF SetGenesisHeight, SetHeight, GiveHeight, Goto, At
  <2>5. CASE KeepOrphan(w) \/ FindPrev(w)
    BY <1>1, <2>1, <2>2, <2>5 DEF KeepOrphan, FindPrev, Goto, At
  <2>6. CASE EraseOrphan(w)
    BY <1>1, <2>2, <2>6 DEF EraseOrphan, At
  <2>7. CASE Measure(w) \/ Climb(w) \/ ReadTop(w) \/ Rollback(w)
    <3>1. pc'[w] \in Full
      BY <1>1, <2>7 DEF Measure, Climb, ReadTop, Rollback, Goto, At
    <3>2. v # w
      BY <3>1
    <3>3. pc'[v] = pc[v] /\ local'[v] = local[v]
      BY <1>1, <2>7, <3>2 DEF Measure, Climb, ReadTop, Rollback, Goto
    <3> QED BY <1>1, <3>3
  <2>8. CASE Replay(w)
    <3>1. pc'[w] \in Full
      BY <1>1, <2>8 DEF Replay, Goto, At
    <3>2. v # w
      BY <3>1
    <3>3. pc'[v] = pc[v] /\ local'[v] = local[v]
      BY <1>1, <2>8, <3>2 DEF Replay, Goto
    <3> QED BY <1>1, <3>3
  <2>9. CASE FindDescendants(w) /\ ~Finish(w)
    <3>1. local'[w] = NoLocal /\ (v # w => pc'[v] = pc[v] /\ local'[v] = local[v])
      BY <1>1, <2>9 DEF FindDescendants, Stop, Goto
    <3> QED BY <1>1, <3>1
  <2> QED BY <1>3, <2>1, <2>3, <2>4, <2>5, <2>6, <2>7, <2>8, <2>9 DEF Step
<1>4. CASE UNCHANGED vars
  BY <1>1, <1>4 DEF vars
<1> QED BY <1>2, <1>3, <1>4 DEF Next

-----------------------------------------------------------------------------
\* The test for the genesis block is a stutter of Blockchain.
LEMMA TestGenesisGoesOn ==
  ASSUME IInv, RunFits, ~overlap, UNCHANGED overlap, NEW w \in Workers, TestGenesis(w)
  PROVE  RunFits' /\ UNCHANGED A!vars
<1> DEFINE b == arg[w]
           p == IF mainChain # <<>> THEN "prev"
                ELSE IF b = Genesis /\ Prev[b] = Null THEN "setGenesis" ELSE "orphan"
<1>1. /\ pc[w] = "genesis?" /\ Goto(w, p)
      /\ UNCHANGED <<known, height, mainChain, orphanBlocks, tasks, status, arg, local, before>>
  BY DEF TestGenesis, At, shared
<1>2. Untouched
  BY <1>1, RunFacts DEF Running, Progress
<1>3. p \in Running
  BY DEF Running
<1>4. /\ p \in {"prev", "setGenesis", "orphan"} /\ (p = "prev" <=> mainChain # <<>>)
      /\ p = "orphan" => ~(b = Genesis /\ Prev[b] = Null)
  OBVIOUS
<1> HIDE DEF p
<1>5. /\ pc'[w] = p /\ arg'[w] = arg[w] /\ Stuckness' = Stuckness
      /\ Progress(pc[w], arg[w], local[w])' => RunFits' /\ UNCHANGED A!vars
  <2>1. Moves(w, p, arg[w], local[w])
    BY <1>1, GotoMoves
  <2> QED BY <1>1, <1>3, <2>1, StepMoves DEF Running
<1>6. Progress(pc[w], arg[w], local[w])'
  BY <1>1, <1>2, <1>4, <1>5 DEF Progress, Untouched, Waiting
<1> QED BY <1>5, <1>6

\* The height of the genesis block: a stutter.
LEMMA SetGenesisHeightGoesOn ==
  ASSUME IInv, RunFits, A!IInv, ~overlap, UNCHANGED overlap, NEW w \in Workers,
         SetGenesisHeight(w)
  PROVE  RunFits' /\ UNCHANGED A!vars
<1> DEFINE b == arg[w]
<1>1. pc[w] = "setGenesis" /\ pc[w] \in Running /\ GiveHeight(w, 0, "pushGenesis")
  BY DEF SetGenesisHeight, At, Running
<1>2. /\ height' = [height EXCEPT ![b] = 0] /\ Goto(w, "pushGenesis")
      /\ UNCHANGED <<known, mainChain, orphanBlocks, tasks, status, arg, local, before>>
  BY <1>1, GenesisIsFirst DEF GiveHeight
<1>3. /\ Untouched /\ mainChain = <<>> /\ b = Genesis
  BY <1>1, RunFacts DEF Progress, IInv, ArgsFit, Fits
<1>4. /\ pc'[w] = "pushGenesis" /\ arg'[w] = arg[w] /\ Stuckness' = Stuckness
      /\ Progress(pc[w], arg[w], local[w])' => RunFits' /\ UNCHANGED A!vars
  <2>1. Moves(w, "pushGenesis", arg[w], local[w])
    BY <1>2, GotoMoves
  <2> QED BY <1>1, <1>2, <2>1, StepMoves DEF Running
<1>5. Progress(pc[w], arg[w], local[w])'
  BY <1>2, <1>3, <1>4 DEF Progress, Untouched, Waiting, Rooted
<1> QED BY <1>4, <1>5

\* The genesis block on the main chain: a stutter.
LEMMA PushGenesisGoesOn ==
  ASSUME IInv, RunFits, ~overlap, UNCHANGED overlap, NEW w \in Workers, PushGenesis(w)
  PROVE  RunFits' /\ UNCHANGED A!vars
<1> DEFINE b == arg[w]
<1>1. /\ pc[w] = "pushGenesis" /\ pc[w] \in Running /\ Goto(w, "descend")
      /\ mainChain' = Append(mainChain, b)
      /\ UNCHANGED <<known, height, orphanBlocks, tasks, status, arg, local, before>>
  BY DEF PushGenesis, At, Running
<1>2. Rooted(b) /\ mainChain = <<>> /\ b \in Blocks
  BY <1>1, RunFacts DEF Progress
<1>3. mainChain' = <<b>>
  BY <1>1, <1>2
<1>4. /\ pc'[w] = "descend" /\ arg'[w] = arg[w] /\ Stuckness' = Stuckness
      /\ Progress(pc[w], arg[w], local[w])' => RunFits' /\ UNCHANGED A!vars
  <2>1. Moves(w, "descend", arg[w], local[w])
    BY <1>1, GotoMoves
  <2> QED BY <1>1, <2>1, StepMoves DEF Running
<1>5. Progress(pc[w], arg[w], local[w])'
  BY <1>1, <1>2, <1>3, <1>4 DEF Progress, Waiting, Rooted
<1> QED BY <1>4, <1>5

\* A parent that is found connected: a stutter.
LEMMA FindPrevGoesOn ==
  ASSUME IInv, RunFits, ~overlap, UNCHANGED overlap, NEW w \in Workers, FindPrev(w), ~Finish(w)
  PROVE  RunFits' /\ UNCHANGED A!vars
<1> DEFINE b == arg[w]
<1>1. /\ pc[w] = "prev" /\ pc[w] \in Running /\ Goto(w, "setHeight")
      /\ Prev[b] \in known /\ inChain(Prev[b])
      /\ UNCHANGED <<known, height, mainChain, orphanBlocks, tasks, status, arg, local, before>>
  BY DEF FindPrev, At, Running, shared
<1>2. Untouched /\ mainChain # <<>>
  BY <1>1, RunFacts DEF Progress
<1>3. /\ pc'[w] = "setHeight" /\ arg'[w] = arg[w] /\ Stuckness' = Stuckness
      /\ Progress(pc[w], arg[w], local[w])' => RunFits' /\ UNCHANGED A!vars
  <2>1. Moves(w, "setHeight", arg[w], local[w])
    BY <1>1, GotoMoves
  <2> QED BY <1>1, <2>1, StepMoves DEF Running
<1>4. Progress(pc[w], arg[w], local[w])'
  BY <1>1, <1>2, <1>3 DEF Progress, Untouched, Waiting, inChain
<1> QED BY <1>3, <1>4

\* The height of the block: a stutter.
LEMMA SetHeightGoesOn ==
  ASSUME IInv, RunFits, ~overlap, UNCHANGED overlap, NEW w \in Workers, SetHeight(w),
         status' # "aborted"
  PROVE  RunFits' /\ UNCHANGED A!vars
<1> DEFINE b == arg[w]
<1>1. /\ pc[w] = "setHeight" /\ pc[w] \in Running
      /\ Asserts => height[b] = NoHeight
      /\ height' = [height EXCEPT ![b] = height[Prev[b]] + 1] /\ Goto(w, "erase")
      /\ UNCHANGED <<known, mainChain, orphanBlocks, tasks, status, arg, local, before>>
  BY DEF SetHeight, At, Running, GiveHeight
<1>2. Untouched /\ mainChain # <<>> /\ Prev[b] \in known /\ inChain(Prev[b])
  BY <1>1, RunFacts DEF Progress
<1>3. /\ pc'[w] = "erase" /\ arg'[w] = arg[w] /\ Stuckness' = Stuckness
      /\ Progress(pc[w], arg[w], local[w])' => RunFits' /\ UNCHANGED A!vars
  <2>1. Moves(w, "erase", arg[w], local[w])
    BY <1>1, GotoMoves
  <2> QED BY <1>1, <2>1, StepMoves DEF Running
<1>4. Given(arg[w])' /\ Waiting' /\ mainChain' = before'.mainChain
  BY <1>1, <1>2, <1>3 DEF Given, Untouched, Waiting, inChain
<1>5. Progress(pc[w], arg[w], local[w])'
  BY <1>3, <1>4 DEF Progress
<1> QED BY <1>3, <1>5

\* Erasing the entry of b leaves whoever looped at it with a freed one.
LEMMA EraseOrphanGoesOn ==
  ASSUME IInv, RunFits, ~overlap, UNCHANGED overlap, NEW w \in Workers, EraseOrphan(w),
         orphanBlocks[Prev[arg[w]]] # <<>> => orphanBlocks[Prev[arg[w]]][1] = arg[w]
  PROVE  RunFits' /\ UNCHANGED A!vars
<1> DEFINE b == arg[w]
           entries == orphanBlocks[Prev[b]]
<1>1. /\ pc[w] = "erase" /\ pc[w] \in Running
      /\ UNCHANGED <<known, height, mainChain, tasks, status, local, before>>
  BY DEF EraseOrphan, At, Running
<1>2. /\ Given(b) /\ mainChain = before.mainChain /\ Waiting
      /\ Began(b) /\ status = "running" /\ before.worker[w] = A!Idle
      /\ \A v \in Workers \ {w} : pc[v] \in Resting
  BY <1>1, RunFacts DEF Progress
<1>3. b \in Blocks /\ Prev[b] \in Hashes /\ entries \in Seq(Blocks)
  BY <1>1, RunFacts, BlocksAssumption DEF IInv, SharedTyped, Hashes
<1>4. CASE entries = <<>>
  <2>1. pc' = [pc EXCEPT ![w] = "measure"] /\ arg' = arg /\ orphanBlocks' = orphanBlocks
    BY <1>4 DEF EraseOrphan, IInv, ThreadsTyped
  <2>2. Moves(w, "measure", arg[w], local[w])
    BY <1>1, <2>1 DEF Moves, IInv, ThreadsTyped
  <2>3. /\ pc'[w] = "measure" /\ arg'[w] = arg[w] /\ Stuckness' = Stuckness
        /\ Progress(pc[w], arg[w], local[w])' => RunFits' /\ UNCHANGED A!vars
    BY <1>1, <2>2, StepMoves DEF Running
  <2>4. Given(arg[w])' /\ Erased(arg[w])' /\ mainChain' = before'.mainChain
    BY <1>1, <1>2, <1>4, <2>1, <2>3 DEF Given, Erased, Waiting
  <2>5. Progress(pc[w], arg[w], local[w])'
    BY <2>3, <2>4 DEF Progress
  <2> QED BY <2>3, <2>5
<1>5. CASE entries # <<>> /\ entries[1] = b
  <2>1. /\ orphanBlocks' = [orphanBlocks EXCEPT ![Prev[b]] = Tail(@)]
        /\ pc' = [v \in Workers |->
                   IF v = w THEN "measure"
                   ELSE IF pc[v] = "descendLoop" /\ arg[v] = Prev[b] THEN "dangling" ELSE pc[v]]
        /\ arg' = [v \in Workers |-> IF v # w /\ pc'[v] # pc[v] THEN b ELSE arg[v]]
    BY <1>5 DEF EraseOrphan
  <2>2. /\ pc'[w] = "measure" /\ arg'[w] = b
        /\ \A v \in Workers \ {w} : pc'[v] \in Resting
    BY <1>2, <2>1 DEF Resting
  <2>3. Stuckness' = [v \in Workers |->
          IF Stuckness[v] = [loop |-> "descendants", at |-> Prev[b]]
            THEN [loop |-> "dangling", at |-> b] ELSE Stuckness[v]]
    <3> SUFFICES ASSUME NEW v \in Workers
                 PROVE  Stuckness'[v] =
                          IF Stuckness[v] = [loop |-> "descendants", at |-> Prev[b]]
                            THEN [loop |-> "dangling", at |-> b] ELSE Stuckness[v]
      BY DEF Stuckness
    <3>1. CASE v = w
      BY <1>1, <2>2, <3>1 DEF Stuckness
    <3>2. CASE v # w /\ pc[v] = "descendLoop" /\ arg[v] = Prev[b]
      <4>1. pc'[v] = "dangling" /\ arg'[v] = b
        BY <2>1, <3>2
      <4> QED BY <3>2, <4>1 DEF Stuckness
    <3>3. CASE v # w /\ ~(pc[v] = "descendLoop" /\ arg[v] = Prev[b])
      <4>1. pc'[v] = pc[v] /\ arg'[v] = arg[v]
        BY <2>1, <3>3
      <4> QED BY <3>3, <4>1 DEF Stuckness
    <3> QED BY <3>1, <3>2, <3>3
  <2>4. Given(arg[w])' /\ mainChain' = before'.mainChain
    BY <1>1, <1>2, <2>2 DEF Given
  <2>5. Erased(arg[w])'
    <3>1. Head(entries) = b
      BY <1>3, <1>5
    <3>2. /\ before.orphanBlocks[Prev[b]] # <<>> /\ Head(before.orphanBlocks[Prev[b]]) = b
          /\ orphanBlocks' = [before.orphanBlocks EXCEPT ![Prev[b]] = Tail(@)]
          /\ Stuckness' = [v \in Workers |->
               IF before.worker[v] = [loop |-> "descendants", at |-> Prev[b]]
                 THEN [loop |-> "dangling", at |-> b] ELSE before.worker[v]]
      BY <1>2, <1>5, <2>1, <2>3, <3>1 DEF Waiting
    <3> QED BY <1>1, <2>2, <3>2 DEF Erased
  <2>6. Progress(pc[w], arg[w], local[w])'
    BY <2>2, <2>4, <2>5 DEF Progress
  <2>7. Began(arg[w])'
    BY <1>1, <1>2, <2>2 DEF Began
  <2>8. RunFits'
    <3> SUFFICES ASSUME NEW v \in Workers, pc'[v] \in Running
                 PROVE  (/\ \A u \in Workers \ {v} : pc[u] \in Resting
                         /\ status = "running" /\ before.worker[v] = A!Idle
                         /\ Began(arg[v]) /\ Progress(pc[v], arg[v], local[v]))'
      BY DEF RunFits
    <3>1. v = w
      BY <2>2 DEF Running, Resting
    <3> QED BY <1>1, <1>2, <2>2, <2>6, <2>7, <3>1 DEF A!Idle
  <2>9. UNCHANGED A!vars
    <3>1. InRun /\ InRun'
      BY <1>1, <2>2 DEF InRun, Running
    <3> QED BY <1>1, <3>1, Stutters
  <2> QED BY <2>8, <2>9
<1> QED BY <1>4, <1>5

-----------------------------------------------------------------------------
\* The last three loops change no height and no list.
LEMMA BranchStays ==
  ASSUME NEW w \in Workers, Given(arg[w]), Erased(arg[w]), arg'[w] = arg[w],
         Stuckness' = Stuckness, UNCHANGED <<known, height, orphanBlocks, before>>
  PROVE  /\ Given(arg[w])' /\ Erased(arg[w])' /\ height'[arg'[w]] = height[arg[w]]
         /\ Size(arg[w])' = Size(arg[w]) /\ Branch(arg[w])' = Branch(arg[w])
<1>1. Given(arg[w])' /\ Size(arg[w])' = Size(arg[w])
  BY DEF Given, Size
<1>2. Branch(arg[w])' = Branch(arg[w])
  BY DEF Branch, Size
<1>3. Erased(arg[w])'
  BY DEF Erased, Waiting
<1> QED BY <1>1, <1>2, <1>3

\* The size of the main chain, read once: a stutter.
LEMMA MeasureGoesOn ==
  ASSUME IInv, RunFits, A!IInv, StackIsEmpty, ~overlap, UNCHANGED overlap,
         NEW w \in Workers, Measure(w)
  PROVE  RunFits' /\ UNCHANGED A!vars
<1> DEFINE b == arg[w]
           l == [local[w] EXCEPT !.top = Len(mainChain) - 1, !.block = b]
           p == IF mainChain # <<>> /\ height[b] >= Len(mainChain) - 1 THEN "climb" ELSE "descend"
<1>1. /\ pc[w] = "measure" /\ pc[w] \in Running /\ Goto(w, p)
      /\ local' = [local EXCEPT ![w].top = Len(mainChain) - 1, ![w].block = b]
      /\ UNCHANGED <<known, height, mainChain, orphanBlocks, tasks, status, arg, before>>
  BY DEF Measure, At, Running, shared
<1>2. /\ Given(b) /\ Erased(b) /\ mainChain = before.mainChain
      /\ b \in Blocks /\ Began(b) /\ InRun
  BY <1>1, RunFacts DEF Progress, InRun
<1>3. l.top = Len(mainChain) - 1 /\ l.block = b /\ l.chain = <<>>
  BY <1>1 DEF StackIsEmpty, IInv, ThreadsTyped, Local
<1>4. p \in Running /\ (p = "climb" \/ p = "descend")
  BY DEF Running
<1>5. Moves(w, p, arg[w], l)
  BY <1>1 DEF Moves, Goto, IInv, ThreadsTyped, Local
<1>6. p = "climb" <=> height[b] >= Len(mainChain) - 1
  <2>1. Len(mainChain) \in Nat \ {0}
    BY <1>2, ChainIsThere
  <2>2. mainChain # <<>>
    BY <2>1
  <2> QED BY <2>2
<1> HIDE DEF l, p
<1>7. /\ pc'[w] = p /\ arg'[w] = arg[w] /\ local'[w] = l /\ Stuckness' = Stuckness
      /\ Progress(pc[w], arg[w], local[w])' => RunFits' /\ UNCHANGED A!vars
  BY <1>1, <1>4, <1>5, StepMoves
<1>8. /\ Given(arg[w])' /\ Erased(arg[w])' /\ height'[arg'[w]] = height[b]
      /\ Size(arg[w])' = Size(b) /\ Branch(arg[w])' = Branch(b)
  BY <1>1, <1>2, <1>7, BranchStays
<1>9. /\ Size(b) \in Nat \ {0} /\ Branch(b)[Size(b)] = b /\ Size(b) = height[b] + 1
      /\ height[b] \in Int
      /\ Len(mainChain) \in Nat
  <2>1. height[b] \in Int /\ Len(mainChain) \in Nat
    BY <1>2 DEF IInv, SharedTyped, NoHeight
  <2> QED BY <1>2, <2>1, BranchIsThere DEF Size
<1>10. CASE p = "climb"
  <2>1. /\ Size(b) >= Len(mainChain) /\ Size(b) \in Len(mainChain)..Size(b)
        /\ SubSeq(Branch(b), Size(b) + 1, Size(b)) = <<>>
    <3>1. Size(b) >= Len(mainChain) /\ Size(b) \in Len(mainChain)..Size(b)
      BY <1>6, <1>9, <1>10
    <3>2. Size(b) + 1 \in Int /\ Size(b) \in Int /\ Size(b) < Size(b) + 1
      BY <1>9
    <3> QED BY <3>1, <3>2, SubSeqEmpty
  <2>2. Climbs(arg[w], local[w])'
    BY <1>1, <1>2, <1>3, <1>7, <1>8, <1>9, <2>1 DEF Climbs, Rest
  <2>3. Progress(pc[w], arg[w], local[w])'
    BY <1>7, <1>8, <1>10, <2>2 DEF Progress
  <2> QED BY <1>7, <2>3
<1>11. CASE p = "descend"
  <2>1. ~(height[b] >= Len(before.mainChain) - 1)
    BY <1>2, <1>6, <1>11
  <2>2. Settled(arg[w])'
    BY <1>1, <1>2, <1>8, <2>1 DEF Settled
  <2>3. Progress(pc[w], arg[w], local[w])'
    BY <1>7, <1>8, <1>11, <2>2 DEF Progress
  <2> QED BY <1>7, <2>3
<1> QED BY <1>4, <1>10, <1>11

\* The block below d[k] on the branch is found by its hash.
LEMMA ClimbGoesOn ==
  ASSUME IInv, RunFits, A!IInv, ~overlap, UNCHANGED overlap, NEW w \in Workers, Climb(w)
  PROVE  RunFits' /\ UNCHANGED A!vars
<1> DEFINE b == arg[w]
           l == local[w]
           n == Size(b)
           d == Branch(b)
<1>1. /\ pc[w] = "climb" /\ pc[w] \in Running
      /\ UNCHANGED <<known, height, mainChain, orphanBlocks, tasks, status, arg, before>>
  BY DEF Climb, At, Running, shared
<1>2. /\ Given(b) /\ Erased(b) /\ mainChain = before.mainChain
      /\ b \in Blocks /\ Began(b) /\ InRun /\ Climbs(b, l)
  BY <1>1, RunFacts DEF Progress, InRun, Climbs
<1>3. /\ n \in Nat \ {0} /\ d \in Seq(Blocks) /\ Len(d) = n
      /\ \A i \in 1..n : d[i] \in Blocks /\ height[d[i]] = i - 1
      /\ \A i \in 1..n - 1 : Prev[d[i + 1]] = d[i] /\ d[i] \in known
  BY <1>2, BranchIsThere
<1>4. Len(mainChain) \in Nat \ {0}
  BY <1>2, ChainIsThere
<1> HIDE DEF n, d
<1>5. PICK k \in Len(mainChain)..n : l.block = d[k] /\ l.chain = SubSeq(d, k + 1, n)
  BY <1>2 DEF Climbs, Rest, n, d
<1>6. l.top = Len(mainChain) - 1 /\ n >= Len(mainChain)
  BY <1>2 DEF Climbs, n
<1>7. k \in 1..n /\ l.block # Null /\ height[l.block] = k - 1
  BY <1>3, <1>4, <1>5, BlocksAssumption
<1>8. CASE l.block # Null /\ height[l.block] > l.top /\ UNCHANGED pc
           /\ local' = [local EXCEPT ![w].chain = <<l.block>> \o @, ![w].block = PrevHeader(l.block)]
  <2> DEFINE m == [l EXCEPT !.chain = <<l.block>> \o @, !.block = PrevHeader(l.block)]
  <2>1. k - 1 \in Len(mainChain)..n /\ k - 1 \in 1..n - 1 /\ (k - 1) + 1 = k
    BY <1>3, <1>4, <1>6, <1>7, <1>8
  <2>2. Prev[d[k]] = d[k - 1] /\ d[k - 1] \in known
    BY <1>3, <2>1
  <2>3. PrevHeader(l.block) = d[k - 1]
    BY <1>5, <2>2 DEF PrevHeader
  <2>4. <<l.block>> \o l.chain = SubSeq(d, (k - 1) + 1, n)
    BY <1>3, <1>5, <1>7, <2>1, StackGrows
  <2>5. m.top = l.top /\ m.block = d[k - 1] /\ m.chain = SubSeq(d, (k - 1) + 1, n)
    BY <2>3, <2>4 DEF IInv, ThreadsTyped, Local
  <2>6. Moves(w, "climb", arg[w], m)
    BY <1>1, <1>8 DEF Moves, IInv, ThreadsTyped, Local
  <2> HIDE DEF m
  <2>7. /\ pc'[w] = "climb" /\ arg'[w] = arg[w] /\ local'[w] = m /\ Stuckness' = Stuckness
        /\ Progress(pc[w], arg[w], local[w])' => RunFits' /\ UNCHANGED A!vars
    BY <1>1, <2>6, StepMoves
  <2>8. Given(arg[w])' /\ Erased(arg[w])' /\ Size(arg[w])' = n /\ Branch(arg[w])' = d
    BY <1>1, <1>2, <2>7, BranchStays DEF n, d
  <2>9. Climbs(arg[w], local[w])'
    BY <1>1, <1>2, <1>6, <2>1, <2>5, <2>7, <2>8 DEF Climbs, Rest
  <2> QED BY <2>7, <2>8, <2>9 DEF Progress
<1>9. CASE (l.block = Null \/ height[l.block] <= l.top) /\ Goto(w, "top") /\ UNCHANGED local
  <2>1. k = Len(mainChain)
    BY <1>3, <1>4, <1>5, <1>6, <1>7, <1>9
  <2>2. /\ pc'[w] = "top" /\ arg'[w] = arg[w] /\ local'[w] = l /\ Stuckness' = Stuckness
        /\ Progress(pc[w], arg[w], local[w])' => RunFits' /\ UNCHANGED A!vars
    <3>1. Moves(w, "top", arg[w], local[w])
      BY <1>1, <1>9, GotoMoves
    <3> QED BY <1>1, <3>1, StepMoves DEF Running
  <2>3. Given(arg[w])' /\ Erased(arg[w])' /\ Size(arg[w])' = n /\ Branch(arg[w])' = d
    BY <1>1, <1>2, <2>2, BranchStays DEF n, d
  <2>4. AtTop(arg[w], local[w])'
    BY <1>1, <1>2, <1>5, <1>6, <2>1, <2>2, <2>3 DEF AtTop, Rest
  <2> QED BY <2>2, <2>3, <2>4 DEF Progress
<1> QED BY <1>8, <1>9 DEF Climb

\* The top of the main chain, read for the rollback: a stutter.
LEMMA ReadTopGoesOn ==
  ASSUME IInv, RunFits, A!IInv, ~overlap, UNCHANGED overlap, NEW w \in Workers, ReadTop(w)
  PROVE  RunFits' /\ UNCHANGED A!vars
<1> DEFINE b == arg[w]
           l == local[w]
           c == before.mainChain
           m == [l EXCEPT !.old = mainChain[Len(mainChain)]]
<1>1. /\ pc[w] = "top" /\ pc[w] \in Running /\ Goto(w, "rollback")
      /\ UNCHANGED <<known, height, mainChain, orphanBlocks, tasks, status, arg, before>>
  BY DEF ReadTop, At, Running, shared
<1>2. /\ Given(b) /\ Erased(b) /\ mainChain = c /\ c # <<>>
      /\ b \in Blocks /\ Began(b) /\ InRun /\ AtTop(b, l)
  BY <1>1, RunFacts DEF Progress, InRun, AtTop, Given
<1>3. local' = [local EXCEPT ![w].old = mainChain[Len(mainChain)]]
  BY <1>2 DEF ReadTop
<1>4. c \in Seq(Blocks) /\ Len(c) \in Nat \ {0}
  BY <1>2, ChainIsThere
<1>5. SubSeq(c, 1, Len(c)) = c /\ Len(c) \in 1..Len(c)
  BY <1>4, SubSeqFull
<1>6. m.block = l.block /\ m.chain = l.chain /\ m.old = c[Len(c)]
  BY <1>2 DEF IInv, ThreadsTyped, Local
<1>7. Moves(w, "rollback", arg[w], m)
  BY <1>1, <1>3 DEF Moves, Goto, IInv, ThreadsTyped, Local
<1> HIDE DEF m
<1>8. /\ pc'[w] = "rollback" /\ arg'[w] = arg[w] /\ local'[w] = m /\ Stuckness' = Stuckness
      /\ Progress(pc[w], arg[w], local[w])' => RunFits' /\ UNCHANGED A!vars
  BY <1>1, <1>7, StepMoves DEF Running
<1>9. Given(arg[w])' /\ Erased(arg[w])' /\ Size(arg[w])' = Size(b) /\ Branch(arg[w])' = Branch(b)
  BY <1>1, <1>2, <1>8, BranchStays
<1>10. WalksBack(arg[w], local[w])'
  BY <1>1, <1>2, <1>5, <1>6, <1>8, <1>9 DEF WalksBack, AtTop, Rest
<1> QED BY <1>8, <1>9, <1>10 DEF Progress

\* The walk back ends, at the genesis block if nowhere else, where the two branches meet.
LEMMA RollbackGoesOn ==
  ASSUME IInv, RunFits, A!IInv, ~overlap, UNCHANGED overlap, NEW w \in Workers, Rollback(w)
  PROVE  RunFits' /\ UNCHANGED A!vars
<1> DEFINE b == arg[w]
           l == local[w]
           c == before.mainChain
           n == Size(b)
           d == Branch(b)
<1>1. /\ pc[w] = "rollback" /\ pc[w] \in Running
      /\ UNCHANGED <<known, height, orphanBlocks, tasks, arg, before>>
  BY DEF Rollback, At, Running
<1>2. /\ Given(b) /\ Erased(b)
      /\ b \in Blocks /\ Began(b) /\ InRun /\ WalksBack(b, l)
  BY <1>1, RunFacts DEF Progress, InRun
<1>3. /\ n \in Nat \ {0} /\ d \in Seq(Blocks) /\ Len(d) = n /\ d[1] = Genesis
      /\ \A i \in 1..n : d[i] \in Blocks
      /\ \A i \in 1..n - 1 : Prev[d[i + 1]] = d[i] /\ d[i] \in known
  BY <1>2, BranchIsThere
<1>4. /\ c \in Seq(Blocks) /\ Len(c) \in Nat \ {0} /\ c[1] = Genesis
      /\ \A i \in 1..Len(c) - 1 : Prev[c[i + 1]] = c[i] /\ c[i] \in known
  BY <1>2, ChainIsThere
<1> HIDE DEF n, d, c
<1>5. PICK k \in 1..Len(c) :
        /\ l.block = d[k] /\ l.old = c[k] /\ l.chain = SubSeq(d, k + 1, n)
        /\ mainChain = SubSeq(c, 1, k)
  BY <1>2 DEF WalksBack, Rest, n, d, c
<1>6. n >= Len(c) /\ k \in 1..n /\ l.block \in Blocks /\ l.old \in Blocks
  <2>1. n >= Len(c)
    BY <1>2 DEF WalksBack, n, c
  <2> QED BY <1>3, <1>4, <1>5, <2>1
<1>7. Len(mainChain) = k /\ mainChain \in Seq(Blocks)
  BY <1>4, <1>5, PrefixGrows
<1>8. mainChain # <<>> /\ l.block # Null /\ l.old # Null
  BY <1>5, <1>6, <1>7, BlocksAssumption
<1>9. CASE /\ l.block # l.old /\ UNCHANGED <<pc, status>>
           /\ local' = [local EXCEPT ![w].chain = <<l.block>> \o @, ![w].block = PrevHeader(l.block),
                                     ![w].old = PrevHeader(l.old)]
           /\ mainChain' = SubSeq(mainChain, 1, Len(mainChain) - 1)
  <2> DEFINE m == [l EXCEPT !.chain = <<l.block>> \o @, !.block = PrevHeader(l.block),
                            !.old = PrevHeader(l.old)]
  <2>1. k # 1
    BY <1>3, <1>4, <1>5, <1>9
  <2>2. /\ k - 1 \in 1..Len(c) /\ k - 1 \in 1..n - 1 /\ (k - 1) + 1 = k /\ k > 1
        /\ k - 1 \in 1..Len(c) - 1
    BY <1>3, <1>4, <1>6, <2>1
  <2>3. PrevHeader(l.block) = d[k - 1] /\ PrevHeader(l.old) = c[k - 1]
    BY <1>3, <1>4, <1>5, <2>2 DEF PrevHeader
  <2>4. <<l.block>> \o l.chain = SubSeq(d, (k - 1) + 1, n)
    BY <1>3, <1>5, <1>6, <2>2, StackGrows
  <2>5. mainChain' = SubSeq(c, 1, k - 1)
    BY <1>4, <1>5, <1>7, <1>9, <2>2, PrefixGrows
  <2>6. m.block = d[k - 1] /\ m.old = c[k - 1] /\ m.chain = SubSeq(d, (k - 1) + 1, n)
    BY <2>3, <2>4 DEF IInv, ThreadsTyped, Local
  <2>7. Moves(w, "rollback", arg[w], m)
    BY <1>1, <1>9 DEF Moves, IInv, ThreadsTyped, Local
  <2> HIDE DEF m
  <2>8. /\ pc'[w] = "rollback" /\ arg'[w] = arg[w] /\ local'[w] = m /\ Stuckness' = Stuckness
        /\ Progress(pc[w], arg[w], local[w])' => RunFits' /\ UNCHANGED A!vars
    BY <1>1, <1>9, <2>7, StepMoves
  <2>9. /\ Given(arg[w])' /\ Erased(arg[w])' /\ Size(arg[w])' = n /\ Branch(arg[w])' = d
        /\ before'.mainChain = c
    BY <1>1, <1>2, <2>8, BranchStays DEF n, d, c
  <2>10. WalksBack(arg[w], local[w])'
    BY <1>6, <2>2, <2>5, <2>6, <2>8, <2>9 DEF WalksBack, Rest
  <2> QED BY <2>8, <2>9, <2>10 DEF Progress
<1>10. CASE l.block = l.old /\ Goto(w, "replay") /\ UNCHANGED <<mainChain, local, status>>
  <2>2. mainChain = SubSeq(d, 1, k)
    <3>1. /\ \A j \in 1..Len(c) - 1 : Prev[c[j + 1]] = c[j]
          /\ \A j \in 1..Len(d) - 1 : Prev[d[j + 1]] = d[j]
      BY <1>3, <1>4
    <3>2. Len(c) <= Len(d) /\ d[k] = c[k]
      BY <1>3, <1>5, <1>6, <1>10
    <3> QED BY <1>3, <1>4, <1>5, <3>1, <3>2, BranchesMeet
  <2>3. /\ pc'[w] = "replay" /\ arg'[w] = arg[w] /\ local'[w] = l /\ Stuckness' = Stuckness
        /\ Progress(pc[w], arg[w], local[w])' => RunFits' /\ UNCHANGED A!vars
    <3>1. Moves(w, "replay", arg[w], local[w])
      BY <1>1, <1>10, GotoMoves
    <3> QED BY <1>1, <1>10, <3>1, StepMoves DEF Running
  <2>4. /\ Given(arg[w])' /\ Erased(arg[w])' /\ Size(arg[w])' = n /\ Branch(arg[w])' = d
        /\ before'.mainChain = c
    BY <1>1, <1>2, <2>3, BranchStays DEF n, d, c
  <2>5. Replays(arg[w], local[w])'
    BY <1>5, <1>6, <1>10, <2>2, <2>3, <2>4 DEF Replays, Rest
  <2> QED BY <2>3, <2>4, <2>5 DEF Progress
<1> QED BY <1>8, <1>9, <1>10 DEF Rollback

\* Each block of the stack goes to the position of its height: the assertion holds.
LEMMA ReplayGoesOn ==
  ASSUME IInv, RunFits, A!IInv, ~overlap, UNCHANGED overlap, NEW w \in Workers, Replay(w)
  PROVE  RunFits' /\ UNCHANGED A!vars
<1> DEFINE b == arg[w]
           l == local[w]
           c == before.mainChain
           n == Size(b)
           d == Branch(b)
<1>1. /\ pc[w] = "replay" /\ pc[w] \in Running
      /\ UNCHANGED <<known, height, orphanBlocks, tasks, arg, before>>
  BY DEF Replay, At, Running
<1>2. /\ Given(b) /\ Erased(b)
      /\ b \in Blocks /\ Began(b) /\ InRun /\ Replays(b, l)
  BY <1>1, RunFacts DEF Progress, InRun
<1>3. /\ n \in Nat \ {0} /\ d \in Seq(Blocks) /\ Len(d) = n
      /\ \A i \in 1..n : d[i] \in Blocks /\ height[d[i]] = i - 1
  BY <1>2, BranchIsThere
<1>4. Len(c) \in Nat \ {0} /\ n >= Len(c) /\ n = height[b] + 1 /\ height[b] \in Int
  <2>1. height[b] \in Int
    BY <1>2 DEF IInv, SharedTyped, NoHeight
  <2> QED BY <1>2, <2>1, ChainIsThere DEF Replays, Size
<1> HIDE DEF n, d, c
<1>5. PICK k \in 1..n : mainChain = SubSeq(d, 1, k) /\ l.chain = SubSeq(d, k + 1, n)
  BY <1>2 DEF Replays, Rest, n, d
<1>6. Len(mainChain) = k /\ k \in 1..Len(d)
  BY <1>3, <1>5, PrefixGrows
<1>7. CASE l.chain # <<>>
  <2> DEFINE m == [l EXCEPT !.chain = Tail(@)]
  <2>1. k < n
    <3>1. ASSUME k = n PROVE l.chain = <<>>
      <4>1. k + 1 \in Int /\ n \in Int /\ n < k + 1
        BY <1>3, <3>1
      <4> QED BY <1>5, <4>1, SubSeqEmpty
    <3> QED BY <1>3, <1>7, <3>1
  <2>2. k + 1 \in 1..Len(d) /\ k + 1 \in 1..n /\ (k + 1) - 1 = k
    BY <1>3, <2>1
  <2>3. l.chain[1] = d[k + 1] /\ Tail(l.chain) = SubSeq(d, (k + 1) + 1, n)
    BY <1>3, <1>5, <2>2, StackGrows
  <2>4. height[l.chain[1]] = Len(mainChain)
    BY <1>3, <1>6, <2>2, <2>3
  <2>5. /\ UNCHANGED <<pc, status>>
        /\ mainChain' = Append(mainChain, l.chain[1])
        /\ local' = [local EXCEPT ![w].chain = Tail(@)]
    BY <1>7, <2>4 DEF Replay
  <2>6. mainChain' = SubSeq(d, 1, k + 1)
    BY <1>3, <1>5, <1>6, <2>1, <2>3, <2>5, PrefixGrows
  <2>7. m.chain = SubSeq(d, (k + 1) + 1, n)
    BY <2>3 DEF IInv, ThreadsTyped, Local
  <2>8. Moves(w, "replay", arg[w], m)
    BY <1>1, <2>5 DEF Moves, IInv, ThreadsTyped, Local
  <2> HIDE DEF m
  <2>9. /\ pc'[w] = "replay" /\ arg'[w] = arg[w] /\ local'[w] = m /\ Stuckness' = Stuckness
        /\ Progress(pc[w], arg[w], local[w])' => RunFits' /\ UNCHANGED A!vars
    BY <1>1, <2>5, <2>8, StepMoves
  <2>10. /\ Given(arg[w])' /\ Erased(arg[w])' /\ Size(arg[w])' = n /\ Branch(arg[w])' = d
         /\ before'.mainChain = c
    BY <1>1, <1>2, <2>9, BranchStays DEF n, d, c
  <2>11. Replays(arg[w], local[w])'
    BY <1>4, <2>2, <2>6, <2>7, <2>9, <2>10 DEF Replays, Rest
  <2> QED BY <2>9, <2>10, <2>11 DEF Progress
<1>8. CASE l.chain = <<>>
  <2>1. Goto(w, "descend") /\ UNCHANGED <<mainChain, local, status>>
    BY <1>8 DEF Replay
  <2>2. k = n
    <3>1. ASSUME k < n PROVE l.chain # <<>>
      <4>1. k + 1 \in 1..Len(d)
        BY <1>3, <3>1
      <4> QED BY <1>3, <1>5, <4>1, StackGrows
    <3> QED BY <1>3, <1>8, <3>1
  <2>3. mainChain = d
    BY <1>3, <1>5, <1>6, <2>2, PrefixGrows
  <2>4. /\ pc'[w] = "descend" /\ arg'[w] = arg[w] /\ Stuckness' = Stuckness
        /\ Progress(pc[w], arg[w], local[w])' => RunFits' /\ UNCHANGED A!vars
    <3>1. Moves(w, "descend", arg[w], local[w])
      BY <1>1, <2>1, GotoMoves
    <3> QED BY <1>1, <2>1, <3>1, StepMoves DEF Running
  <2>5. /\ Given(arg[w])' /\ Erased(arg[w])' /\ height'[arg'[w]] = height[b]
        /\ Branch(arg[w])' = d /\ before'.mainChain = c
    BY <1>1, <1>2, <2>4, BranchStays DEF d, c
  <2>6. height[b] >= Len(c) - 1
    BY <1>4
  <2>7. Settled(arg[w])'
    BY <2>1, <2>3, <2>5, <2>6 DEF Settled
  <2> QED BY <2>4, <2>5, <2>7 DEF Progress
<1> QED BY <1>7, <1>8

-----------------------------------------------------------------------------
\* A run begins: what is shared is kept as it was, and a task is taken.
LEMMA BeginsRun ==
  ASSUME IInv, ~overlap, UNCHANGED overlap, NEW w \in Workers, NEW b \in Blocks,
         At(w, "idle"), Begin(w, b),
         \/ Prev[b] = Null /\ tasks' = tasks /\ known' = known \cup {b}
         \/ /\ [op |-> "addBlock", block |-> b] \in tasks
            /\ tasks' = tasks \ {[op |-> "addBlock", block |-> b]}
            /\ known' = known \cup {b}
         \/ /\ [op |-> "connect", block |-> b] \in tasks
            /\ tasks' = tasks \ {[op |-> "connect", block |-> b]}
            /\ known' = known
  PROVE  RunFits' /\ UNCHANGED A!vars
<1>1. /\ pc[w] = "idle" /\ status = "running" /\ \A v \in Workers \ {w} : pc[v] \in Resting
      /\ pc' = [pc EXCEPT ![w] = "genesis?"] /\ arg' = [arg EXCEPT ![w] = b]
      /\ before' = Snapshot /\ UNCHANGED <<height, mainChain, orphanBlocks, status, local>>
  BY DEF At, Exclusive, Begin, Goto
<1>2. /\ before'.known = known /\ before'.height = height /\ before'.mainChain = mainChain
      /\ before'.orphanBlocks = orphanBlocks /\ before'.tasks = tasks
      /\ before'.worker = Stuckness
  BY <1>1 DEF Snapshot
<1>3. /\ pc'[w] = "genesis?" /\ arg'[w] = b
      /\ \A v \in Workers \ {w} : pc'[v] \in Resting
  BY <1>1 DEF IInv, ThreadsTyped
<1>4. Stuckness' = Stuckness
  <2>1. Moves(w, "genesis?", b, local[w])
    BY <1>1 DEF Moves, IInv, ThreadsTyped
  <2> QED BY <1>1, <2>1, StuckSame DEF Running
<1>5. Stuckness[w] = A!Idle
  BY <1>1 DEF Stuckness, A!Idle
<1>6. Began(arg[w])'
  BY <1>2, <1>3 DEF Began
<1>7. Progress(pc[w], arg[w], local[w])'
  BY <1>1, <1>2, <1>3, <1>4 DEF Progress, Untouched, Waiting
<1>8. RunFits'
  <2> SUFFICES ASSUME NEW v \in Workers, pc'[v] \in Running
               PROVE  (/\ \A u \in Workers \ {v} : pc[u] \in Resting
                       /\ status = "running" /\ before.worker[v] = A!Idle
                       /\ Began(arg[v]) /\ Progress(pc[v], arg[v], local[v]))'
    BY DEF RunFits
  <2>1. v = w
    BY <1>3 DEF Running, Resting
  <2> QED BY <1>1, <1>2, <1>3, <1>5, <1>6, <1>7, <2>1 DEF A!Idle
<1>9. ~InRun /\ InRun'
  BY <1>1, <1>3 DEF InRun, Running, Resting
<1>10. UNCHANGED A!vars
  BY <1>1, <1>2, <1>9 DEF A!vars, abs
<1> QED BY <1>8, <1>10

-----------------------------------------------------------------------------
\* Between runs there is nothing a run must fit.
LEMMA NoRunFits ==
  ASSUME overlap' \/ ~InRun'
  PROVE  RunFits'
BY DEF RunFits, InRun

\* A step of a thread that is in no run, while no other is in one.
LEMMA RestingStepFits ==
  ASSUME IInv, ~overlap, UNCHANGED overlap, NEW w \in Workers,
         At(w, "idle") \/ At(w, "descendLoop") \/ At(w, "dangling"), UNCHANGED <<pc, arg>>
  PROVE  /\ RunFits' /\ ~InRun /\ ~InRun' /\ Stuckness' = Stuckness
         /\ status = "running"
<1>1. \A v \in Workers : pc[v] \in Resting
  BY DEF At, Exclusive, Resting
<1>2. ~InRun /\ ~InRun'
  BY <1>1 DEF InRun, Running, Resting
<1>3. Stuckness' = Stuckness /\ status = "running"
  BY DEF Stuckness, At
<1> QED BY <1>2, <1>3, NoRunFits

\* Between runs, what a peer sends is the step of Blockchain.
LEMMA ReceiveFits ==
  ASSUME IInv, ~overlap, UNCHANGED overlap, NEW w \in Workers, NEW b \in Blocks,
         ReceiveHeader(w, b) \/ ReceiveBlock(w, b)
  PROVE  RunFits' /\ A!Next
<1>1. At(w, "idle") /\ UNCHANGED <<height, mainChain, orphanBlocks, status, pc, arg>>
  BY DEF ReceiveHeader, ReceiveBlock
<1>2. /\ RunFits' /\ ~InRun /\ ~InRun' /\ Stuckness' = Stuckness
      /\ status = "running" /\ Stuckness[w] = A!Idle
  <2>1. Stuckness[w] = A!Idle
    BY <1>1 DEF At, Stuckness, A!Idle
  <2> QED BY <1>1, <2>1, RestingStepFits
<1>3. A!Ready(w)
  BY <1>2 DEF A!Ready, abs
<1>4. CASE ReceiveHeader(w, b)
  <2>1. A!ReceiveHeader(w, b)
    BY <1>1, <1>2, <1>3, <1>4 DEF ReceiveHeader, A!ReceiveHeader, abs
  <2> QED BY <1>2, <2>1 DEF A!Next
<1>5. CASE ReceiveBlock(w, b)
  <2>1. A!ReceiveBlock(w, b)
    BY <1>1, <1>2, <1>3, <1>5 DEF ReceiveBlock, A!ReceiveBlock, abs
  <2> QED BY <1>2, <2>1 DEF A!Next
<1> QED BY <1>4, <1>5

\* A turn of the loop over the descendants is the step of Blockchain.
LEMMA LoopStepFits ==
  ASSUME IInv, ~overlap, UNCHANGED overlap, NEW w \in Workers,
         EnqueueDescendant(w) \/ ReadErased(w)
  PROVE  RunFits' /\ A!Next
<1>1. CASE EnqueueDescendant(w)
  <2>1. At(w, "descendLoop") /\ UNCHANGED <<known, height, mainChain, orphanBlocks, status, pc, arg>>
    BY <1>1 DEF EnqueueDescendant
  <2>2. /\ RunFits' /\ ~InRun /\ ~InRun' /\ Stuckness' = Stuckness
        /\ status = "running" /\ Stuckness[w] = [loop |-> "descendants", at |-> arg[w]]
    <3>1. Stuckness[w] = [loop |-> "descendants", at |-> arg[w]]
      BY <2>1 DEF At, Stuckness
    <3> QED BY <2>1, <3>1, RestingStepFits
  <2>3. Head(orphanBlocks[arg[w]]) = orphanBlocks[arg[w]][1]
    <3>1. orphanBlocks[arg[w]] \in Seq(Blocks) /\ orphanBlocks[arg[w]] # <<>>
      BY <2>1 DEF IInv, SharedTyped, ThreadsTyped, LoopHasEntry, At
    <3> QED BY <3>1
  <2>4. A!EnqueueDescendant(w)
    BY <1>1, <2>1, <2>2, <2>3 DEF EnqueueDescendant, A!EnqueueDescendant, abs
  <2> QED BY <2>2, <2>4 DEF A!Next
<1>2. CASE ReadErased(w)
  <2>1. At(w, "dangling") /\ UNCHANGED <<known, height, mainChain, orphanBlocks, pc, arg>>
    BY <1>2 DEF ReadErased
  <2>2. /\ RunFits' /\ ~InRun /\ ~InRun' /\ Stuckness' = Stuckness
        /\ status = "running" /\ Stuckness[w] = [loop |-> "dangling", at |-> arg[w]]
    <3>1. Stuckness[w] = [loop |-> "dangling", at |-> arg[w]]
      BY <2>1 DEF At, Stuckness
    <3> QED BY <2>1, <3>1, RestingStepFits
  <2>3. A!ReadErased(w)
    BY <1>2, <2>1, <2>2 DEF ReadErased, A!ReadErased, abs
  <2> QED BY <2>2, <2>3 DEF A!Next
<1> QED BY <1>1, <1>2

\* After the last statement of a run nobody is in one.
LEMMA EndFits ==
  ASSUME IInv, RunFits, ~overlap, NEW w \in Workers, pc[w] \in Running,
         NEW p \in Resting, NEW b, NEW l, Moves(w, p, b, l)
  PROVE  RunFits'
<1>1. pc'[w] = p /\ \A v \in Workers \ {w} : pc[v] \in Resting /\ pc'[v] = pc[v]
  BY RunFacts DEF Moves, IInv, ThreadsTyped
<1>2. ~InRun'
  BY <1>1 DEF InRun, Running, Resting
<1> QED BY <1>2, NoRunFits

\* When a run ends there is no run to speak of.
LEMMA FinishFits ==
  ASSUME IInv, RunFits, ~overlap, NEW w \in Workers, pc[w] \in Running, Finish(w)
  PROVE  RunFits'
BY FinishMoves, EndFits DEF Resting

-----------------------------------------------------------------------------
\* A statement of a run that does not overlap is a step of Blockchain where it is the last
\* of the run, and a stutter anywhere else.
LEMMA StatementFits ==
  ASSUME IInv, StackIsEmpty, RunFits, A!IInv, ~overlap, UNCHANGED overlap,
         NEW w \in Workers, Step(w)
  PROVE  RunFits' /\ [A!Next]_A!vars
<1>1. CASE TestGenesis(w)
  BY <1>1, TestGenesisGoesOn
<1>2. CASE KeepOrphan(w)
  <2>1. Finish(w) /\ pc[w] \in Running
    BY <1>2 DEF KeepOrphan, At, Running
  <2> QED BY <1>2, <2>1, FinishFits, RecordOrphanEnds
<1>3. CASE SetGenesisHeight(w)
  BY <1>3, SetGenesisHeightGoesOn
<1>4. CASE PushGenesis(w)
  BY <1>4, PushGenesisGoesOn
<1>5. CASE FindPrev(w)
  <2>1. pc[w] \in Running
    BY <1>5 DEF FindPrev, At, Running
  <2>2. CASE Finish(w)
    BY <1>5, <2>1, <2>2, FinishFits, RefuseUnconnectedEnds
  <2>3. CASE ~Finish(w)
    BY <1>5, <2>3, FindPrevGoesOn
  <2> QED BY <2>2, <2>3
<1>6. CASE SetHeight(w)
  <2>1. pc[w] \in Running /\ status = "running"
    BY <1>6 DEF SetHeight, At, Running
  <2>2. CASE /\ Asserts /\ height[arg[w]] # NoHeight /\ status' = "aborted" /\ Finish(w)
             /\ UNCHANGED <<known, height, mainChain, orphanBlocks, tasks>>
    BY <1>6, <2>1, <2>2, FinishFits, AssertEnds
  <2>3. CASE UNCHANGED status
    <3>1. status' # "aborted"
      BY <2>1, <2>3
    <3> QED BY <1>6, <3>1, SetHeightGoesOn
  <2> QED BY <1>6, <2>2, <2>3 DEF SetHeight, GiveHeight
<1>7. CASE EraseOrphan(w)
  <2> DEFINE entries == orphanBlocks[Prev[arg[w]]]
  <2>1. CASE entries # <<>> /\ entries[1] # arg[w]
    <3>1. /\ pc[w] = "erase" /\ pc'[w] = "eraseLoop"
          /\ \A v \in Workers \ {w} : pc'[v] = pc[v]
      BY <1>7, <2>1 DEF EraseOrphan, At
    <3>2. \A v \in Workers : pc'[v] \in Resting
      BY <3>1, RunFacts DEF Running, Resting
    <3>3. ~InRun'
      BY <3>2 DEF InRun, Running, Resting
    <3> QED BY <1>7, <2>1, <3>3, NoRunFits, LoopOnFirstOrphanEnds
  <2>2. CASE entries # <<>> => entries[1] = arg[w]
    BY <1>7, <2>2, EraseOrphanGoesOn
  <2> QED BY <2>1, <2>2
<1>8. CASE Measure(w)
  BY <1>8, MeasureGoesOn
<1>9. CASE Climb(w)
  BY <1>9, ClimbGoesOn
<1>10. CASE ReadTop(w)
  BY <1>10, ReadTopGoesOn
<1>11. CASE Rollback(w)
  BY <1>11, RollbackGoesOn
<1>12. CASE Replay(w)
  BY <1>12, ReplayGoesOn
<1>13. CASE FindDescendants(w)
  <2>1. pc[w] \in Running
    BY <1>13 DEF FindDescendants, At, Running
  <2>2. CASE Finish(w)
    BY <1>13, <2>1, <2>2, FinishFits, DescendantsEnd
  <2>3. CASE ~Finish(w)
    <3>1. Moves(w, "descendLoop", arg[w], NoLocal)
      BY <1>13, <2>3 DEF FindDescendants, Stop, Goto, Moves, IInv, ThreadsTyped
    <3>2. RunFits'
      BY <2>1, <3>1, EndFits DEF Resting
    <3> QED BY <1>13, <3>2, DescendantsEnd
  <2> QED BY <2>2, <2>3
<1>14. CASE EnqueueDescendant(w) \/ ReadErased(w)
  BY <1>14, LoopStepFits
<1> QED BY <1>1, <1>2, <1>3, <1>4, <1>5, <1>6, <1>7, <1>8, <1>9, <1>10, <1>11, <1>12, <1>13,
           <1>14 DEF Step

Simulation ==
  /\ IInv
  /\ StackIsEmpty
  /\ RunFits
  /\ A!IInv

\* Every step of the statements is a step of Blockchain or a stutter.
LEMMA StepSimulates == Simulation /\ [Next]_vars => Simulation' /\ [A!Next]_A!vars
<1> SUFFICES ASSUME Simulation, [Next]_vars PROVE Simulation' /\ [A!Next]_A!vars
  OBVIOUS
<1>1. IInv /\ StackIsEmpty /\ RunFits /\ A!IInv
  BY DEF Simulation
<1>2. IInv' /\ StackIsEmpty'
  BY <1>1, StepInvariant, StackStaysEmpty
<1>3. RunFits' /\ [A!Next]_A!vars
  <2>1. CASE overlap
    <3>1. overlap' = overlap
      BY DEF Next, vars
    <3>2. UNCHANGED A!vars
      BY <2>1, <3>1 DEF A!vars, abs
    <3> QED BY <2>1, <3>1, <3>2, NoRunFits
  <2>2. CASE ~overlap /\ UNCHANGED vars
    <3>1. UNCHANGED <<known, height, mainChain, orphanBlocks, tasks, status, pc, arg, local,
                      before, overlap>>
      BY <2>2 DEF vars, shared
    <3>2. Stuckness' = Stuckness /\ InRun' = InRun
      BY <3>1 DEF Stuckness, InRun
    <3>3. UNCHANGED A!vars
      BY <3>1, <3>2 DEF A!vars, abs
    <3>4. RunFits'
      <4> SUFFICES ASSUME NEW w \in Workers, ~overlap, pc[w] \in Running
                   PROVE  (/\ \A v \in Workers \ {w} : pc[v] \in Resting
                           /\ status = "running" /\ before.worker[w] = A!Idle
                           /\ Began(arg[w]) /\ Progress(pc[w], arg[w], local[w]))'
        BY <3>1 DEF RunFits
      <4>1. Began(arg[w])'
        BY <1>1, <3>1, RunFacts DEF Began
      <4>2. Progress(pc[w], arg[w], local[w])'
        BY <1>1, <3>1, <3>2, RunFacts
           DEF Progress, Untouched, Waiting, Rooted, Given, Erased, Climbs, AtTop, WalksBack,
               Replays, Settled, Rest, Branch, Size, inChain
      <4> QED BY <1>1, <3>1, <4>1, <4>2, RunFacts DEF A!Idle
    <3> QED BY <3>3, <3>4
  <2>3. ASSUME ~overlap, UNCHANGED overlap, NEW w \in Workers, NEW b \in Blocks,
               ReceiveHeader(w, b) \/ ReceiveBlock(w, b)
        PROVE  RunFits' /\ [A!Next]_A!vars
    BY <1>1, <2>3, ReceiveFits
  <2>4. ASSUME ~overlap, UNCHANGED overlap, NEW w \in Workers, NEW b \in Blocks,
               ReceiveRoot(w, b) \/ RunAddBlock(w, b) \/ RunConnect(w, b)
        PROVE  RunFits' /\ [A!Next]_A!vars
    <3>1. /\ At(w, "idle") /\ Begin(w, b)
          /\ \/ Prev[b] = Null /\ tasks' = tasks /\ known' = known \cup {b}
             \/ /\ [op |-> "addBlock", block |-> b] \in tasks
                /\ tasks' = tasks \ {[op |-> "addBlock", block |-> b]}
                /\ known' = known \cup {b}
             \/ /\ [op |-> "connect", block |-> b] \in tasks
                /\ tasks' = tasks \ {[op |-> "connect", block |-> b]}
                /\ known' = known
      BY <2>4 DEF ReceiveRoot, RunAddBlock, RunConnect
    <3> QED BY <1>1, <2>4, <3>1, BeginsRun
  <2>5. ASSUME ~overlap, UNCHANGED overlap, NEW w \in Workers, Step(w)
        PROVE  RunFits' /\ [A!Next]_A!vars
    BY <1>1, <2>5, StatementFits
  <2> QED BY <2>1, <2>2, <2>3, <2>4, <2>5 DEF Next
<1>4. A!IInv'
  BY <1>1, <1>3, A!StepInvariant, AbstractAssumptions
<1> QED BY <1>2, <1>3, <1>4 DEF Simulation

\* The initial states are those of Blockchain.
LEMMA InitSimulates == Init => A!Init /\ Simulation
<1> SUFFICES ASSUME Init PROVE A!Init /\ Simulation
  OBVIOUS
<1>1. IInv
  BY InitInvariant
<1>2. StackIsEmpty
  BY DEF Init, StackIsEmpty, NoLocal
<1>3. ~InRun /\ Stuckness = [w \in Workers |-> A!Idle]
  BY DEF Init, InRun, Running, Stuckness, A!Idle
<1>4. A!Init
  BY <1>3 DEF Init, A!Init, A!Hashes, Hashes, A!NoHeight, NoHeight, A!Idle, abs
<1>5. RunFits
  BY <1>3 DEF RunFits, InRun
<1>6. A!IInv
  BY <1>4, A!InitInvariant, AbstractAssumptions
<1> QED BY <1>1, <1>2, <1>4, <1>5, <1>6 DEF Simulation

\* Runs of connectToAncestor that do not overlap implement Blockchain, where a run is one
\* step: for any blocks and threads, the climb, the walk back and the replay together do
\* what ExtendOrReorganise says, and no assertion of the replay fails on the way.
THEOREM StepsImplementBlockchain == Spec => ImplementsBlockchain
<1>1. A!Init => Atomic!Init
  BY DEF A!Init, Atomic!Init, A!Hashes, Atomic!Hashes, A!NoHeight, Atomic!NoHeight,
         A!Idle, Atomic!Idle
<1>2. ASSUME NEW w, NEW b PROVE A!connectToAncestor(w, b) <=> Atomic!connectToAncestor(w, b)
  <2>1. A!RecordOrphan(b) <=> Atomic!RecordOrphan(b)
    BY DEF A!RecordOrphan, Atomic!RecordOrphan, A!IsGenesis, Atomic!IsGenesis
  <2>2. A!ConnectGenesis(w, b) <=> Atomic!ConnectGenesis(w, b)
    BY DEF A!ConnectGenesis, Atomic!ConnectGenesis, A!IsGenesis, Atomic!IsGenesis,
       A!FindDescendants, Atomic!FindDescendants, A!Stuck, Atomic!Stuck
  <2>3. A!RefuseUnconnected(b) <=> Atomic!RefuseUnconnected(b)
    BY DEF A!RefuseUnconnected, Atomic!RefuseUnconnected, A!inChain, Atomic!inChain,
       A!NoHeight, Atomic!NoHeight
  <2>4. A!AssertHeightUnset(b) <=> Atomic!AssertHeightUnset(b)
    BY DEF A!AssertHeightUnset, Atomic!AssertHeightUnset, A!inChain, Atomic!inChain,
       A!NoHeight, Atomic!NoHeight
  <2>5. A!LoopOnFirstOrphan(w, b) <=> Atomic!LoopOnFirstOrphan(w, b)
    BY DEF A!LoopOnFirstOrphan, Atomic!LoopOnFirstOrphan, A!CanConnect,
       Atomic!CanConnect, A!SetHeight, Atomic!SetHeight, A!Stuck, Atomic!Stuck,
       A!inChain, Atomic!inChain, A!NoHeight, Atomic!NoHeight
  <2>6. A!ConnectToParent(w, b) <=> Atomic!ConnectToParent(w, b)
    BY DEF A!ConnectToParent, Atomic!ConnectToParent, A!CanConnect,
       Atomic!CanConnect, A!SetHeight, Atomic!SetHeight, A!ExtendOrReorganise,
       Atomic!ExtendOrReorganise, A!TopHeight, Atomic!TopHeight, A!Path,
       Atomic!Path, A!FindDescendants, Atomic!FindDescendants, A!Stuck,
       Atomic!Stuck, A!inChain, Atomic!inChain, A!NoHeight, Atomic!NoHeight
  <2>7. A!ConnectOrphan(w, b) <=> Atomic!ConnectOrphan(w, b)
    BY DEF A!ConnectOrphan, Atomic!ConnectOrphan, A!CanConnect, Atomic!CanConnect,
       A!SetHeight, Atomic!SetHeight, A!ExtendOrReorganise,
       Atomic!ExtendOrReorganise, A!TopHeight, Atomic!TopHeight, A!Path,
       Atomic!Path, A!LeaveDangling, Atomic!LeaveDangling, A!inChain,
       Atomic!inChain, A!NoHeight, Atomic!NoHeight
  <2> QED BY <2>1, <2>2, <2>3, <2>4, <2>5, <2>6, <2>7
          DEF A!connectToAncestor, Atomic!connectToAncestor
<1>3. ASSUME NEW w, NEW b PROVE A!addBlock(w, b) <=> Atomic!addBlock(w, b)
  BY <1>2 DEF A!addBlock, Atomic!addBlock
<1>4. ASSUME NEW w PROVE A!Ready(w) <=> Atomic!Ready(w)
  BY DEF A!Ready, Atomic!Ready, A!Idle, Atomic!Idle
<1>5. A!Next => Atomic!Next
  <2>1. ASSUME NEW w \in Workers, NEW b \in Blocks
        PROVE  /\ A!ReceiveHeader(w, b) => Atomic!ReceiveHeader(w, b)
               /\ A!ReceiveBlock(w, b) => Atomic!ReceiveBlock(w, b)
               /\ A!RunAddBlock(w, b) => Atomic!RunAddBlock(w, b)
               /\ A!RunConnect(w, b) => Atomic!RunConnect(w, b)
    BY <1>2, <1>3, <1>4
       DEF A!ReceiveHeader, Atomic!ReceiveHeader, A!ReceiveBlock, Atomic!ReceiveBlock,
           A!RunAddBlock, Atomic!RunAddBlock, A!RunConnect, Atomic!RunConnect
  <2>2. ASSUME NEW w \in Workers
        PROVE  /\ A!EnqueueDescendant(w) => Atomic!EnqueueDescendant(w)
               /\ A!ReadErased(w) => Atomic!ReadErased(w)
    BY DEF A!EnqueueDescendant, Atomic!EnqueueDescendant, A!ReadErased, Atomic!ReadErased
  <2> QED BY <2>1, <2>2 DEF A!Next, Atomic!Next
<1>6. [A!Next]_A!vars => [Atomic!Next]_Atomic!vars
  BY <1>5 DEF A!vars, Atomic!vars
<1> QED BY <1>1, <1>6, InitSimulates, StepSimulates, PTL
        DEF Spec, ImplementsBlockchain, Atomic!Spec

\* The assertion of the replay (Blockchain.cpp:525), which overlapping runs break, never
\* fails where runs do not overlap.
THEOREM AloneReplayMeetsHeight == Spec => [](~overlap => ReplayMeetsHeight)
<1>1. ASSUME Simulation, ~overlap PROVE ReplayMeetsHeight
  <2> SUFFICES ASSUME NEW w \in Workers, pc[w] = "replay", local[w].chain # <<>>
               PROVE  height[local[w].chain[1]] = Len(mainChain)
    BY DEF ReplayMeetsHeight
  <2> DEFINE b == arg[w]
             n == Size(b)
             d == Branch(b)
  <2>1. /\ Given(b) /\ b \in Blocks /\ Began(b) /\ InRun /\ Replays(b, local[w])
        /\ IInv /\ A!IInv
    BY <1>1, RunFacts DEF Simulation, Running, Progress, InRun
  <2>2. /\ n \in Nat \ {0} /\ d \in Seq(Blocks) /\ Len(d) = n
        /\ \A i \in 1..n : d[i] \in Blocks /\ height[d[i]] = i - 1
    BY <1>1, <2>1, BranchIsThere
  <2> HIDE DEF n, d
  <2>3. PICK k \in 1..n : mainChain = SubSeq(d, 1, k) /\ local[w].chain = SubSeq(d, k + 1, n)
    BY <2>1 DEF Replays, Rest, n, d
  <2>4. Len(mainChain) = k
    BY <2>2, <2>3, PrefixGrows
  <2>5. k < n
    <3>1. ASSUME k = n PROVE local[w].chain = <<>>
      <4>1. k + 1 \in Int /\ n \in Int /\ n < k + 1
        BY <2>2, <3>1
      <4> QED BY <2>3, <4>1, SubSeqEmpty
    <3> QED BY <2>2, <3>1
  <2>6. k + 1 \in 1..Len(d) /\ k + 1 \in 1..n /\ (k + 1) - 1 = k
    BY <2>2, <2>5
  <2>7. local[w].chain[1] = d[k + 1]
    BY <2>2, <2>3, <2>6, StackGrows
  <2> QED BY <2>2, <2>4, <2>6, <2>7
<1>2. Init => Simulation
  BY InitSimulates
<1>3. Simulation /\ [Next]_vars => Simulation'
  BY StepSimulates
<1> QED BY <1>1, <1>2, <1>3, PTL DEF Spec

=============================================================================
