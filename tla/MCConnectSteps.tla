--------------------------- MODULE MCConnectSteps ---------------------------
(* Two branches of two blocks on a genesis block, and two threads.           *)
EXTENDS ConnectSteps, TLC

CONSTANTS g, a1, a2, b1, b2, w1, w2, null

ForkBlocks == {g, a1, a2, b1, b2}
ForkPrev == g :> null @@ a1 :> g @@ a2 :> a1 @@ b1 :> g @@ b2 :> b1
SmallBlocks == {g, a1, a2, b1}
TwoWorkers == {w1, w2}
Threads == Permutations(TwoWorkers)
=============================================================================
