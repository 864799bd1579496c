---------------------------- MODULE MCBlockchain ----------------------------
(* Small instances of Blockchain and Sync: a genesis block, two branches on  *)
(* it, the top of one of them malformed.                                    *)
EXTENDS Sync, TLC

CONSTANTS g, a1, a2, b1, b2, x, tx1, w1, w2, null

\* Two branches on the genesis block, for reorganisations up and down; the second
\* block of one of them is malformed.
ForkBlocks == {g, a1, a2, b1, b2}
ForkPrev == g :> null @@ a1 :> g @@ a2 :> a1 @@ b1 :> g @@ b2 :> b1
ForkTxOf == g :> {} @@ a1 :> {tx1} @@ a2 :> {} @@ b1 :> {tx1} @@ b2 :> {tx1}
ForkMalformed == {b2}

TwoWorkers == {w1, w2}
OneTx == {tx1}

\* The longer branch is that of the peer.  It may ask for a block it has or has not and for
\* a transaction, with a locator of the node's own branch or without one.
ForkChain == <<g, a1, a2>>
ForkStarts == {<<>>, <<g, b1>>}
ForkQuestions ==
  {Message("getdata", <<b1, tx1>>), Message("inv", <<tx1>>),
   Message("getheaders", <<b1, g>>), Message("getblocks", <<a1>>), Message("getheaders", <<x>>)}
=============================================================================
