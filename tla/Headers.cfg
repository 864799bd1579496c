SPECIFICATION ChainSpec
CONSTANTS
  g = g  a1 = a1  a2 = a2  b1 = b1  b2 = b2  x = x
  tx1 = tx1  w1 = w1  w2 = w2  null = null
  Blocks <- ForkBlocks
  Genesis = g
  Null = null
  Prev <- ForkPrev
  Malformed <- ForkMalformed
  Txs <- OneTx
  TxOf <- ForkTxOf
  Workers <- TwoWorkers
  Asserts = FALSE
  MaxOrphans = 2
  PeerChain <- ForkChain
  Questions <- ForkQuestions
  Batch = 1
  MaxQuestions = 1
  MaxReply = 2
  Dense = 1
  Starts <- ForkStarts
INVARIANT HeadersFollowLocator
CHECK_DEADLOCK FALSE
