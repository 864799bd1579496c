SPECIFICATION Spec
CONSTANTS
  g = g  a1 = a1  a2 = a2  b1 = b1  b2 = b2  w1 = w1  w2 = w2  null = null
  Blocks <- ForkBlocks
  Genesis = g
  Null = null
  Prev <- ForkPrev
  Workers <- TwoWorkers
  Asserts = TRUE
  MaxOrphans = 2
  Few <- SmallBlocks
INVARIANT ReplayMeetsHeight
CHECK_DEADLOCK FALSE
