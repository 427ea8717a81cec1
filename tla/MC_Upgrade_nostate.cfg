CONSTANTS
  G = G
  A = A
  B = B
  C = C
  Genesis = G
  Blocks <- MCBlocks
  Parents <- MCParents
  ByOrder <- MCByOrder
  ById <- MCById
  Total <- MCTotal
  MainTip = C
  NoBlock = NoBlock
  NoEnd = NoEnd
  BadEnd = BadEnd
  HasChainState = FALSE
  Insane = {}
SPECIFICATION Spec
INVARIANT CleanupAfterRead
CHECK_DEADLOCK FALSE
