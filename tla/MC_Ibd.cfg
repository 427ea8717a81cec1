CONSTANTS
  G = G
  A = A
  B = B
  C = C
  Blocks <- MCBlocks
  Genesis = G
  Parents <- MCParents
  ByOrder <- MCByOrder
  ById <- MCById
  MainTip = C
  Size <- MCSize
  Code <- MCCode
  Insane = {}
  Slack = 4
  NoBlock = NoBlock
  NoEnd = NoEnd
  BadEnd = BadEnd
SPECIFICATION Spec
INVARIANT RoundTrip
CHECK_DEADLOCK FALSE
