CONSTANTS
  Blocks <- MCBlocks
  Genesis = "G"
  Parents <- MCParents
  PeerBlocks <- MCBlocks
  Insane = {}
  BadContext = {"C"}
  StoredOnly = {"B"}
  MaxBatch = 3
  MaxRounds = 3
  NoBlock = NoBlock
SPECIFICATION Spec
PROPERTY SyncPointHeld
