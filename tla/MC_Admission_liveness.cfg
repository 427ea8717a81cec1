CONSTANTS
  Workers = {w1, w2}
  NoWorker = NoWorker
  Blocks <- MCChainBlocks
  Genesis = "G"
  Parents <- MCChainParents
  Spends <- MCChainSpends
  TxCount <- MCChainTxCount
  Insane = {}
  BadContext = {"B"}
  BadScript = {}
SPECIFICATION FairSpec
PROPERTIES
  OrphanAdopted
