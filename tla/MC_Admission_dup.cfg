CONSTANTS
  Workers = {w1, w2}
  NoWorker = NoWorker
  Blocks <- MCBlocks
  Genesis = "G"
  Parents <- MCParents
  Spends <- MCSpends
  TxCount <- MCTxCount
  Insane = {}
  BadContext = {}
  BadScript = {}
SPECIFICATION Spec
SYMMETRY MCSymmetry
INVARIANT NoEmptyHandle
