CONSTANTS
  Workers = {w1, w2}
  NoWorker = NoWorker
  Blocks <- MCBlocks
  Genesis = "G"
  Parents <- MCParents
  Spends <- MCSpends
  TxCount <- MCTxCount
  Insane = {}
  BadContext = {"B"}
  BadScript = {}
SPECIFICATION Spec
SYMMETRY MCSymmetry
INVARIANTS
  OrphansNotInDag
  DagClosed
  UtxoFollowsOrder
  SnapshotMatchesDag
  LockHeldInCriticalSection
PROPERTY RefinesDag
