------------------------------ MODULE Upgrade -------------------------------
(***************************************************************************)
(* upgradeBlockChain (src/cmd/qng/blockchain_cmds.go): read every block   *)
(* of the old database into memory, close and delete the database         *)
(* (CleanupBlockDB), open a fresh one and accept the blocks again with    *)
(* CheckBlockSanity and FastAcceptBlock.  The blocks are read either      *)
(* straight from the stored DAG records by id (aid mode) or through a     *)
(* running chain, by id or by order, up to the main tip or an end block.  *)
(* Any call that touches the disk may fail, and the process may be killed *)
(* at any moment: what persists is the database, old or new.              *)
(***************************************************************************)
EXTENDS Naturals, Sequences

CONSTANTS
  Blocks,     \* block hashes of the old database
  Genesis,    \* the genesis block (id 0, order 0)
  Parents,    \* Parents[b]: the parents in b's header
  ByOrder,    \* ByOrder[n]: GetBlockHashByOrder(n), n >= 1
  ById,       \* ById[n]: the block stored under id n, or NoBlock (an empty record)
  MainTip,    \* GetMainChainTip()
  Total,      \* state.GetTotal() of the stored best chain state
  HasChainState, \* the chain state record is in the metadata bucket
  Insane,     \* blocks CheckBlockSanity rejects on the new database
  NoBlock,    \* a nil *hash.Hash
  NoEnd,      \* the --end flag left empty
  BadEnd      \* an --end hash that does not parse or is not in the DAG

ASSUME UpgradeAssumption ==
  /\ Genesis \in Blocks /\ Parents \in [Blocks -> SUBSET Blocks]
  /\ {NoBlock, NoEnd, BadEnd} \cap Blocks = {}
  /\ ByOrder \in Seq(Blocks \ {Genesis}) /\ ByOrder # <<>>
  /\ ByOrder[Len(ByOrder)] = MainTip
  /\ \A n \in 1..Len(ByOrder) :
       Parents[ByOrder[n]] \subseteq {Genesis} \cup {ByOrder[m] : m \in 1..n - 1}
  /\ ById \in Seq((Blocks \ {Genesis}) \cup {NoBlock})
  /\ \E k \in 1..Len(ById) : ById[k] = MainTip
  /\ \A n \in 1..Len(ById) : ById[n] # NoBlock =>
       Parents[ById[n]] \subseteq {Genesis} \cup {ById[m] : m \in 1..n - 1}
  \* the total counts every id issued, genesis included
  /\ Total = Len(ById) + 1
  /\ HasChainState \in BOOLEAN /\ Insane \subseteq Blocks

VARIABLES
  mode,     \* "aid", or "id" / "order" through a running chain
  endNum,   \* the last id or order to read
  n,        \* the loop index i
  blocks,   \* the blocks read into memory
  db,       \* "old", "gone" (deleted), or "new"
  ndag,     \* the blocks of the new database
  phase,    \* where upgradeBlockChain is
  wanted    \* the blocks the command was asked to carry over

vars == <<mode, endNum, n, blocks, db, ndag, phase, wanted>>

IndexIn(s, b) == IF b = Genesis THEN 0 ELSE CHOOSE k \in 1..Len(s) : s[k] = b

Contains(s, b) == \E k \in 1..Len(s) : s[k] = b

\* The blocks of ids or orders 1..e of a lookup sequence.
Upto(s, e) == {s[k] : k \in 1..e} \ {NoBlock}

(***************************************************************************)
(* The end of the range: aid mode reads ids up to GetTotal() - 1; through *)
(* the chain, the main tip's id or order, lowered to the end block's (a   *)
(* block outside the lookup has MaxBlockOrder and lowers nothing).  When  *)
(* the chain state record is missing, the Update callback returns nil     *)
(* with endNum still 0.                                                   *)
(***************************************************************************)
EndNum(m, end) ==
  LET s == IF m = "order" THEN ByOrder ELSE ById
      tip == IndexIn(s, MainTip)
  IN  IF m = "aid" THEN IF HasChainState THEN Total - 1 ELSE 0
      ELSE IF end \in Blocks /\ (end = Genesis \/ Contains(s, end)) /\ IndexIn(s, end) < tip
           THEN IndexIn(s, end)
           ELSE tip

Lookup(m) == IF m = "order" THEN ByOrder ELSE ById

-----------------------------------------------------------------------------
Init ==
  /\ mode = "aid"
  /\ endNum = 0
  /\ n = 1
  /\ blocks = <<>>
  /\ db = "old"
  /\ ndag = {}
  /\ phase = "idle"
  /\ wanted = {}

(***************************************************************************)
(* Start: aid mode reads the chain state record; otherwise a chain is    *)
(* started on the old database (cons.Init, the VM service) and a bad end *)
(* hash is refused.  Either way a failure returns before anything is     *)
(* deleted.                                                               *)
(***************************************************************************)
Start ==
  /\ phase = "idle"
  /\ \E m \in {"aid", "id", "order"}, end \in Blocks \cup {NoEnd, BadEnd} :
       /\ mode' = m
       /\ endNum' = EndNum(m, end)
       \* aid mode is asked for every stored block, the chain for a range
       /\ wanted' = IF m = "aid" THEN Upto(ById, Len(ById))
                                 ELSE Upto(Lookup(m), EndNum(m, end))
       /\ \/ /\ phase' = "failed"
          \/ /\ end = BadEnd /\ m # "aid"
             /\ phase' = "failed"
          \/ /\ ~(end = BadEnd /\ m # "aid")
             /\ phase' = "collect"
  /\ UNCHANGED <<n, blocks, db, ndag>>

(***************************************************************************)
(* One pass of the read loop.  In aid mode an empty DAG record is        *)
(* skipped; through the chain a missing block is an error.  A failed read *)
(* of the record or of the block body returns with the old database as   *)
(* it was.                                                                *)
(***************************************************************************)
Collect ==
  /\ phase = "collect"
  /\ n <= endNum
  /\ LET h == Lookup(mode)[n] IN
     \/ /\ phase' = "failed"
        /\ UNCHANGED <<n, blocks>>
     \/ /\ h = NoBlock /\ mode # "aid"
        /\ phase' = "failed"
        /\ UNCHANGED <<n, blocks>>
     \/ /\ h = NoBlock /\ mode = "aid"
        /\ n' = n + 1
        /\ UNCHANGED <<blocks, phase>>
     \/ /\ h # NoBlock
        /\ blocks' = Append(blocks, h)
        /\ n' = n + 1
        /\ UNCHANGED phase
  /\ UNCHANGED <<mode, endNum, db, ndag, wanted>>

\* Variant for mutation runs: the read loop stops one short of endNum.
CollectDoneEarly ==
  /\ phase = "collect"
  /\ n >= endNum
  /\ \/ /\ mode # "aid"
        /\ phase' = "failed"
        /\ UNCHANGED db
     \/ /\ db' = "gone"
        /\ phase' = "reload"
  /\ UNCHANGED <<mode, endNum, n, blocks, ndag, wanted>>

(***************************************************************************)
(* After the loop: through the chain, stop the VM service (its failure   *)
(* returns); then close the old database and delete it.                  *)
(***************************************************************************)
CollectDone ==
  /\ phase = "collect"
  /\ n > endNum
  /\ \/ /\ mode # "aid"
        /\ phase' = "failed"
        /\ UNCHANGED db
     \/ /\ db' = "gone"
        /\ phase' = "reload"
  /\ UNCHANGED <<mode, endNum, n, blocks, ndag, wanted>>

\* Variant for mutation runs: the accept loop reuses the read loop's index.
ReloadNoReset ==
  /\ phase = "reload"
  /\ \/ /\ phase' = "failed"
        /\ UNCHANGED <<db, ndag>>
     \/ /\ db' = "new"
        /\ ndag' = {Genesis}
        /\ phase' \in {"failed", "accept"}
  /\ UNCHANGED <<mode, endNum, n, blocks, wanted>>

(***************************************************************************)
(* LoadBlockDB, then a chain on it (cons.Init writes genesis, the VM      *)
(* service starts); each may fail, leaving the deleted database gone or   *)
(* the new one holding genesis only.                                      *)
(***************************************************************************)
Reload ==
  /\ phase = "reload"
  /\ \/ /\ phase' = "failed"
        /\ UNCHANGED <<db, ndag>>
     \/ /\ db' = "new"
        /\ ndag' = {Genesis}
        /\ phase' \in {"failed", "accept"}
  /\ n' = 1
  /\ UNCHANGED <<mode, endNum, blocks, wanted>>

\* CheckBlockSanity, then FastAcceptBlock with BFFastAdd: the DAG refuses a
\* known block or one with a missing parent.
Accepts(b) == b \notin Insane /\ b \notin ndag /\ Parents[b] \subseteq ndag

\* Variant for mutation runs: a rejected block is skipped, not returned on.
AcceptBlocksSkip ==
  /\ phase = "accept"
  /\ \/ /\ n <= Len(blocks)
        /\ ndag' = IF Accepts(blocks[n]) THEN ndag \cup {blocks[n]} ELSE ndag
        /\ n' = n + 1
        /\ UNCHANGED phase
     \/ /\ n > Len(blocks)
        /\ phase' = "done"
        /\ UNCHANGED <<ndag, n>>
  /\ UNCHANGED <<mode, endNum, blocks, db, wanted>>

(***************************************************************************)
(* The accept loop: CheckBlockSanity and FastAcceptBlock for each block   *)
(* in memory; the first error returns, leaving the new database partial.  *)
(***************************************************************************)
AcceptBlocks ==
  /\ phase = "accept"
  /\ \/ /\ n <= Len(blocks)
        /\ \/ /\ Accepts(blocks[n])
              /\ ndag' = ndag \cup {blocks[n]}
              /\ n' = n + 1
              /\ UNCHANGED phase
           \/ /\ ~Accepts(blocks[n])
              /\ phase' = "failed"
              /\ UNCHANGED <<ndag, n>>
     \/ /\ n > Len(blocks)
        /\ phase' = "done"
        /\ UNCHANGED <<ndag, n>>
  /\ UNCHANGED <<mode, endNum, blocks, db, wanted>>

\* The process is killed: only the database survives.
Crash ==
  /\ phase \in {"collect", "reload", "accept"}
  /\ phase' = "crashed"
  /\ UNCHANGED <<mode, endNum, n, blocks, db, ndag, wanted>>

Next == Start \/ Collect \/ CollectDone \/ Reload \/ AcceptBlocks \/ Crash

Spec == Init /\ [][Next]_vars

-----------------------------------------------------------------------------
Phases == {"idle", "collect", "reload", "accept", "done", "failed", "crashed"}

TypeOK ==
  /\ mode \in {"aid", "id", "order"}
  /\ endNum \in Nat /\ n \in Nat \ {0}
  /\ blocks \in Seq(Blocks) /\ ndag \subseteq Blocks /\ wanted \subseteq Blocks
  /\ db \in {"old", "gone", "new"} /\ phase \in Phases

(***************************************************************************)
(* The old database is deleted only after every block the command was     *)
(* asked for was read into memory: the read loop, and every error path    *)
(* before CleanupBlockDB, must leave the old database in place when a     *)
(* block is missing.                                                      *)
(***************************************************************************)
CleanupAfterRead == db # "old" => {blocks[k] : k \in 1..Len(blocks)} = wanted

(***************************************************************************)
(* A finished upgrade rebuilds exactly the wanted blocks on genesis: the  *)
(* blocks are read in an order FastAcceptBlock accepts (parents first),   *)
(* and the accept loop walks all of them.                                 *)
(***************************************************************************)
UpgradeRebuilds == phase = "done" => ndag = {Genesis} \cup wanted

=============================================================================
