----------------------------- MODULE Admission -----------------------------
(***************************************************************************)
(* Block admission in src/core/blockchain/process.go: ProcessBlock,        *)
(* preProcessBlock, maybeAcceptBlock, connectDagChain, connectBlock,       *)
(* disconnectBlock and updateBestState, run by several concurrent workers  *)
(* (one per peer or RPC caller) that share the chain read/write lock.      *)
(*                                                                         *)
(* Data is abstracted to what the properties tell apart: every block has   *)
(* one spendable output, named by the block itself, and spends the outputs *)
(* Spends[b] of earlier blocks; the UTXO set is a set of such outputs and  *)
(* the spend journal of a block is the set of outputs it spent.  The DAG   *)
(* ordering oracle (meerdag, not under src/) is a nondeterministic choice  *)
(* among all answers its contract allows.                                  *)
(***************************************************************************)
EXTENDS Naturals, Sequences, FiniteSets, SequencesExt

CONSTANTS
  Workers,      \* goroutines calling ProcessBlock concurrently
  Blocks,       \* block hashes, Genesis included
  Genesis,      \* the genesis block, present from the start
  Parents,      \* Parents[b]: the parent hashes in b's header
  Spends,       \* Spends[b]: the outputs b's transactions spend
  TxCount,      \* TxCount[b]: len(block.Block().Transactions)
  Insane,       \* blocks failing checkBlockSanity or the checkpoint checks
  BadContext,   \* blocks failing checkBlockContext (skipped under fast add)
  BadScript,    \* blocks failing checkConnectBlock for reasons other than missing inputs
  NoWorker      \* the write lock is free

ASSUME WorkersAssumption == Workers # {} /\ NoWorker \notin Workers
ASSUME BlocksAssumption == IsFiniteSet(Blocks) /\ Genesis \in Blocks
ASSUME ParentsAssumption ==
  /\ Parents \in [Blocks -> SUBSET Blocks]
  /\ Parents[Genesis] = {}
  /\ \A b \in Blocks \ {Genesis} : Parents[b] # {} /\ b \notin Parents[b]
ASSUME SpendsAssumption == Spends \in [Blocks -> SUBSET Blocks] /\ Spends[Genesis] = {}
ASSUME TxCountAssumption == TxCount \in [Blocks -> Nat \ {0}]
ASSUME FailureSetsAssumption ==
  /\ Insane \subseteq Blocks \ {Genesis}
  /\ BadContext \subseteq Blocks \ {Genesis}
  /\ BadScript \subseteq Blocks \ {Genesis}

VARIABLES
  dag,        \* blocks the DAG holds (bd.HasBlock)
  order,      \* the DAG's linear order of ordered blocks, Genesis first
  tip,        \* bd.GetMainChainTip()
  status,     \* per-block validity status kept by the DAG
  utxo,       \* the persistent UTXO set: outputs that are unspent
  journal,    \* the spend journal: outputs each connected block spent
  stored,     \* block bodies stored in the database
  orphans,    \* the orphan pool
  snap,       \* the published best-state snapshot (stateSnapshot)
  writer,     \* holder of the chain write lock, or NoWorker
  pc,         \* where each worker is
  blk,        \* the block each worker is processing
  fast,       \* whether the worker's flags include BFFastAdd
  ret,        \* "caller" for ProcessBlock, "refresh" for a block RefreshOrphans resubmitted
  newO,       \* per worker: newOrders still to connect
  oldO        \* per worker: oldOrders still to disconnect

dagVars == <<dag, order, tip, status>>
ledgerVars == <<utxo, journal, stored, snap>>
workerVars == <<pc, blk, fast, ret, newO, oldO>>
vars == <<dagVars, ledgerVars, orphans, writer, workerVars>>

Status == {"unknown", "valid", "invalid"}
PCs == {"idle", "pre", "accept", "commit", "connect", "reorgDisc", "reorgConn",
        "best", "refresh"}

Ordered == {order[i] : i \in DOMAIN order}

(***************************************************************************)
(* A sequence is topological when every block comes after all its parents. *)
(***************************************************************************)
Topological(s) ==
  \A i \in DOMAIN s : Parents[s[i]] \subseteq {s[j] : j \in 1..(i - 1)}

(***************************************************************************)
(* A worker that has finished one ProcessBlock call returns to its caller: *)
(* the peer loop, or the RefreshOrphans loop that resubmitted the block.   *)
(***************************************************************************)
Return(w) == pc' = [pc EXCEPT ![w] = IF ret[w] = "refresh" THEN "refresh" ELSE "idle"]

-----------------------------------------------------------------------------
(***************************************************************************)
(* Connecting one ordered block (checkConnectBlock, then connectBlock).    *)
(* When the inputs are missing or the scripts fail the block is marked     *)
(* invalid and its view is discarded: it stays in the DAG but its outputs  *)
(* are not added and nothing is journalled.  Otherwise the view's spends   *)
(* and new output are written with the spend journal entry.                *)
(***************************************************************************)
ConnectOK(b) == Spends[b] \subseteq utxo /\ b \notin BadScript

\* connectTransaction over the block's transactions: spend the inputs, add the outputs
ConnectTransaction(b) == (utxo \ Spends[b]) \cup {b}

ConnectBlock(b) ==
  IF ConnectOK(b)
    THEN /\ utxo' = ConnectTransaction(b)
         /\ journal' = [journal EXCEPT ![b] = Spends[b]]
         /\ status' = [status EXCEPT ![b] = "valid"]
    ELSE /\ status' = [status EXCEPT ![b] = "invalid"]
         /\ UNCHANGED <<utxo, journal>>

(***************************************************************************)
(* Disconnecting a block (disconnectTransactions, then disconnectBlock):   *)
(* its output is removed and the outputs its journal entry records are     *)
(* restored; the journal entry is deleted.  A block that never received    *)
(* UTXO effects has nothing to reverse.                                    *)
(***************************************************************************)
(***************************************************************************)
(* Variant for mutation runs: the stxos of the spend journal are not put  *)
(* back into the view.                                                     *)
(***************************************************************************)
DisconnectTransactionsNoRestore(b) == utxo \ {b}

\* disconnectTransactions: spend the block's outputs, restore the journalled inputs
DisconnectTransactions(b) == (utxo \ {b}) \cup journal[b]

DisconnectBlock(b) ==
  IF status[b] = "valid"
    THEN /\ utxo' = DisconnectTransactions(b)
         /\ journal' = [journal EXCEPT ![b] = {}]
    ELSE UNCHANGED <<utxo, journal>>

-----------------------------------------------------------------------------
Init ==
  /\ dag = {Genesis}
  /\ order = <<Genesis>>
  /\ tip = Genesis
  /\ status = [b \in Blocks |-> IF b = Genesis THEN "valid" ELSE "unknown"]
  /\ utxo = {Genesis}
  /\ journal = [b \in Blocks |-> {}]
  /\ stored = {Genesis}
  /\ orphans = {}
  /\ snap = [tip |-> Genesis, txns |-> TxCount[Genesis]]
  /\ writer = NoWorker
  /\ pc = [w \in Workers |-> "idle"]
  /\ blk = [w \in Workers |-> Genesis]
  /\ fast = [w \in Workers |-> FALSE]
  /\ ret = [w \in Workers |-> "caller"]
  /\ newO = [w \in Workers |-> <<>>]
  /\ oldO = [w \in Workers |-> <<>>]

(***************************************************************************)
(* ProcessBlock: a peer or RPC caller submits a block with its flags.      *)
(***************************************************************************)
ProcessBlock(w) ==
  /\ pc[w] = "idle"
  /\ \E b \in Blocks \ {Genesis}, f \in BOOLEAN :
       /\ blk' = [blk EXCEPT ![w] = b]
       /\ fast' = [fast EXCEPT ![w] = f]
  /\ pc' = [pc EXCEPT ![w] = "pre"]
  /\ ret' = [ret EXCEPT ![w] = "caller"]
  /\ UNCHANGED <<dagVars, ledgerVars, orphans, writer, newO, oldO>>

(***************************************************************************)
(* Variant for mutation runs: preProcessBlock without the IsOrphan check, *)
(* so a pooled block is accepted when it is submitted again.              *)
(***************************************************************************)
PreProcessBlockNoOrphanCheck(w) ==
  LET b == blk[w] IN
  /\ pc[w] = "pre"
  /\ writer = NoWorker
  /\ \/ /\ b \in dag \cup Insane
        /\ Return(w)
        /\ UNCHANGED orphans
     \/ /\ b \notin dag \cup Insane
        /\ ~(Parents[b] \subseteq dag)
        /\ orphans' = orphans \cup {b}
        /\ Return(w)
     \/ /\ b \notin dag \cup Insane
        /\ Parents[b] \subseteq dag
        /\ pc' = [pc EXCEPT ![w] = "accept"]
        /\ UNCHANGED orphans
  /\ UNCHANGED <<dagVars, ledgerVars, writer, blk, fast, ret, newO, oldO>>

(***************************************************************************)
(* Variant for mutation runs: preProcessBlock sends a block on to          *)
(* maybeAcceptBlock as soon as one of its parents is in the DAG.           *)
(***************************************************************************)
PreProcessBlockAnyParent(w) ==
  LET b == blk[w] IN
  /\ pc[w] = "pre"
  /\ writer = NoWorker
  /\ \/ /\ b \in dag \cup orphans \cup Insane
        /\ Return(w)
        /\ UNCHANGED orphans
     \/ /\ b \notin dag \cup orphans \cup Insane
        /\ Parents[b] \cap dag = {}
        /\ orphans' = orphans \cup {b}
        /\ Return(w)
     \/ /\ b \notin dag \cup orphans \cup Insane
        /\ Parents[b] \cap dag # {}
        /\ pc' = [pc EXCEPT ![w] = "accept"]
        /\ UNCHANGED orphans
  /\ UNCHANGED <<dagVars, ledgerVars, writer, blk, fast, ret, newO, oldO>>

(***************************************************************************)
(* preProcessBlock, under the read lock: reject a block the DAG already    *)
(* has or the orphan pool holds, reject an insane block, put a block with  *)
(* a missing parent in the orphan pool; otherwise go on to                 *)
(* maybeAcceptBlock.  The read lock is released on return, so nothing      *)
(* checked here is still held when the write lock is taken.               *)
(***************************************************************************)
PreProcessBlock(w) ==
  LET b == blk[w] IN
  /\ pc[w] = "pre"
  /\ writer = NoWorker
  /\ \/ /\ b \in dag \cup orphans \cup Insane
        /\ Return(w)
        /\ UNCHANGED orphans
     \/ /\ b \notin dag \cup orphans \cup Insane
        /\ ~(Parents[b] \subseteq dag)
        /\ orphans' = orphans \cup {b}
        /\ Return(w)
     \/ /\ b \notin dag \cup orphans \cup Insane
        /\ Parents[b] \subseteq dag
        /\ pc' = [pc EXCEPT ![w] = "accept"]
        /\ UNCHANGED orphans
  /\ UNCHANGED <<dagVars, ledgerVars, writer, blk, fast, ret, newO, oldO>>

(***************************************************************************)
(* Variant for mutation runs: the checkBlockContext error path returns    *)
(* without ChainUnlock.                                                    *)
(***************************************************************************)
AcceptContextNoUnlock(w) ==
  /\ pc[w] = "accept"
  /\ writer = NoWorker
  /\ \/ /\ ~fast[w]
        /\ blk[w] \in BadContext
        /\ Return(w)
        /\ writer' = w
     \/ /\ fast[w] \/ blk[w] \notin BadContext
        /\ writer' = w
        /\ pc' = [pc EXCEPT ![w] = "commit"]
  /\ UNCHANGED <<dagVars, ledgerVars, orphans, blk, fast, ret, newO, oldO>>

(***************************************************************************)
(* maybeAcceptBlock up to the DAG update: take the write lock; unless fast *)
(* add, resolve the main parent and run checkBlockContext, releasing the   *)
(* lock and returning the error when it fails.                            *)
(***************************************************************************)
AcceptContext(w) ==
  /\ pc[w] = "accept"
  /\ writer = NoWorker
  /\ \/ /\ ~fast[w]
        /\ blk[w] \in BadContext
        /\ Return(w)
        /\ UNCHANGED writer
     \/ /\ fast[w] \/ blk[w] \notin BadContext
        /\ writer' = w
        /\ pc' = [pc EXCEPT ![w] = "commit"]
  /\ UNCHANGED <<dagVars, ledgerVars, orphans, blk, fast, ret, newO, oldO>>

(***************************************************************************)
(* bd.AddBlock (meerdag, modelled from its contract): a block the DAG      *)
(* already has is refused with an empty node handle.  Otherwise the block  *)
(* joins the DAG, and the oracle may keep a prefix of the order, remove    *)
(* the rest (oldOrders) and order anew (newOrders) the removed blocks      *)
(* together with any unordered blocks, the new one included or not, in a   *)
(* topological order; the main tip stays or becomes the new block.        *)
(***************************************************************************)
AddBlock(w) ==
  LET b == blk[w] IN
  /\ b \notin dag
  /\ dag' = dag \cup {b}
  /\ \E k \in 1..Len(order), X \in SUBSET ((dag \ Ordered) \cup {b}) :
       LET removed == SubSeq(order, k + 1, Len(order)) IN
       \E s \in SetToSeqs({removed[i] : i \in DOMAIN removed} \cup X) :
         /\ Topological(SubSeq(order, 1, k) \o s)
         /\ order' = SubSeq(order, 1, k) \o s
         /\ newO' = [newO EXCEPT ![w] = s]
         /\ oldO' = [oldO EXCEPT ![w] = removed]
         /\ tip' \in {tip} \cup ({b} \cap {s[i] : i \in DOMAIN s})

(***************************************************************************)
(* maybeAcceptBlock from the DAG update to the connect: prune, add the     *)
(* block to the DAG (an empty handle unlocks and returns an error), store  *)
(* the block body if it is not stored yet, pass the shutdown gate.        *)
(***************************************************************************)
AcceptCommit(w) ==
  /\ pc[w] = "commit"
  /\ \/ /\ blk[w] \in dag
        /\ writer' = NoWorker
        /\ Return(w)
        /\ UNCHANGED <<dagVars, stored, newO, oldO>>
     \/ /\ AddBlock(w)
        /\ stored' = stored \cup {blk[w]}
        /\ pc' = [pc EXCEPT ![w] = "connect"]
        /\ UNCHANGED <<status, writer>>
  /\ UNCHANGED <<utxo, journal, snap, orphans, blk, fast, ret>>

(***************************************************************************)
(* connectDagChain.  With nothing removed from the order and nothing but   *)
(* the block itself newly ordered it extends the chain: an unordered block *)
(* is left as it is, an ordered one is connected (connectBlock with its    *)
(* status valid or invalid).  Otherwise reorganizeChain runs.             *)
(***************************************************************************)
IsSimpleExtend(w) ==
  oldO[w] = <<>> /\ (newO[w] = <<>> \/ newO[w] = <<blk[w]>>)

ConnectDagChain(w) ==
  LET b == blk[w] IN
  /\ pc[w] = "connect"
  /\ \/ /\ IsSimpleExtend(w)
        /\ b \notin Ordered
        /\ pc' = [pc EXCEPT ![w] = "best"]
        /\ UNCHANGED <<status, utxo, journal, newO>>
     \/ /\ IsSimpleExtend(w)
        /\ b \in Ordered
        /\ ConnectBlock(b)
        /\ newO' = [newO EXCEPT ![w] = <<>>]
        /\ pc' = [pc EXCEPT ![w] = "best"]
     \/ /\ ~IsSimpleExtend(w)
        /\ pc' = [pc EXCEPT ![w] = "reorgDisc"]
        /\ UNCHANGED <<status, utxo, journal, newO>>
  /\ UNCHANGED <<dag, order, tip, stored, snap, orphans, writer, blk, fast, ret, oldO>>

(***************************************************************************)
(* reorganizeChain, first loop: disconnect oldOrders newest first, each    *)
(* block in a database transaction of its own.                             *)
(***************************************************************************)
ReorgDisconnect(w) ==
  /\ pc[w] = "reorgDisc"
  /\ \/ /\ oldO[w] # <<>>
        /\ DisconnectBlock(Last(oldO[w]))
        /\ oldO' = [oldO EXCEPT ![w] = Front(oldO[w])]
        /\ UNCHANGED pc
     \/ /\ oldO[w] = <<>>
        /\ pc' = [pc EXCEPT ![w] = "reorgConn"]
        /\ UNCHANGED <<utxo, journal, oldO>>
  /\ UNCHANGED <<dagVars, stored, snap, orphans, writer, blk, fast, ret, newO>>

(***************************************************************************)
(* reorganizeChain, second loop: connect newOrders oldest first, each      *)
(* checked anew against the UTXO set it meets.                             *)
(***************************************************************************)
ReorgConnect(w) ==
  /\ pc[w] = "reorgConn"
  /\ \/ /\ newO[w] # <<>>
        /\ ConnectBlock(Head(newO[w]))
        /\ newO' = [newO EXCEPT ![w] = Tail(newO[w])]
        /\ UNCHANGED pc
     \/ /\ newO[w] = <<>>
        /\ pc' = [pc EXCEPT ![w] = "best"]
        /\ UNCHANGED <<status, utxo, journal, newO>>
  /\ UNCHANGED <<dag, order, tip, stored, snap, orphans, writer, blk, fast, ret, oldO>>

(***************************************************************************)
(* Variants for mutation runs: the snapshot names the accepted block       *)
(* instead of bd.GetMainChainTip(); processBlock skips RefreshOrphans.     *)
(***************************************************************************)
UpdateBestStateBlockAsTip(w) ==
  /\ pc[w] = "best"
  /\ snap' = [tip |-> blk[w], txns |-> snap.txns + TxCount[blk[w]]]
  /\ writer' = NoWorker
  /\ pc' = [pc EXCEPT ![w] = "refresh"]
  /\ UNCHANGED <<dagVars, utxo, journal, stored, orphans, blk, fast, ret, newO, oldO>>

UpdateBestStateNoRefresh(w) ==
  /\ pc[w] = "best"
  /\ snap' = [tip |-> tip, txns |-> snap.txns + TxCount[blk[w]]]
  /\ writer' = NoWorker
  /\ pc' = [pc EXCEPT ![w] = "idle"]
  /\ UNCHANGED <<dagVars, utxo, journal, stored, orphans, blk, fast, ret, newO, oldO>>

(***************************************************************************)
(* updateBestState, then the shutdown gate's Done and ChainUnlock: the new *)
(* snapshot names the DAG's main tip and adds this block's transactions to *)
(* the total; it is persisted and then published.  After the unlock the    *)
(* notifications are sent and processBlock calls RefreshOrphans.           *)
(***************************************************************************)
UpdateBestState(w) ==
  /\ pc[w] = "best"
  /\ snap' = [tip |-> tip, txns |-> snap.txns + TxCount[blk[w]]]
  /\ writer' = NoWorker
  /\ pc' = [pc EXCEPT ![w] = "refresh"]
  /\ UNCHANGED <<dagVars, utxo, journal, stored, orphans, blk, fast, ret, newO, oldO>>

(***************************************************************************)
(* Variant for mutation runs: RefreshOrphans resubmits an orphan as soon  *)
(* as one of its parents is in the DAG, not all of them.                  *)
(***************************************************************************)
RefreshOrphansAnyParent(w) ==
  /\ pc[w] = "refresh"
  /\ \/ \E o \in orphans :
          /\ Parents[o] \cap dag # {}
          /\ orphans' = orphans \ {o}
          /\ blk' = [blk EXCEPT ![w] = o]
          /\ fast' = [fast EXCEPT ![w] = FALSE]
          /\ ret' = [ret EXCEPT ![w] = "refresh"]
          /\ pc' = [pc EXCEPT ![w] = "pre"]
     \/ /\ \A o \in orphans : Parents[o] \cap dag = {}
        /\ pc' = [pc EXCEPT ![w] = "idle"]
        /\ UNCHANGED <<orphans, blk, fast, ret>>
  /\ UNCHANGED <<dagVars, ledgerVars, writer, newO, oldO>>

(***************************************************************************)
(* RefreshOrphans: an orphan whose parents are all in the DAG leaves the   *)
(* pool and is resubmitted; when none is ready the call returns.          *)
(***************************************************************************)
RefreshOrphans(w) ==
  /\ pc[w] = "refresh"
  /\ \/ \E o \in orphans :
          /\ Parents[o] \subseteq dag
          /\ orphans' = orphans \ {o}
          /\ blk' = [blk EXCEPT ![w] = o]
          /\ fast' = [fast EXCEPT ![w] = FALSE]
          /\ ret' = [ret EXCEPT ![w] = "refresh"]
          /\ pc' = [pc EXCEPT ![w] = "pre"]
     \/ /\ \A o \in orphans : ~(Parents[o] \subseteq dag)
        /\ pc' = [pc EXCEPT ![w] = "idle"]
        /\ UNCHANGED <<orphans, blk, fast, ret>>
  /\ UNCHANGED <<dagVars, ledgerVars, writer, newO, oldO>>

Step(w) ==
  \/ PreProcessBlock(w)
  \/ AcceptContext(w)
  \/ AcceptCommit(w)
  \/ ConnectDagChain(w)
  \/ ReorgDisconnect(w)
  \/ ReorgConnect(w)
  \/ UpdateBestState(w)
  \/ RefreshOrphans(w)

Next == \E w \in Workers : ProcessBlock(w) \/ Step(w)

(***************************************************************************)
(* Fairness.  A worker that has begun a call finishes it: every step after *)
(* the submission is weakly fair, and the two steps that wait for the lock *)
(* are strongly fair because Go's sync.RWMutex lets a waiting writer block *)
(* new readers and wakes waiting readers on Unlock.  Submissions are not   *)
(* fair: peers may stop sending.                                           *)
(***************************************************************************)
Fairness ==
  \A w \in Workers :
    /\ SF_vars(PreProcessBlock(w))
    /\ SF_vars(AcceptContext(w))
    /\ WF_vars(AcceptCommit(w) \/ ConnectDagChain(w) \/ ReorgDisconnect(w)
               \/ ReorgConnect(w) \/ UpdateBestState(w) \/ RefreshOrphans(w))

Spec == Init /\ [][Next]_vars
FairSpec == Spec /\ Fairness

-----------------------------------------------------------------------------
TypeOK ==
  /\ dag \subseteq Blocks
  /\ order \in Seq(Blocks)
  /\ tip \in Blocks
  /\ status \in [Blocks -> Status]
  /\ utxo \subseteq Blocks
  /\ journal \in [Blocks -> SUBSET Blocks]
  /\ stored \subseteq Blocks
  /\ orphans \subseteq Blocks
  /\ snap \in [tip : Blocks, txns : Nat]
  /\ writer \in Workers \cup {NoWorker}
  /\ pc \in [Workers -> PCs]
  /\ blk \in [Workers -> Blocks]
  /\ fast \in [Workers -> BOOLEAN]
  /\ ret \in [Workers -> {"caller", "refresh"}]
  /\ newO \in [Workers -> Seq(Blocks)]
  /\ oldO \in [Workers -> Seq(Blocks)]

-----------------------------------------------------------------------------
(***************************************************************************)
(* The reference ledger: replaying an order from an empty UTXO set, each   *)
(* block is valid when its spent outputs are unspent at its turn and its   *)
(* scripts pass, and then spends them and adds its own output.            *)
(***************************************************************************)
Replay(s) ==
  LET r[i \in 0..Len(s)] ==
        IF i = 0 THEN [utxo |-> {}, valid |-> {}]
        ELSE LET p == r[i - 1]
                 b == s[i]
             IN  IF Spends[b] \subseteq p.utxo /\ b \notin BadScript
                   THEN [utxo |-> (p.utxo \ Spends[b]) \cup {b}, valid |-> p.valid \cup {b}]
                   ELSE p
  IN  r[Len(s)]

(***************************************************************************)
(* No worker is between bd.AddBlock and the end of connectDagChain.        *)
(***************************************************************************)
LedgerSettled == \A w \in Workers : pc[w] \notin {"connect", "reorgDisc", "reorgConn"}

(***************************************************************************)
(* Exactly-once application and exact reversal across reorganizations:     *)
(* whenever no connect is under way, the UTXO set, the validity status and *)
(* the spend journal of every ordered block are those obtained by          *)
(* replaying the DAG's current order from genesis, however the blocks      *)
(* arrived and however many times connectDagChain / reorganizeChain        *)
(* disconnected and reconnected them.                                      *)
(***************************************************************************)
UtxoFollowsOrder ==
  LedgerSettled =>
    LET r == Replay(order) IN
    /\ utxo = r.utxo
    /\ \A i \in DOMAIN order :
         LET b == order[i] IN
         /\ status[b] = IF b \in r.valid THEN "valid" ELSE "invalid"
         /\ journal[b] = IF b \in r.valid THEN Spends[b] ELSE {}

(***************************************************************************)
(* A block is never both in the orphan pool and in the DAG, although the   *)
(* orphan test of preProcessBlock runs under the read lock and the DAG is  *)
(* changed later under the write lock, and RefreshOrphans resubmits        *)
(* orphans concurrently with other workers' submissions.                   *)
(***************************************************************************)
OrphansNotInDag == orphans \cap dag = {}

(***************************************************************************)
(* Spec 4.2 and 8: an empty node handle from bd.AddBlock is a fatal        *)
(* oracle failure, and a block submitted twice is refused with             *)
(* DuplicateBlock.  So no worker should ever reach bd.AddBlock (in         *)
(* maybeAcceptBlock) with a block the DAG already holds, which is what     *)
(* makes AddBlock return the empty handle.                                 *)
(***************************************************************************)
NoEmptyHandle == \A w \in Workers : pc[w] = "commit" => blk[w] \notin dag

(***************************************************************************)
(* Inductive strengthening of OrphansNotInDag: a worker past the orphan   *)
(* check of preProcessBlock holds a block whose parents are in the DAG,   *)
(* so no other worker can put that block into the orphan pool before     *)
(* bd.AddBlock inserts it.                                                 *)
(***************************************************************************)
OrphanInv ==
  /\ TypeOK
  /\ OrphansNotInDag
  /\ \A w \in Workers :
       pc[w] \in {"accept", "commit"} =>
         /\ Parents[blk[w]] \subseteq dag
         /\ blk[w] \notin orphans

(***************************************************************************)
(* The best-state snapshot (updateBestState) is consistent with the DAG    *)
(* whenever the write lock is free: it names the DAG's main tip, and its   *)
(* cumulative transaction count counts every block in the DAG exactly      *)
(* once, even when two workers raced past preProcessBlock with the same    *)
(* block.                                                                  *)
(***************************************************************************)
SnapshotMatchesDag ==
  writer = NoWorker =>
    /\ snap.tip = tip
    /\ snap.txns = MapThenSumSet(LAMBDA b : TxCount[b], dag)

(***************************************************************************)
(* maybeAcceptBlock unlocks by hand on each of its returns rather than     *)
(* with a defer: the write lock is held exactly by a worker that is        *)
(* between ChainLock and the ChainUnlock after updateBestState, so no      *)
(* error path leaves it held.                                              *)
(***************************************************************************)
CriticalSection == {"commit", "connect", "reorgDisc", "reorgConn", "best"}

LockHeldInCriticalSection ==
  /\ writer # NoWorker => pc[writer] \in CriticalSection
  /\ \A w \in Workers : pc[w] \in CriticalSection => writer = w

(***************************************************************************)
(* An orphan whose parents have all reached the DAG is eventually taken    *)
(* out of the pool by RefreshOrphans (and accepted or rejected).           *)
(***************************************************************************)
OrphanAdopted ==
  \A b \in Blocks : (b \in orphans /\ Parents[b] \subseteq dag) ~> (b \notin orphans)

-----------------------------------------------------------------------------
Dag == INSTANCE BlockDag WITH dag <- dag, orphans <- orphans

(***************************************************************************)
(* Admission implements the DAG contract of BlockDag with the identity     *)
(* mapping on the DAG and the orphan pool: however the workers'            *)
(* read-locked checks and write-locked commits interleave, every step that *)
(* changes either is an admission of a block whose parents are in the DAG  *)
(* and that is not pooled, a pooling of a block with a missing parent, or  *)
(* the release of an orphan whose parents arrived.                         *)
(***************************************************************************)
RefinesDag == Dag!Spec

(***************************************************************************)
(* Every block in the DAG has all its parents in the DAG.  preProcessBlock *)
(* checks the parents under the read lock and releases it before           *)
(* maybeAcceptBlock calls bd.AddBlock, so this holds only because no step  *)
(* ever removes a block from the DAG in between.                           *)
(***************************************************************************)
DagClosed == Dag!Closed

=============================================================================
