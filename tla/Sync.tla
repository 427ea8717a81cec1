------------------------------- MODULE Sync --------------------------------
(***************************************************************************)
(* The block download side of peer sync (src/p2p/synch): one PeerSync     *)
(* goroutine asks its sync peer for the blocks it lacks                   *)
(* (processSyncDAGBlocks, processGetBlocks, or an announced block),       *)
(* filters out what it already has (processGetBlockDatas), fetches the    *)
(* missing bodies, and feeds them to BlockChain.ProcessBlock one by one,  *)
(* moving the peer's sync point as blocks are accepted.  Other callers    *)
(* (RPC, the relay of other peers) admit blocks concurrently.             *)
(*                                                                         *)
(* ProcessBlock is taken as one atomic call here: the PeerSync goroutine  *)
(* waits for its result, and Admission models its inside.  It rejects a   *)
(* known or pooled block, a block failing its checks, pools a block with  *)
(* a missing parent, and otherwise accepts it and adopts, transitively,   *)
(* the orphans that it makes ready (RefreshOrphans).                      *)
(***************************************************************************)
EXTENDS Naturals, Sequences, FiniteSets

CONSTANTS
  Blocks,       \* block hashes
  Genesis,      \* the genesis block
  Parents,      \* Parents[b]: the parents in b's header
  PeerBlocks,   \* the blocks the sync peer holds
  Insane,       \* blocks failing checkBlockSanity or the checkpoint checks
  BadContext,   \* blocks failing checkBlockContext
  StoredOnly,   \* bodies in the block store that the DAG lacks (left by a restart)
  MaxBatch,     \* MaxBlockLocatorsPerMsg, scaled down
  MaxRounds,    \* bound on the requests the model makes
  NoBlock       \* a nil *hash.Hash

ASSUME GenesisAssumption == Genesis \in Blocks /\ Parents[Genesis] = {}
ASSUME ParentsAssumption ==
  /\ Parents \in [Blocks -> SUBSET Blocks]
  /\ \A b \in Blocks \ {Genesis} : Parents[b] # {} /\ b \notin Parents[b]
ASSUME PeerAssumption ==
  /\ Genesis \in PeerBlocks /\ PeerBlocks \subseteq Blocks
  /\ \A b \in PeerBlocks : Parents[b] \subseteq PeerBlocks
ASSUME BoundsAssumption ==
  /\ Insane \subseteq Blocks \ {Genesis} /\ BadContext \subseteq Blocks \ {Genesis}
  /\ StoredOnly \subseteq Blocks \ {Genesis}
  /\ MaxBatch \in Nat \ {0} /\ MaxRounds \in Nat
  /\ NoBlock \notin Blocks

VARIABLES
  dag,        \* blocks the local DAG holds
  orphans,    \* the local orphan pool
  stored,     \* block bodies in the local block store
  syncPoint,  \* pe.SyncPoint(): where the next SyncDAG request starts
  phase,      \* where the PeerSync goroutine is
  batch,      \* the hashes passed to processGetBlockDatas
  datas,      \* blockDatas: the hashes of batch the DAG lacked, in order
  body,       \* the hashes in datas whose BlockData has a body
  ready,      \* blocksReady: the hashes to fetch from the peer
  point,      \* processGetBlockDatas's local point
  i,          \* the index of the next BlockData to process
  add,        \* blocks this round accepted
  hasOrphan,  \* whether a block of this round went to the orphan pool
  rounds      \* requests made so far

chainVars == <<dag, orphans, stored>>
roundVars == <<batch, datas, body, ready, point, i, add, hasOrphan>>
vars == <<chainVars, syncPoint, phase, roundVars, rounds>>

Phases == {"idle", "check", "filter", "request", "process"}

Range(s) == {s[k] : k \in DOMAIN s}

\* Sequences of distinct elements of S, of length 1 to n.
DistinctSeqs(S, n) ==
  UNION {{s \in [1..k -> S] : \A x, y \in 1..k : x # y => s[x] # s[y]} : k \in 1..n}

(***************************************************************************)
(* RefreshOrphans after an acceptance, as seen from outside the lock: the  *)
(* orphans whose parents are all present are resubmitted; those refused   *)
(* leave the pool without entering the DAG; those accepted may make       *)
(* further orphans ready, until a scan finds none.  The result is the     *)
(* least set above d closed under accepting a ready orphan.              *)
(***************************************************************************)
ClosedUnderAdoption(S, o) ==
  \A x \in o \ BadContext : Parents[x] \subseteq S => x \in S

Adopted(d, o) ==
  {x \in d \cup o : \A S \in SUBSET (d \cup o) :
                      d \subseteq S /\ ClosedUnderAdoption(S, o) => x \in S}

(***************************************************************************)
(* BlockChain.ProcessBlock(b, BFP2PAdd) as one atomic call, with its       *)
(* result: "dup" for a known or pooled block, "bad" for one failing the  *)
(* sanity checks or, once its parents are known, the context checks       *)
(* (both are errors), "orphan", or "ok".                                  *)
(***************************************************************************)
ProcessResult(b) ==
  CASE b \in dag \cup orphans -> "dup"
    [] b \in Insane -> "bad"
    [] ~(Parents[b] \subseteq dag) -> "orphan"
    [] b \in BadContext -> "bad"
    [] OTHER -> "ok"

ProcessBlock(b) ==
  LET r == ProcessResult(b) IN
  \/ /\ r \in {"dup", "bad"}
     /\ UNCHANGED chainVars
  \/ /\ r = "orphan"
     /\ orphans' = orphans \cup {b}
     /\ UNCHANGED <<dag, stored>>
  \/ /\ r = "ok"
     /\ LET d == Adopted(dag \cup {b}, orphans) IN
        /\ dag' = d
        /\ orphans' = {x \in orphans : ~(Parents[x] \subseteq d)}
        /\ stored' = stored \cup d

-----------------------------------------------------------------------------
Init ==
  /\ dag = {Genesis}
  /\ orphans = {}
  /\ stored = {Genesis} \cup StoredOnly
  /\ syncPoint = Genesis
  /\ phase = "idle"
  /\ batch = <<>>
  /\ datas = <<>>
  /\ body = {}
  /\ ready = <<>>
  /\ point = NoBlock
  /\ i = 1
  /\ add = 0
  /\ hasOrphan = FALSE
  /\ rounds = 0

\* The goroutine hands a batch to processGetBlockDatas.
StartRound(s) ==
  /\ batch' = s
  /\ datas' = <<>>
  /\ body' = {}
  /\ ready' = <<>>
  /\ point' = NoBlock
  /\ i' = 1
  /\ add' = 0
  /\ hasOrphan' = FALSE
  /\ phase' = "check"

(***************************************************************************)
(* processSyncDAGBlocks: send the SyncDAG request; on a failure try again *)
(* later; otherwise take the peer's sync point and, if the SubDAG lists   *)
(* blocks, hand them to GetBlockDatas.  What the peer lists is up to the  *)
(* peer (CalcSyncBlocks runs there): any blocks it holds.                 *)
(***************************************************************************)
SyncDAGBlocks ==
  /\ phase = "idle"
  /\ rounds < MaxRounds
  /\ rounds' = rounds + 1
  /\ \/ UNCHANGED <<syncPoint, phase, roundVars>>
     \/ \E sp \in PeerBlocks :
          /\ syncPoint' = sp
          /\ \/ UNCHANGED <<phase, roundVars>>
             \/ \E s \in DistinctSeqs(PeerBlocks, MaxBatch) : StartRound(s)
  /\ UNCHANGED chainVars

(***************************************************************************)
(* processGetBlocks, and GetBlocks with a single announced hash: ask for  *)
(* the blocks after a locator (or take the one hash) and hand them to     *)
(* GetBlockDatas; the sync point is left alone.                           *)
(***************************************************************************)
GetBlocks ==
  /\ phase = "idle"
  /\ rounds < MaxRounds
  /\ rounds' = rounds + 1
  /\ \/ UNCHANGED <<phase, roundVars>>
     \/ \E s \in DistinctSeqs(PeerBlocks, MaxBatch) : StartRound(s)
  /\ UNCHANGED <<chainVars, syncPoint>>

(***************************************************************************)
(* processGetBlockDatas, on entry: the peer must still be the connected   *)
(* sync peer (it can drop or be replaced while the request sat in         *)
(* msgChan); if not, the round ends.                                      *)
(***************************************************************************)
CheckSyncPeer ==
  /\ phase = "check"
  /\ phase' \in {"idle", "filter"}
  /\ UNCHANGED <<chainVars, syncPoint, roundVars, rounds>>

(***************************************************************************)
(* The first loop, one hash per step (each lookup takes the chain lock on *)
(* its own, so other admissions interleave): a block the DAG has moves   *)
(* the point; any other gets a BlockData, with the orphan's or the stored *)
(* body when there is one, and is otherwise to be fetched.                *)
(***************************************************************************)
FilterBlock ==
  /\ phase = "filter"
  /\ i <= Len(batch)
  /\ i' = i + 1
  /\ LET b == batch[i] IN
     \/ /\ b \in dag
        /\ point' = b
        /\ UNCHANGED <<datas, body, ready>>
     \/ /\ b \notin dag
        /\ datas' = Append(datas, b)
        /\ IF b \in orphans \/ b \in stored
             THEN /\ body' = body \cup {b}
                  /\ UNCHANGED ready
             ELSE /\ ready' = Append(ready, b)
                  /\ UNCHANGED body
        /\ UNCHANGED point
  /\ UNCHANGED <<chainVars, syncPoint, phase, batch, add, hasOrphan, rounds>>

(***************************************************************************)
(* After the first loop: with no BlockData the round ends, recording the  *)
(* point; otherwise the missing bodies are requested, or, when there are *)
(* none, the blocks are processed.                                        *)
(***************************************************************************)
FilterEnd ==
  /\ phase = "filter"
  /\ i > Len(batch)
  /\ i' = 1
  /\ \/ /\ datas = <<>>
        /\ phase' = "idle"
        /\ syncPoint' = IF point = NoBlock THEN syncPoint ELSE point
     \/ /\ datas # <<>>
        /\ phase' = IF ready = <<>> THEN "process" ELSE "request"
        /\ UNCHANGED syncPoint
  /\ UNCHANGED <<chainVars, batch, datas, body, ready, point, add, hasOrphan, rounds>>

(***************************************************************************)
(* sendGetBlockDataRequest and the peer's getBlockDataHandler: the peer   *)
(* fills the answer in request order and stops at the size limit of a    *)
(* chunk, so a prefix of the request comes back.  On a failed request    *)
(* (timeout, error code) the point is recorded and the round ends.        *)
(***************************************************************************)
Served(r) == {SubSeq(r, 1, k) : k \in 0..Len(r)}

FetchBodies ==
  /\ phase = "request"
  /\ \/ /\ phase' = "idle"
        /\ syncPoint' = IF point = NoBlock THEN syncPoint ELSE point
        /\ UNCHANGED body
     \/ \E got \in Served(ready) :
          /\ body' = body \cup Range(got)
          /\ phase' = "process"
          /\ UNCHANGED syncPoint
  /\ UNCHANGED <<chainVars, batch, datas, ready, point, i, add, hasOrphan, rounds>>

(***************************************************************************)
(* Variant for mutation runs: an orphan result does not `continue`, so it *)
(* is counted and moves the point like an accepted block.                 *)
(***************************************************************************)
ProcessDataNoContinue ==
  /\ phase = "process"
  /\ i <= Len(datas)
  /\ i' = i + 1
  /\ LET b == datas[i] IN
     \/ /\ b \notin body
        /\ UNCHANGED <<chainVars, point, add, hasOrphan>>
     \/ /\ b \in body
        /\ ProcessBlock(b)
        /\ add' = IF ProcessResult(b) \in {"ok", "orphan"} THEN add + 1 ELSE add
        /\ point' = IF ProcessResult(b) \in {"ok", "orphan"} THEN b ELSE point
        /\ hasOrphan' = (hasOrphan \/ ProcessResult(b) = "orphan")
  /\ UNCHANGED <<syncPoint, phase, batch, datas, body, ready, rounds>>

(***************************************************************************)
(* processGetBlockDatas, the second loop, one BlockData per step: skip a  *)
(* block without a body; otherwise call ProcessBlock, and count it and    *)
(* move the point to it if it was accepted.                               *)
(***************************************************************************)
ProcessData ==
  /\ phase = "process"
  /\ i <= Len(datas)
  /\ i' = i + 1
  /\ LET b == datas[i] IN
     \/ /\ b \notin body
        /\ UNCHANGED <<chainVars, point, add, hasOrphan>>
     \/ /\ b \in body
        /\ ProcessBlock(b)
        /\ add' = IF ProcessResult(b) = "ok" THEN add + 1 ELSE add
        /\ point' = IF ProcessResult(b) = "ok" THEN b ELSE point
        /\ hasOrphan' = (hasOrphan \/ ProcessResult(b) = "orphan")
  /\ UNCHANGED <<syncPoint, phase, batch, datas, body, ready, rounds>>

(***************************************************************************)
(* The end of processGetBlockDatas: when blocks were added, record the   *)
(* point; otherwise fail with "no get blocks" and send the sync point    *)
(* back to genesis.  continueSync then lets the goroutine go on.         *)
(***************************************************************************)
FinishRound ==
  /\ phase = "process"
  /\ i > Len(datas)
  /\ syncPoint' = IF add > 0
                    THEN IF point = NoBlock THEN syncPoint ELSE point
                    ELSE Genesis
  /\ phase' = "idle"
  /\ UNCHANGED <<chainVars, roundVars, rounds>>

(***************************************************************************)
(* Another caller (RPC submission, the relay of another peer) admits a    *)
(* block at any time, between any two steps of the round.                *)
(***************************************************************************)
OtherAdmit ==
  /\ \E b \in Blocks \ {Genesis} : ProcessBlock(b)
  /\ UNCHANGED <<syncPoint, phase, roundVars, rounds>>

Next ==
  \/ SyncDAGBlocks
  \/ GetBlocks
  \/ CheckSyncPeer
  \/ FilterBlock
  \/ FilterEnd
  \/ FetchBodies
  \/ ProcessData
  \/ FinishRound
  \/ OtherAdmit

Spec == Init /\ [][Next]_vars

-----------------------------------------------------------------------------
TypeOK ==
  /\ dag \subseteq Blocks /\ orphans \subseteq Blocks /\ stored \subseteq Blocks
  /\ syncPoint \in Blocks
  /\ phase \in Phases
  /\ batch \in Seq(Blocks) /\ datas \in Seq(Blocks) /\ ready \in Seq(Blocks)
  /\ body \subseteq Blocks
  /\ point \in Blocks \cup {NoBlock}
  /\ i \in Nat \ {0} /\ add \in Nat /\ hasOrphan \in BOOLEAN
  /\ rounds \in 0..MaxRounds

(***************************************************************************)
(* Whenever processGetBlockDatas moves the peer's sync point (after the   *)
(* filter, after a failed request, at the end of the round), it moves it *)
(* to a block the local DAG holds: the next SyncDAG request starts from   *)
(* a locator this node can resolve.  The peer's own SubDAG answer may set *)
(* any point; this is about the steps that run with a round in progress.  *)
(***************************************************************************)
SyncPointHeld ==
  [][phase # "idle" /\ syncPoint' # syncPoint => syncPoint' \in dag']_vars

=============================================================================
