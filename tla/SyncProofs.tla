----------------------------- MODULE SyncProofs -----------------------------
(***************************************************************************)
(* Proofs about the block download of peer sync: the type invariant, and *)
(* that a round only moves the peer's sync point to a block the local DAG *)
(* holds (SyncPointHeld), for every instance of the constants.            *)
(***************************************************************************)
EXTENDS Sync, TLAPS

USE DEF chainVars, roundVars

(***************************************************************************)
(* The strengthening: genesis stays in the DAG, and the local point of    *)
(* processGetBlockDatas, once set, names a block of the DAG.  The DAG     *)
(* only grows, which keeps both true across other callers' admissions.    *)
(***************************************************************************)
SyncInv ==
  /\ TypeOK
  /\ Genesis \in dag
  /\ point # NoBlock => point \in dag

\* TypeOK without the flag hasOrphan, which the provers handle apart.
TypeCore ==
  /\ dag \subseteq Blocks /\ orphans \subseteq Blocks /\ stored \subseteq Blocks
  /\ syncPoint \in Blocks
  /\ phase \in Phases
  /\ batch \in Seq(Blocks) /\ datas \in Seq(Blocks) /\ ready \in Seq(Blocks)
  /\ body \subseteq Blocks
  /\ point \in Blocks \cup {NoBlock}
  /\ i \in Nat \ {0} /\ add \in Nat
  /\ rounds \in 0..MaxRounds

CoreInv ==
  /\ TypeCore
  /\ Genesis \in dag
  /\ point # NoBlock => point \in dag

\* The orphans adopted after an acceptance lie between the DAG and the DAG
\* with the pool.
LEMMA AdoptedBounds ==
  ASSUME NEW d, NEW o
  PROVE  d \subseteq Adopted(d, o) /\ Adopted(d, o) \subseteq d \cup o
BY DEF Adopted

\* ProcessBlock never removes a block from the DAG and keeps every chain set
\* within Blocks.
LEMMA ProcessBlockGrows ==
  ASSUME dag \subseteq Blocks, orphans \subseteq Blocks, stored \subseteq Blocks,
         NEW b \in Blocks, ProcessBlock(b)
  PROVE  /\ dag \subseteq dag'
         /\ ProcessResult(b) = "ok" => b \in dag'
         /\ dag' \subseteq Blocks /\ orphans' \subseteq Blocks /\ stored' \subseteq Blocks
<1> DEFINE r == ProcessResult(b)
<1>1. CASE r \in {"dup", "bad"}
  BY <1>1 DEF ProcessBlock
<1>2. CASE r = "orphan"
  BY <1>2 DEF ProcessBlock
<1>3. CASE r = "ok"
  <2> DEFINE d == Adopted(dag \cup {b}, orphans)
  <2>1. dag' = d /\ orphans' = {x \in orphans : ~(Parents[x] \subseteq d)}
               /\ stored' = stored \cup d
    BY <1>3 DEF ProcessBlock
  <2>2. dag \cup {b} \subseteq d /\ d \subseteq dag \cup {b} \cup orphans
    BY AdoptedBounds
  <2>3. QED
    BY <2>1, <2>2
<1>4. QED
  <2>1. r \in {"dup", "bad", "orphan", "ok"}
    BY DEF ProcessResult
  <2>2. QED
    BY <2>1, <1>1, <1>2, <1>3

\* Every batch a peer can list is a sequence of blocks.
LEMMA DistinctSeqsType ==
  ASSUME NEW S, NEW n \in Nat
  PROVE  DistinctSeqs(S, n) \subseteq Seq(S)
BY DEF DistinctSeqs

\* A prefix of a sequence of blocks names only blocks.
LEMMA ServedType ==
  ASSUME NEW r \in Seq(Blocks), NEW got \in Served(r)
  PROVE  got \in Seq(Blocks) /\ Range(got) \subseteq Blocks
<1>1. PICK k \in 0..Len(r) : got = SubSeq(r, 1, k)
  BY DEF Served
<1>2. got \in Seq(Blocks)
  BY <1>1
<1>3. QED
  BY <1>2 DEF Range

\* The flag hasOrphan stays a Boolean.
LEMMA FlagInductive ==
  ASSUME hasOrphan \in BOOLEAN, [Next]_vars
  PROVE  hasOrphan' \in BOOLEAN
BY Zenon DEF Next, vars, SyncDAGBlocks, StartRound, GetBlocks, CheckSyncPeer,
             FilterBlock, FilterEnd, FetchBodies, ProcessData, FinishRound, OtherAdmit

\* A step of the round or of another caller keeps the strengthening.
LEMMA CoreInductive ==
  ASSUME CoreInv, [Next]_vars
  PROVE  CoreInv'
<1> USE PeerAssumption, GenesisAssumption, BoundsAssumption
<1>1. CASE SyncDAGBlocks
  <2>1. CASE UNCHANGED <<syncPoint, phase, roundVars>>
    BY <1>1, <2>1 DEF SyncDAGBlocks, CoreInv, TypeCore
  <2>2. CASE \E sp \in PeerBlocks : syncPoint' = sp /\ UNCHANGED <<phase, roundVars>>
    BY <1>1, <2>2 DEF SyncDAGBlocks, CoreInv, TypeCore
  <2>3. CASE \E sp \in PeerBlocks, s \in DistinctSeqs(PeerBlocks, MaxBatch) :
               syncPoint' = sp /\ StartRound(s)
    <3>1. PICK sp \in PeerBlocks, s \in DistinctSeqs(PeerBlocks, MaxBatch) :
                syncPoint' = sp /\ StartRound(s)
      BY <2>3
    <3>2. s \in Seq(Blocks)
      BY DistinctSeqsType
    <3>3. QED
      BY <1>1, <3>1, <3>2 DEF SyncDAGBlocks, StartRound, CoreInv, TypeCore, Phases
  <2>4. QED
    BY <1>1, <2>1, <2>2, <2>3 DEF SyncDAGBlocks
<1>2. CASE GetBlocks
  <2>1. CASE UNCHANGED <<phase, roundVars>>
    BY <1>2, <2>1 DEF GetBlocks, CoreInv, TypeCore
  <2>2. CASE \E s \in DistinctSeqs(PeerBlocks, MaxBatch) : StartRound(s)
    <3>1. PICK s \in DistinctSeqs(PeerBlocks, MaxBatch) : StartRound(s)
      BY <2>2
    <3>2. s \in Seq(Blocks)
      BY DistinctSeqsType
    <3>3. QED
      BY <1>2, <3>1, <3>2 DEF GetBlocks, StartRound, CoreInv, TypeCore, Phases
  <2>3. QED
    BY <1>2, <2>1, <2>2 DEF GetBlocks
<1>3. CASE CheckSyncPeer
  BY <1>3 DEF CheckSyncPeer, CoreInv, TypeCore, Phases
<1>4. CASE FilterBlock
  <2> DEFINE b == batch[i]
  <2>1. b \in Blocks /\ i' = i + 1 /\ UNCHANGED <<dag, orphans, stored, syncPoint, phase, batch, add, rounds>>
    BY <1>4 DEF FilterBlock, CoreInv, TypeCore
  <2>2. CASE b \in dag
    <3>1. point' = b /\ UNCHANGED <<datas, body, ready>>
      BY <1>4, <2>2 DEF FilterBlock
    <3>2. QED
      BY <2>1, <2>2, <3>1 DEF CoreInv, TypeCore
  <2>3. CASE b \notin dag /\ (b \in orphans \/ b \in stored)
    <3>1. datas' = Append(datas, b) /\ body' = body \cup {b} /\ UNCHANGED <<ready, point>>
      BY <1>4, <2>3 DEF FilterBlock
    <3>2. QED
      BY <2>1, <3>1 DEF CoreInv, TypeCore
  <2>4. CASE b \notin dag /\ ~(b \in orphans \/ b \in stored)
    <3>1. datas' = Append(datas, b) /\ ready' = Append(ready, b) /\ UNCHANGED <<body, point>>
      BY <1>4, <2>4 DEF FilterBlock
    <3>2. QED
      BY <2>1, <3>1 DEF CoreInv, TypeCore
  <2>5. QED
    BY <2>2, <2>3, <2>4
<1>5. CASE FilterEnd
  BY <1>5 DEF FilterEnd, CoreInv, TypeCore, Phases
<1>6. CASE FetchBodies
  <2>1. \A got \in Served(ready) : Range(got) \subseteq Blocks
    BY ServedType DEF CoreInv, TypeCore
  <2>2. QED
    BY <1>6, <2>1 DEF FetchBodies, CoreInv, TypeCore, Phases
<1>7. CASE ProcessData
  <2> DEFINE b == datas[i]
  <2>1. b \in Blocks /\ i' = i + 1 /\ UNCHANGED <<syncPoint, phase, batch, datas, body, ready, rounds>>
    BY <1>7 DEF ProcessData, CoreInv, TypeCore
  <2>2. CASE b \notin body
    BY <1>7, <2>1, <2>2 DEF ProcessData, CoreInv, TypeCore
  <2>3. CASE b \in body
    <3>1. /\ ProcessBlock(b)
          /\ add' = IF ProcessResult(b) = "ok" THEN add + 1 ELSE add
          /\ point' = IF ProcessResult(b) = "ok" THEN b ELSE point
      BY <1>7, <2>3 DEF ProcessData
    <3>2. /\ dag \subseteq dag'
          /\ ProcessResult(b) = "ok" => b \in dag'
          /\ dag' \subseteq Blocks /\ orphans' \subseteq Blocks /\ stored' \subseteq Blocks
      BY <2>1, <3>1, ProcessBlockGrows DEF CoreInv, TypeCore
    <3>3. CASE ProcessResult(b) = "ok"
      BY <2>1, <3>1, <3>2, <3>3 DEF CoreInv, TypeCore
    <3>4. CASE ProcessResult(b) # "ok"
      BY <2>1, <3>1, <3>2, <3>4 DEF CoreInv, TypeCore
    <3>5. QED
      BY <3>3, <3>4
  <2>4. QED
    BY <2>2, <2>3
<1>8. CASE FinishRound
  BY <1>8 DEF FinishRound, CoreInv, TypeCore, Phases
<1>9. CASE OtherAdmit
  <2>1. PICK b \in Blocks \ {Genesis} : ProcessBlock(b)
    BY <1>9 DEF OtherAdmit
  <2>2. dag \subseteq dag' /\ dag' \subseteq Blocks /\ orphans' \subseteq Blocks /\ stored' \subseteq Blocks
    BY <2>1, ProcessBlockGrows DEF CoreInv, TypeCore
  <2>3. QED
    BY <1>9, <2>2 DEF OtherAdmit, CoreInv, TypeCore
<1>10. CASE UNCHANGED vars
  BY <1>10 DEF vars, CoreInv, TypeCore
<1>11. QED
  BY <1>1, <1>2, <1>3, <1>4, <1>5, <1>6, <1>7, <1>8, <1>9, <1>10 DEF Next

LEMMA SyncInvInductive ==
  ASSUME SyncInv, [Next]_vars
  PROVE  SyncInv'
<1>1. CoreInv /\ hasOrphan \in BOOLEAN
  BY Zenon DEF SyncInv, CoreInv, TypeOK, TypeCore
<1>2. CoreInv' /\ hasOrphan' \in BOOLEAN
  BY <1>1, CoreInductive, FlagInductive
<1>3. QED
  BY <1>2, Zenon DEF SyncInv, CoreInv, TypeOK, TypeCore

\* The initial state satisfies the strengthening.
LEMMA SyncInvInit ==
  ASSUME Init
  PROVE  SyncInv
<1>1. hasOrphan \in BOOLEAN
  BY DEF Init
<1>2. CoreInv
  BY GenesisAssumption, BoundsAssumption DEF Init, CoreInv, TypeCore, Phases
<1>3. QED
  BY <1>1, <1>2, Zenon DEF SyncInv, CoreInv, TypeOK, TypeCore

(***************************************************************************)
(* The type invariant of the sync model holds in every reachable state.   *)
(***************************************************************************)
THEOREM SyncTypeCorrect == Spec => []TypeOK
<1>1. SyncInv /\ [][Next]_vars => []SyncInv
  BY SyncInvInductive, PTL
<1>2. QED
  BY <1>1, SyncInvInit, PTL DEF Spec, SyncInv

\* Under the strengthening, a step taken while a round is in progress moves
\* the sync point only to a block of the DAG after the step.
LEMMA SyncPointStep ==
  ASSUME SyncInv, [Next]_vars
  PROVE  phase # "idle" /\ syncPoint' # syncPoint => syncPoint' \in dag'
<1> SUFFICES ASSUME phase # "idle", syncPoint' # syncPoint
             PROVE  syncPoint' \in dag'
  OBVIOUS
<1>1. CASE FilterEnd
  BY <1>1 DEF FilterEnd, SyncInv
<1>2. CASE FetchBodies
  BY <1>2 DEF FetchBodies, SyncInv
<1>3. CASE FinishRound
  BY <1>3 DEF FinishRound, SyncInv
<1>4. QED
  BY <1>1, <1>2, <1>3 DEF Next, vars, SyncDAGBlocks, GetBlocks, CheckSyncPeer,
                          FilterBlock, ProcessData, OtherAdmit

(***************************************************************************)
(* SyncPointHeld for every instance: whatever other callers admit, however *)
(* short the peer's answers and whichever requests fail, the steps of      *)
(* processGetBlockDatas only move the peer's sync point to a block the     *)
(* local DAG holds.                                                        *)
(***************************************************************************)
THEOREM SyncPointHeldProof == Spec => SyncPointHeld
<1>1. SyncInv /\ [][Next]_vars => []SyncInv
  BY SyncInvInductive, PTL
<1>2. SyncInv /\ [Next]_vars => (phase # "idle" /\ syncPoint' # syncPoint => syncPoint' \in dag')
  BY SyncPointStep
<1>3. QED
  BY <1>1, <1>2, SyncInvInit, PTL DEF Spec, SyncPointHeld

=============================================================================
