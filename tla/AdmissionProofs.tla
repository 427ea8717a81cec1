-------------------------- MODULE AdmissionProofs --------------------------
(***************************************************************************)
(* Proofs about Admission that hold for every value of the constants.      *)
(***************************************************************************)
EXTENDS Admission, TLAPS, SequenceTheorems, FiniteSetTheorems

(***************************************************************************)
(* A permutation of a subset of Blocks, as the ordering oracle returns it, *)
(* is a sequence of blocks.                                                *)
(***************************************************************************)
LEMMA PermutationIsSeq ==
  ASSUME NEW S \in SUBSET Blocks, NEW s \in SetToSeqs(S)
  PROVE  s \in Seq(Blocks)
<1>1. IsFiniteSet(S)
  BY BlocksAssumption, FS_Subset
<1>2. Cardinality(S) \in Nat
  BY <1>1, FS_CardinalityType
<1>3. s \in [1..Cardinality(S) -> Blocks]
  BY DEF SetToSeqs
<1>. QED
  BY <1>2, <1>3

(***************************************************************************)
(* The answer of bd.AddBlock is well typed.                                *)
(***************************************************************************)
LEMMA AddBlockTyping ==
  ASSUME TypeOK, NEW w \in Workers, AddBlock(w)
  PROVE  /\ dag' \subseteq Blocks
         /\ order' \in Seq(Blocks)
         /\ tip' \in Blocks
         /\ newO' \in [Workers -> Seq(Blocks)]
         /\ oldO' \in [Workers -> Seq(Blocks)]
<1>. DEFINE b == blk[w]
<1>1. b \in Blocks
  BY DEF TypeOK
<1>2. PICK k \in 1..Len(order), X \in SUBSET ((dag \ Ordered) \cup {b}) :
        LET removed == SubSeq(order, k + 1, Len(order)) IN
        \E s \in SetToSeqs({removed[i] : i \in DOMAIN removed} \cup X) :
          /\ order' = SubSeq(order, 1, k) \o s
          /\ newO' = [newO EXCEPT ![w] = s]
          /\ oldO' = [oldO EXCEPT ![w] = removed]
          /\ tip' \in {tip} \cup ({b} \cap {s[i] : i \in DOMAIN s})
  BY DEF AddBlock
<1>. DEFINE removed == SubSeq(order, k + 1, Len(order))
            prefix == SubSeq(order, 1, k)
<1>3. removed \in Seq(Blocks) /\ prefix \in Seq(Blocks)
  BY SubSeqProperties DEF TypeOK
<1>4. {removed[i] : i \in DOMAIN removed} \cup X \subseteq Blocks
  <2>1. X \subseteq Blocks
    BY <1>1 DEF TypeOK
  <2>. QED
    BY <1>3, <2>1
<1>5. PICK s \in SetToSeqs({removed[i] : i \in DOMAIN removed} \cup X) :
        /\ order' = prefix \o s
        /\ newO' = [newO EXCEPT ![w] = s]
        /\ oldO' = [oldO EXCEPT ![w] = removed]
        /\ tip' \in {tip} \cup ({b} \cap {s[i] : i \in DOMAIN s})
  BY <1>2
<1>6. s \in Seq(Blocks)
  BY <1>4, PermutationIsSeq
<1>7. order' \in Seq(Blocks)
  BY <1>3, <1>5, <1>6, ConcatProperties
<1>8. dag' \subseteq Blocks
  BY <1>1 DEF AddBlock, TypeOK
<1>. QED
  BY <1>1, <1>3, <1>5, <1>6, <1>7, <1>8 DEF TypeOK

(***************************************************************************)
(* Connecting a block keeps the ledger well typed.                         *)
(***************************************************************************)
LEMMA ConnectBlockTyping ==
  ASSUME TypeOK, NEW b \in Blocks, ConnectBlock(b)
  PROVE  /\ utxo' \subseteq Blocks
         /\ journal' \in [Blocks -> SUBSET Blocks]
         /\ status' \in [Blocks -> Status]
<1>1. CASE ConnectOK(b)
  <2>1. /\ utxo' = (utxo \ Spends[b]) \cup {b}
        /\ journal' = [journal EXCEPT ![b] = Spends[b]]
        /\ status' = [status EXCEPT ![b] = "valid"]
    BY <1>1 DEF ConnectBlock, ConnectTransaction
  <2>2. Spends[b] \subseteq Blocks
    BY SpendsAssumption
  <2>. QED
    BY <2>1, <2>2 DEF TypeOK, Status
<1>2. CASE ~ConnectOK(b)
  BY <1>2 DEF ConnectBlock, TypeOK, Status
<1>. QED
  BY <1>1, <1>2

(***************************************************************************)
(* Every step of the workers keeps the state well typed.                  *)
(***************************************************************************)
LEMMA TypeInductive == TypeOK /\ [Next]_vars => TypeOK'
<1>2. TypeOK /\ [Next]_vars => TypeOK'
  <2> SUFFICES ASSUME TypeOK, [Next]_vars PROVE TypeOK'
    OBVIOUS
  <2> USE DEF dagVars, ledgerVars
  <2>1. ASSUME NEW w \in Workers, ProcessBlock(w) PROVE TypeOK'
    BY <2>1 DEF ProcessBlock, TypeOK, PCs
  <2>2. ASSUME NEW w \in Workers, PreProcessBlock(w) PROVE TypeOK'
    <3>1. pc' \in [Workers -> PCs]
      BY <2>2 DEF PreProcessBlock, Return, TypeOK, PCs
    <3>2. orphans' \subseteq Blocks
      BY <2>2 DEF PreProcessBlock, TypeOK
    <3>. QED
      BY <2>2, <3>1, <3>2 DEF PreProcessBlock, TypeOK
  <2>3. ASSUME NEW w \in Workers, AcceptContext(w) PROVE TypeOK'
    BY <2>3 DEF AcceptContext, Return, TypeOK, PCs
  <2>4. ASSUME NEW w \in Workers, AcceptCommit(w) PROVE TypeOK'
    <3>1. CASE blk[w] \in dag /\ writer' = NoWorker /\ Return(w)
              /\ UNCHANGED <<dagVars, stored, newO, oldO>>
      BY <2>4, <3>1 DEF AcceptCommit, Return, TypeOK, PCs, dagVars
    <3>2. CASE AddBlock(w) /\ stored' = stored \cup {blk[w]}
              /\ pc' = [pc EXCEPT ![w] = "connect"] /\ UNCHANGED <<status, writer>>
      BY <2>4, <3>2, AddBlockTyping DEF AcceptCommit, TypeOK, PCs
    <3>. QED
      BY <2>4, <3>1, <3>2 DEF AcceptCommit
  <2>5. ASSUME NEW w \in Workers, ConnectDagChain(w) PROVE TypeOK'
    <3>1. blk[w] \in Blocks
      BY DEF TypeOK
    <3>2. CASE IsSimpleExtend(w) /\ blk[w] \in Ordered /\ ConnectBlock(blk[w])
               /\ newO' = [newO EXCEPT ![w] = <<>>] /\ pc' = [pc EXCEPT ![w] = "best"]
      BY <2>5, <3>1, <3>2, ConnectBlockTyping DEF ConnectDagChain, TypeOK, PCs
    <3>3. CASE UNCHANGED <<status, utxo, journal, newO>>
               /\ pc' \in {[pc EXCEPT ![w] = "best"], [pc EXCEPT ![w] = "reorgDisc"]}
      BY <2>5, <3>3 DEF ConnectDagChain, TypeOK, PCs
    <3>. QED
      BY <2>5, <3>2, <3>3 DEF ConnectDagChain
  <2>6. ASSUME NEW w \in Workers, ReorgDisconnect(w) PROVE TypeOK'
    <3>1. CASE oldO[w] # <<>>
      <4>1. Front(oldO[w]) \in Seq(Blocks) /\ Last(oldO[w]) \in Blocks
        BY <3>1, SubSeqProperties, EmptySeq DEF TypeOK, Front, Last
      <4>. QED
        BY <2>6, <3>1, <4>1 DEF ReorgDisconnect, DisconnectBlock, DisconnectTransactions, TypeOK
    <3>2. CASE oldO[w] = <<>>
      BY <2>6, <3>2 DEF ReorgDisconnect, TypeOK, PCs
    <3>. QED
      BY <3>1, <3>2
  <2>7. ASSUME NEW w \in Workers, ReorgConnect(w) PROVE TypeOK'
    <3>1. CASE newO[w] # <<>>
      <4>1. Tail(newO[w]) \in Seq(Blocks) /\ Head(newO[w]) \in Blocks
        BY <3>1, HeadTailProperties DEF TypeOK
      <4>. QED
        BY <2>7, <3>1, <4>1, ConnectBlockTyping DEF ReorgConnect, TypeOK, PCs
    <3>2. CASE newO[w] = <<>>
      BY <2>7, <3>2 DEF ReorgConnect, TypeOK, PCs
    <3>. QED
      BY <3>1, <3>2
  <2>8. ASSUME NEW w \in Workers, UpdateBestState(w) PROVE TypeOK'
    BY <2>8, TxCountAssumption DEF UpdateBestState, TypeOK, PCs
  <2>9. ASSUME NEW w \in Workers, RefreshOrphans(w) PROVE TypeOK'
    <3>1. CASE \E o \in orphans : /\ Parents[o] \subseteq dag
                                  /\ orphans' = orphans \ {o}
                                  /\ blk' = [blk EXCEPT ![w] = o]
                                  /\ fast' = [fast EXCEPT ![w] = FALSE]
                                  /\ ret' = [ret EXCEPT ![w] = "refresh"]
                                  /\ pc' = [pc EXCEPT ![w] = "pre"]
      BY <2>9, <3>1 DEF RefreshOrphans, TypeOK, PCs
    <3>2. CASE pc' = [pc EXCEPT ![w] = "idle"] /\ UNCHANGED <<orphans, blk, fast, ret>>
      BY <2>9, <3>2 DEF RefreshOrphans, TypeOK, PCs
    <3>. QED
      BY <2>9, <3>1, <3>2 DEF RefreshOrphans
  <2>10. CASE UNCHANGED vars
    BY <2>10 DEF vars, dagVars, ledgerVars, workerVars, TypeOK
  <2>. QED
    BY <2>1, <2>2, <2>3, <2>4, <2>5, <2>6, <2>7, <2>8, <2>9, <2>10 DEF Next, Step
<1>. QED
  BY <1>2

(***************************************************************************)
(* Type correctness: every reachable state is well typed.                 *)
(***************************************************************************)
THEOREM TypeCorrect == Spec => []TypeOK
<1>1. Init => TypeOK
  BY TxCountAssumption, BlocksAssumption DEF Init, TypeOK, Status, PCs
<1>. QED
  BY <1>1, TypeInductive, PTL DEF Spec

(***************************************************************************)
(* A worker that returns from ProcessBlock goes back to idle or to the    *)
(* orphan refresh, never to the accept path.                              *)
(***************************************************************************)
LEMMA ReturnLeavesAccept ==
  ASSUME TypeOK, NEW w \in Workers, Return(w)
  PROVE  pc'[w] \notin {"accept", "commit"}
BY DEF Return, TypeOK

(***************************************************************************)
(* The strengthened invariant holds initially.                            *)
(***************************************************************************)
LEMMA OrphanInvInit == Init => OrphanInv
<1>1. Init => TypeOK
  BY TxCountAssumption, BlocksAssumption DEF Init, TypeOK, Status, PCs
<1>. QED
  BY <1>1 DEF Init, OrphanInv, OrphansNotInDag

(***************************************************************************)
(* Every step keeps the orphan pool disjoint from the DAG and keeps the   *)
(* blocks of workers on the accept path out of the pool, with their       *)
(* parents in the DAG.                                                     *)
(***************************************************************************)
LEMMA OrphanInvInductive == OrphanInv /\ [Next]_vars => OrphanInv'
<1> SUFFICES ASSUME OrphanInv, [Next]_vars PROVE OrphanInv'
  OBVIOUS
<1>0. TypeOK /\ TypeOK'
  BY TypeInductive DEF OrphanInv
<1> DEFINE Acc(u) == pc'[u] \in {"accept", "commit"}
           Good(u) == Parents[blk'[u]] \subseteq dag' /\ blk'[u] \notin orphans'
           Goal == /\ orphans' \cap dag' = {}
                   /\ \A u \in Workers : Acc(u) => Good(u)
<1> SUFFICES Goal
  BY <1>0 DEF OrphanInv, OrphansNotInDag, Goal, Acc, Good
<1>1. ASSUME NEW w \in Workers, ProcessBlock(w) PROVE Goal
  BY <1>0, <1>1 DEF ProcessBlock, OrphanInv, OrphansNotInDag, TypeOK, dagVars, ledgerVars
<1>2. ASSUME NEW w \in Workers, PreProcessBlock(w) PROVE Goal
  <2>. DEFINE b == blk[w]
  <2>1. UNCHANGED <<dag, blk>>
    BY <1>2 DEF PreProcessBlock, dagVars
  <2>2. CASE b \in dag \cup orphans \cup Insane /\ Return(w) /\ UNCHANGED orphans
    <3>1. pc'[w] \notin {"accept", "commit"}
      BY <2>2, <1>0, ReturnLeavesAccept
    <3>2. \A u \in Workers \ {w} : pc'[u] = pc[u]
      BY <2>2, <1>0 DEF Return, TypeOK
    <3>. QED
      BY <2>1, <2>2, <3>1, <3>2 DEF OrphanInv, OrphansNotInDag, Goal, Acc, Good
  <2>3. CASE /\ b \notin dag \cup orphans \cup Insane
             /\ ~(Parents[b] \subseteq dag)
             /\ orphans' = orphans \cup {b}
             /\ Return(w)
    <3>1. pc'[w] \notin {"accept", "commit"}
      BY <2>3, <1>0, ReturnLeavesAccept
    <3>2. \A u \in Workers \ {w} : pc'[u] = pc[u]
      BY <2>3, <1>0 DEF Return, TypeOK
    <3>3. \A u \in Workers : pc[u] \in {"accept", "commit"} => blk[u] # b
      BY <2>3 DEF OrphanInv
    <3>. QED
      BY <2>1, <2>3, <3>1, <3>2, <3>3 DEF OrphanInv, OrphansNotInDag, Goal, Acc, Good
  <2>4. CASE /\ b \notin dag \cup orphans \cup Insane
             /\ Parents[b] \subseteq dag
             /\ pc' = [pc EXCEPT ![w] = "accept"]
             /\ UNCHANGED orphans
    BY <1>0, <2>1, <2>4 DEF OrphanInv, OrphansNotInDag, Goal, Acc, Good, TypeOK
  <2>. QED
    BY <1>2, <2>2, <2>3, <2>4 DEF PreProcessBlock
<1>3. ASSUME NEW w \in Workers, AcceptContext(w) PROVE Goal
  <2>1. UNCHANGED <<dag, blk, orphans>>
    BY <1>3 DEF AcceptContext, dagVars
  <2>2. pc[w] = "accept" /\ pc' \in {[pc EXCEPT ![w] = "commit"],
                                     [pc EXCEPT ![w] = "idle"],
                                     [pc EXCEPT ![w] = "refresh"]}
    BY <1>3 DEF AcceptContext, Return
  <2>. QED
    BY <1>0, <2>1, <2>2 DEF OrphanInv, OrphansNotInDag, Goal, Acc, Good, TypeOK
<1>4. ASSUME NEW w \in Workers, AcceptCommit(w) PROVE Goal
  <2>1. pc[w] = "commit" /\ UNCHANGED <<orphans, blk>>
    BY <1>4 DEF AcceptCommit
  <2>2. CASE blk[w] \in dag /\ Return(w) /\ UNCHANGED dag
    <3>1. pc'[w] \notin {"accept", "commit"}
      BY <2>2, <1>0, ReturnLeavesAccept
    <3>2. \A u \in Workers \ {w} : pc'[u] = pc[u]
      BY <2>2, <1>0 DEF Return, TypeOK
    <3>. QED
      BY <2>1, <2>2, <3>1, <3>2 DEF OrphanInv, OrphansNotInDag, Goal, Acc, Good
  <2>3. CASE dag' = dag \cup {blk[w]} /\ pc' = [pc EXCEPT ![w] = "connect"]
    <3>1. blk[w] \notin orphans
      BY <2>1 DEF OrphanInv
    <3>. QED
      BY <1>0, <2>1, <2>3, <3>1 DEF OrphanInv, OrphansNotInDag, Goal, Acc, Good, TypeOK
  <2>. QED
    BY <1>4, <2>2, <2>3 DEF AcceptCommit, AddBlock, dagVars
<1>5. ASSUME NEW w \in Workers,
             \/ ConnectDagChain(w) \/ ReorgDisconnect(w) \/ ReorgConnect(w)
             \/ UpdateBestState(w)
      PROVE  Goal
  <2>1. /\ UNCHANGED <<dag, orphans, blk>>
        /\ pc[w] \in {"connect", "reorgDisc", "reorgConn", "best"}
        /\ pc'[w] \in {"connect", "reorgDisc", "reorgConn", "best", "refresh"}
        /\ \A u \in Workers \ {w} : pc'[u] = pc[u]
    BY <1>0, <1>5 DEF ConnectDagChain, ReorgDisconnect, ReorgConnect, UpdateBestState,
                      dagVars, TypeOK
  <2>. QED
    BY <2>1 DEF OrphanInv, OrphansNotInDag, Goal, Acc, Good
<1>6. ASSUME NEW w \in Workers, RefreshOrphans(w) PROVE Goal
  <2>1. /\ UNCHANGED dag
        /\ orphans' \subseteq orphans
        /\ pc'[w] \in {"pre", "idle"}
        /\ \A u \in Workers \ {w} : pc'[u] = pc[u] /\ blk'[u] = blk[u]
    BY <1>0, <1>6 DEF RefreshOrphans, dagVars, TypeOK
  <2>. QED
    BY <2>1 DEF OrphanInv, OrphansNotInDag, Goal, Acc, Good
<1>7. CASE UNCHANGED vars
  BY <1>7 DEF vars, dagVars, workerVars, OrphanInv, OrphansNotInDag, Goal, Acc, Good
<1>. QED
  BY <1>1, <1>2, <1>3, <1>4, <1>5, <1>6, <1>7 DEF Next, Step

(***************************************************************************)
(* No block is both in the orphan pool and in the DAG: preProcessBlock    *)
(* only pools blocks the DAG lacks, and a block another worker is        *)
(* inserting cannot be pooled meanwhile, because its parents are in the  *)
(* DAG.                                                                    *)
(***************************************************************************)
THEOREM OrphansDisjoint == Spec => []OrphansNotInDag
<1>1. OrphanInv => OrphansNotInDag
  BY DEF OrphanInv
<1>. QED
  BY <1>1, OrphanInvInit, OrphanInvInductive, PTL DEF Spec

-----------------------------------------------------------------------------
(***************************************************************************)
(* Every step of Admission is a step of BlockDag on the DAG and the pool,  *)
(* or leaves both alone.  The commit needs OrphanInv: the block a worker   *)
(* inserts has its parents in the DAG and is not pooled.                  *)
(***************************************************************************)
LEMMA DagStep == OrphanInv /\ [Next]_vars => [Dag!Next]_(Dag!dagState)
<1> SUFFICES ASSUME OrphanInv, [Next]_vars PROVE [Dag!Next]_(Dag!dagState)
  OBVIOUS
<1> DEFINE Same == UNCHANGED <<dag, orphans>>
<1>0. Same => [Dag!Next]_(Dag!dagState)
  BY DEF Dag!dagState
<1>1. ASSUME NEW w \in Workers, ProcessBlock(w) PROVE Same
  BY <1>1 DEF ProcessBlock, dagVars
<1>2. ASSUME NEW w \in Workers, PreProcessBlock(w) PROVE [Dag!Next]_(Dag!dagState)
  <2>. DEFINE b == blk[w]
  <2>1. b \in Blocks
    BY DEF OrphanInv, TypeOK
  <2>2. CASE /\ b \notin dag \cup orphans \cup Insane
             /\ ~(Parents[b] \subseteq dag)
             /\ orphans' = orphans \cup {b}
    <3>1. Dag!Pool(b)
      BY <1>2, <2>2 DEF PreProcessBlock, dagVars, Dag!Pool
    <3>. QED
      BY <2>1, <3>1 DEF Dag!Next
  <2>3. CASE ~(/\ b \notin dag \cup orphans \cup Insane
               /\ ~(Parents[b] \subseteq dag)
               /\ orphans' = orphans \cup {b})
    <3>1. Same
      BY <1>2, <2>3 DEF PreProcessBlock, dagVars
    <3>. QED
      BY <3>1, <1>0
  <2>. QED
    BY <2>2, <2>3
<1>3. ASSUME NEW w \in Workers, AcceptContext(w) PROVE Same
  BY <1>3 DEF AcceptContext, dagVars
<1>4. ASSUME NEW w \in Workers, AcceptCommit(w) PROVE [Dag!Next]_(Dag!dagState)
  <2>1. pc[w] = "commit" /\ UNCHANGED orphans
    BY <1>4 DEF AcceptCommit
  <2>2. CASE blk[w] \in dag /\ UNCHANGED dag
    BY <2>1, <2>2, <1>0
  <2>3. CASE AddBlock(w)
    <3>1. blk[w] \in Blocks /\ blk[w] \notin orphans /\ Parents[blk[w]] \subseteq dag
      BY <2>1 DEF OrphanInv, TypeOK
    <3>2. Dag!Admit(blk[w])
      BY <2>1, <2>3, <3>1 DEF AddBlock, Dag!Admit
    <3>. QED
      BY <3>1, <3>2 DEF Dag!Next
  <2>. QED
    BY <1>4, <2>2, <2>3 DEF AcceptCommit, dagVars
<1>5. ASSUME NEW w \in Workers,
             \/ ConnectDagChain(w) \/ ReorgDisconnect(w) \/ ReorgConnect(w)
             \/ UpdateBestState(w)
      PROVE  Same
  BY <1>5 DEF ConnectDagChain, ReorgDisconnect, ReorgConnect, UpdateBestState, dagVars
<1>6. ASSUME NEW w \in Workers, RefreshOrphans(w) PROVE [Dag!Next]_(Dag!dagState)
  <2>1. CASE \E o \in orphans : Parents[o] \subseteq dag /\ orphans' = orphans \ {o}
    <3>1. PICK o \in orphans : Parents[o] \subseteq dag /\ orphans' = orphans \ {o}
      BY <2>1
    <3>2. o \in Blocks
      BY DEF OrphanInv, TypeOK
    <3>3. Dag!Release(o)
      BY <1>6, <3>1 DEF RefreshOrphans, dagVars, Dag!Release
    <3>. QED
      BY <3>2, <3>3 DEF Dag!Next
  <2>2. CASE ~\E o \in orphans : Parents[o] \subseteq dag /\ orphans' = orphans \ {o}
    <3>1. Same
      BY <1>6, <2>2 DEF RefreshOrphans, dagVars
    <3>. QED
      BY <3>1, <1>0
  <2>. QED
    BY <2>1, <2>2
<1>7. CASE UNCHANGED vars
  BY <1>7, <1>0 DEF vars, dagVars
<1>. QED
  BY <1>0, <1>1, <1>2, <1>3, <1>4, <1>5, <1>6, <1>7 DEF Next, Step

(***************************************************************************)
(* Admission implements BlockDag (the refinement RefinesDag that the       *)
(* admission_safety run checks): initially the DAG holds genesis and the   *)
(* pool is empty, and every step is a BlockDag step or a stutter.          *)
(***************************************************************************)
THEOREM AdmissionRefinesDag == Spec => RefinesDag
<1>1. Init => Dag!Init
  BY DEF Init, Dag!Init
<1>2. OrphanInv /\ [Next]_vars => [Dag!Next]_(Dag!dagState)
  BY DagStep
<1>. QED
  BY <1>1, <1>2, OrphanInvInit, OrphanInvInductive, PTL DEF Spec, RefinesDag, Dag!Spec


-----------------------------------------------------------------------------
(***************************************************************************)
(* The write lock.  Only AcceptContext takes it, and only when it is free, *)
(* moving its worker into the critical section; the worker leaves the      *)
(* section exactly when it releases the lock (the empty-handle return of   *)
(* AcceptCommit, or UpdateBestState).  Every other step keeps its worker   *)
(* inside or outside the section and leaves the lock alone.                *)
(***************************************************************************)
LEMMA LockInductive ==
  TypeOK /\ LockHeldInCriticalSection /\ [Next]_vars => LockHeldInCriticalSection'
<1> SUFFICES ASSUME TypeOK, LockHeldInCriticalSection, [Next]_vars
             PROVE  LockHeldInCriticalSection'
  OBVIOUS
<1>. USE WorkersAssumption DEF LockHeldInCriticalSection, CriticalSection, TypeOK, PCs
<1>1. ASSUME NEW w \in Workers, ProcessBlock(w) PROVE LockHeldInCriticalSection'
  BY <1>1 DEF ProcessBlock
<1>2. ASSUME NEW w \in Workers, PreProcessBlock(w) PROVE LockHeldInCriticalSection'
  BY <1>2 DEF PreProcessBlock, Return
<1>3. ASSUME NEW w \in Workers, AcceptContext(w) PROVE LockHeldInCriticalSection'
  BY <1>3 DEF AcceptContext, Return
<1>4. ASSUME NEW w \in Workers, AcceptCommit(w) PROVE LockHeldInCriticalSection'
  <2>0. pc[w] = "commit" /\ writer = w
    BY <1>4 DEF AcceptCommit
  <2>1. CASE blk[w] \in dag /\ writer' = NoWorker /\ Return(w)
    BY <2>0, <2>1 DEF Return
  <2>2. CASE AddBlock(w) /\ pc' = [pc EXCEPT ![w] = "connect"] /\ UNCHANGED writer
    BY <2>0, <2>2
  <2>. QED
    BY <1>4, <2>1, <2>2 DEF AcceptCommit
<1>5. ASSUME NEW w \in Workers, ConnectDagChain(w) PROVE LockHeldInCriticalSection'
  BY <1>5 DEF ConnectDagChain
<1>6. ASSUME NEW w \in Workers, ReorgDisconnect(w) PROVE LockHeldInCriticalSection'
  BY <1>6 DEF ReorgDisconnect
<1>7. ASSUME NEW w \in Workers, ReorgConnect(w) PROVE LockHeldInCriticalSection'
  BY <1>7 DEF ReorgConnect
<1>8. ASSUME NEW w \in Workers, UpdateBestState(w) PROVE LockHeldInCriticalSection'
  BY <1>8 DEF UpdateBestState
<1>9. ASSUME NEW w \in Workers, RefreshOrphans(w) PROVE LockHeldInCriticalSection'
  BY <1>9 DEF RefreshOrphans
<1>10. CASE UNCHANGED vars
  BY <1>10 DEF vars, workerVars
<1>. QED
  BY <1>1, <1>2, <1>3, <1>4, <1>5, <1>6, <1>7, <1>8, <1>9, <1>10 DEF Next, Step

(***************************************************************************)
(* The write lock is held exactly by the worker inside maybeAcceptBlock's  *)
(* critical section, for every number of workers: no path of the hand-     *)
(* written unlocks leaves the lock held after a return or lets a second    *)
(* worker in.                                                              *)
(***************************************************************************)
THEOREM LockExclusive == Spec => []LockHeldInCriticalSection
<1>1. Init => LockHeldInCriticalSection
  BY WorkersAssumption DEF Init, LockHeldInCriticalSection, CriticalSection
<1>. QED
  BY <1>1, LockInductive, TypeCorrect, PTL DEF Spec

-----------------------------------------------------------------------------
(***************************************************************************)
(* The abstract specification keeps its DAG closed under parents: it      *)
(* admits a block only when all its parents are in the DAG, and genesis   *)
(* has none.                                                               *)
(***************************************************************************)
LEMMA AbstractDagClosed == Dag!Spec => []Dag!Closed
<1>1. Dag!Init => Dag!Closed
  BY ParentsAssumption DEF Dag!Init, Dag!Closed
<1>2. Dag!Closed /\ [Dag!Next]_(Dag!dagState) => Dag!Closed'
  <2> SUFFICES ASSUME Dag!Closed, [Dag!Next]_(Dag!dagState) PROVE Dag!Closed'
    OBVIOUS
  <2>1. ASSUME NEW b \in Blocks, Dag!Admit(b) PROVE Dag!Closed'
    BY <2>1 DEF Dag!Admit, Dag!Closed
  <2>2. ASSUME NEW b \in Blocks, Dag!Pool(b) \/ Dag!Release(b) PROVE Dag!Closed'
    BY <2>2 DEF Dag!Pool, Dag!Release, Dag!Closed
  <2>3. CASE UNCHANGED Dag!dagState
    BY <2>3 DEF Dag!dagState, Dag!Closed
  <2>. QED
    BY <2>1, <2>2, <2>3 DEF Dag!Next
<1>. QED
  BY <1>1, <1>2, PTL DEF Dag!Spec

(***************************************************************************)
(* The DAG stays closed under parents for every instance: a consequence of *)
(* the refinement, since the abstract specification admits a block only   *)
(* when its parents are all in the DAG, although preProcessBlock checked  *)
(* them under a read lock released before bd.AddBlock.                     *)
(***************************************************************************)
THEOREM DagParentsClosed == Spec => []DagClosed
BY AdmissionRefinesDag, AbstractDagClosed, PTL DEF RefinesDag, DagClosed

=============================================================================
