--------------------------- MODULE UpgradeProofs ----------------------------
(***************************************************************************)
(* Proofs about upgradeBlockChain (Upgrade.tla) for every DAG, lookup and  *)
(* end point the assumptions allow.                                        *)
(***************************************************************************)
EXTENDS Upgrade, TLAPS

\* The blocks held in memory.
InMemory == {blocks[k] : k \in 1..Len(blocks)}

(***************************************************************************)
(* The invariant behind CleanupAfterRead.  While the read loop runs, the   *)
(* blocks in memory are those of ids or orders 1..n-1 and the range is     *)
(* 1..endNum of the same lookup; once the database is gone, the loop has   *)
(* passed endNum.  In aid mode this needs endNum to be the last id, which  *)
(* holds when the chain state record is there.  The accept loop has put  *)
(* the first n-1 blocks in memory on genesis, so it reaches "done" only    *)
(* with all of them.                                                       *)
(***************************************************************************)
UpgradeInv ==
  /\ TypeOK
  /\ endNum <= Len(Lookup(mode))
  /\ phase = "idle" => db = "old" /\ n = 1 /\ blocks = <<>>
  /\ phase = "collect" =>
       /\ db = "old" /\ n <= endNum + 1
       /\ InMemory = Upto(Lookup(mode), n - 1)
       /\ wanted = Upto(Lookup(mode), endNum)
  /\ db # "old" => InMemory = wanted
  /\ phase \in {"reload", "accept", "done"} => db # "old"
  /\ phase = "accept" =>
       /\ n <= Len(blocks) + 1
       /\ ndag = {Genesis} \cup {blocks[k] : k \in 1..n - 1}
  /\ phase = "done" => ndag = {Genesis} \cup InMemory

-----------------------------------------------------------------------------
\* The end of the range lies within the lookup it indexes.
LEMMA EndNumType ==
  ASSUME HasChainState, NEW m \in {"aid", "id", "order"}, NEW end
  PROVE  EndNum(m, end) \in 0..Len(Lookup(m))
<1>1. CASE m = "aid"
  BY <1>1, UpgradeAssumption DEF EndNum, Lookup
<1>2. CASE m # "aid"
  <2> DEFINE s == Lookup(m)
  <2>1. s \in Seq(Blocks \cup {NoBlock})
    BY UpgradeAssumption DEF Lookup
  <2>2. \E k \in 1..Len(s) : s[k] = MainTip
    BY UpgradeAssumption DEF Lookup
  <2>3. MainTip # Genesis
    BY UpgradeAssumption
  <2>4. IndexIn(s, MainTip) \in 1..Len(s)
    BY <2>2, <2>3 DEF IndexIn
  <2>5. end = Genesis \/ Contains(s, end) => IndexIn(s, end) \in 0..Len(s)
    BY DEF IndexIn, Contains
  <2> QED
    BY <1>2, <2>4, <2>5 DEF EndNum, Lookup
<1> QED
  BY <1>1, <1>2

\* One more index of a lookup adds its block, unless the record is empty.
LEMMA UptoStep ==
  ASSUME NEW s \in Seq(Blocks \cup {NoBlock}), NEW k \in 1..Len(s)
  PROVE  Upto(s, k) = Upto(s, k - 1) \cup ({s[k]} \ {NoBlock})
BY DEF Upto

\* The elements of an appended sequence.
LEMMA AppendElems ==
  ASSUME NEW S, NEW b \in Seq(S), NEW h
  PROVE  {Append(b, h)[k] : k \in 1..Len(Append(b, h))}
           = {b[k] : k \in 1..Len(b)} \cup {h}
OBVIOUS

\* Every lookup holds blocks or empty records.
LEMMA LookupType ==
  ASSUME NEW m \in {"aid", "id", "order"}
  PROVE  Lookup(m) \in Seq(Blocks \cup {NoBlock})
BY UpgradeAssumption DEF Lookup

-----------------------------------------------------------------------------
\* The invariant holds initially.
LEMMA UpgradeInvInit == Init => UpgradeInv
BY DEF Init, UpgradeInv, TypeOK, Phases, InMemory

\* Every step of upgradeBlockChain keeps the invariant, given the chain
\* state record.
LEMMA UpgradeInvStep ==
  HasChainState /\ UpgradeInv /\ [Next]_vars => UpgradeInv'
<1> SUFFICES ASSUME HasChainState, UpgradeInv, [Next]_vars PROVE UpgradeInv'
  OBVIOUS
<1> USE DEF UpgradeInv, TypeOK, Phases, InMemory
<1>1. CASE Start
  <2>1. PICK m \in {"aid", "id", "order"}, end \in Blocks \cup {NoEnd, BadEnd} :
          /\ mode' = m
          /\ endNum' = EndNum(m, end)
          /\ wanted' = IF m = "aid" THEN Upto(ById, Len(ById))
                                    ELSE Upto(Lookup(m), EndNum(m, end))
          /\ phase' \in {"failed", "collect"}
    BY <1>1 DEF Start
  <2>2. EndNum(m, end) \in 0..Len(Lookup(m))
    BY EndNumType
  <2>3. wanted' = Upto(Lookup(m), EndNum(m, end))
    BY <2>1, UpgradeAssumption DEF EndNum, Lookup
  <2>4. Lookup(m) \in Seq(Blocks \cup {NoBlock})
    BY LookupType
  <2>5. wanted' \subseteq Blocks
    BY <2>2, <2>3, <2>4 DEF Upto
  <2>6. phase = "idle" /\ db = "old" /\ n = 1 /\ blocks = <<>>
    BY <1>1 DEF Start
  <2>7. UNCHANGED <<n, blocks, db, ndag>>
    BY <1>1 DEF Start
  <2>8. TypeOK'
    BY <2>1, <2>2, <2>5, <2>6, <2>7
  <2>9. InMemory' = {} /\ Upto(Lookup(mode'), n' - 1) = {}
    BY <2>6, <2>7 DEF Upto
  <2> QED
    BY <2>1, <2>2, <2>3, <2>6, <2>7, <2>8, <2>9
<1>2. CASE Collect
  <2> DEFINE s == Lookup(mode)
             h == s[n]
  <2>1. phase = "collect" /\ n <= endNum /\ UNCHANGED <<mode, endNum, db, ndag, wanted>>
    BY <1>2 DEF Collect
  <2>2. s \in Seq(Blocks \cup {NoBlock})
    BY LookupType
  <2>3. n \in 1..Len(s)
    BY <2>1
  <2>4. Upto(s, n) = Upto(s, n - 1) \cup ({h} \ {NoBlock})
    BY <2>2, <2>3, UptoStep
  <2>5. CASE phase' = "failed" /\ UNCHANGED <<n, blocks>>
    BY <2>1, <2>5
  <2>6. CASE h = NoBlock /\ n' = n + 1 /\ UNCHANGED <<blocks, phase>>
    BY <2>1, <2>4, <2>6
  <2>7. CASE h # NoBlock /\ blocks' = Append(blocks, h) /\ n' = n + 1
             /\ UNCHANGED phase
    <3>1. h \in Blocks
      BY <2>2, <2>3, <2>7
    <3>2. {blocks'[k] : k \in 1..Len(blocks')} = InMemory \cup {h}
      BY <2>7, AppendElems
    <3> QED
      BY <2>1, <2>4, <2>7, <3>1, <3>2
  <2> QED
    BY <1>2, <2>5, <2>6, <2>7 DEF Collect
<1>3. CASE CollectDone
  <2>1. phase = "collect" /\ n = endNum + 1
    BY <1>3 DEF CollectDone
  <2>2. InMemory = wanted
    BY <2>1
  <2> QED
    BY <1>3, <2>2 DEF CollectDone
<1>4. CASE Reload
  <2>1. phase = "reload" /\ db # "old" /\ n' = 1
        /\ UNCHANGED <<mode, endNum, blocks, wanted>>
    BY <1>4 DEF Reload
  <2>2. CASE phase' = "failed" /\ UNCHANGED <<db, ndag>>
    BY <2>1, <2>2
  <2>3. CASE db' = "new" /\ ndag' = {Genesis} /\ phase' \in {"failed", "accept"}
    <3>1. {blocks'[k] : k \in 1..n' - 1} = {}
      BY <2>1
    <3> QED
      BY <2>1, <2>3, <3>1, UpgradeAssumption
  <2> QED
    BY <1>4, <2>2, <2>3 DEF Reload
<1>5. CASE AcceptBlocks
  <2>1. phase = "accept" /\ UNCHANGED <<mode, endNum, blocks, db, wanted>>
    BY <1>5 DEF AcceptBlocks
  <2>2. CASE n <= Len(blocks) /\ Accepts(blocks[n])
             /\ ndag' = ndag \cup {blocks[n]} /\ n' = n + 1 /\ UNCHANGED phase
    <3>1. {blocks[k] : k \in 1..n} = {blocks[k] : k \in 1..n - 1} \cup {blocks[n]}
      BY <2>1, <2>2
    <3> QED
      BY <2>1, <2>2, <3>1
  <2>3. CASE n <= Len(blocks) /\ ~Accepts(blocks[n]) /\ phase' = "failed"
             /\ UNCHANGED <<ndag, n>>
    BY <2>1, <2>3
  <2>4. CASE n > Len(blocks) /\ phase' = "done" /\ UNCHANGED <<ndag, n>>
    <3>1. n = Len(blocks) + 1
      BY <2>1, <2>4
    <3> QED
      BY <2>1, <2>4, <3>1
  <2> QED
    BY <1>5, <2>2, <2>3, <2>4 DEF AcceptBlocks
<1>6. CASE Crash
  BY <1>6 DEF Crash
<1>7. CASE UNCHANGED vars
  BY <1>7 DEF vars
<1> QED
  BY <1>1, <1>2, <1>3, <1>4, <1>5, <1>6, <1>7 DEF Next

(***************************************************************************)
(* With the chain state record present, upgradeBlockChain deletes the old  *)
(* database only after reading every block it was asked for.              *)
(***************************************************************************)
THEOREM UpgradeCleanupSafe == HasChainState => (Spec => []CleanupAfterRead)
<1> SUFFICES ASSUME HasChainState PROVE Spec => []CleanupAfterRead
  OBVIOUS
<1>1. UpgradeInv => CleanupAfterRead
  BY DEF UpgradeInv, CleanupAfterRead, InMemory
<1> QED
  BY <1>1, UpgradeInvInit, UpgradeInvStep, PTL DEF Spec

(***************************************************************************)
(* With the chain state record present, upgradeBlockChain reports a       *)
(* finished upgrade only when the new DAG holds exactly genesis and the   *)
(* blocks it was asked for.                                                *)
(***************************************************************************)
THEOREM UpgradeRebuildsSafe == HasChainState => (Spec => []UpgradeRebuilds)
<1> SUFFICES ASSUME HasChainState PROVE Spec => []UpgradeRebuilds
  OBVIOUS
<1>1. UpgradeInv => UpgradeRebuilds
  BY DEF UpgradeInv, UpgradeRebuilds, InMemory
<1> QED
  BY <1>1, UpgradeInvInit, UpgradeInvStep, PTL DEF Spec
=============================================================================
