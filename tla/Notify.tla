------------------------------ MODULE Notify --------------------------------
(***************************************************************************)
(* The notification bus composed with block admission.  maybeAcceptBlock   *)
(* collects a BlockConnected entry for every block connectBlock handles    *)
(* (connectedBlocks, src/core/blockchain/process.go 243-262 and 447) and  *)
(* sends them one by one after ChainUnlock, while disconnectBlock sends    *)
(* BlockDisconnected at once, inside the critical section (line 497).      *)
(* A subscriber (mempool, indexers) is abstracted to how many times it has *)
(* been told each block is connected, net of the disconnections.  Every    *)
(* action of Admission is kept as it is and conjoined with its effect on   *)
(* the bus.                                                                *)
(***************************************************************************)
EXTENDS Admission

VARIABLES
  pend,   \* per worker: the connectedBlocks list still to send
  net     \* per block: BlockConnected minus BlockDisconnected delivered

nvars == <<pend, net>>
allVars == <<vars, nvars>>

\* Quiet buses stay quiet: the Admission step leaves the notifications alone.
Silent == UNCHANGED nvars

\* connectBlock (either branch) ends by pushing the block on connectedBlocks.
Collect(w, b) == pend' = [pend EXCEPT ![w] = Append(@, b)] /\ UNCHANGED net

-----------------------------------------------------------------------------
NInit == Init /\ pend = [w \in Workers |-> <<>>] /\ net = [b \in Blocks |-> 0]

(***************************************************************************)
(* connectDagChain: the simple extend of an ordered block connects it.    *)
(***************************************************************************)
NConnectDagChain(w) ==
  /\ ConnectDagChain(w)
  /\ IF IsSimpleExtend(w) /\ blk[w] \in Ordered THEN Collect(w, blk[w]) ELSE Silent

\* reorganizeChain's connect loop: each newly ordered block is connected.
NReorgConnect(w) ==
  /\ ReorgConnect(w)
  /\ IF newO[w] # <<>> THEN Collect(w, Head(newO[w])) ELSE Silent

\* Variant for mutation runs: disconnectBlock without its notification.
NReorgDisconnectSilent(w) ==
  /\ ReorgDisconnect(w)
  /\ Silent

(***************************************************************************)
(* reorganizeChain's disconnect loop: disconnectBlock sends               *)
(* BlockDisconnected while the write lock is held.                        *)
(***************************************************************************)
NReorgDisconnect(w) ==
  /\ ReorgDisconnect(w)
  /\ IF oldO[w] # <<>>
       THEN /\ net' = [net EXCEPT ![Last(oldO[w])] = @ - 1]
            /\ UNCHANGED pend
       ELSE Silent

(***************************************************************************)
(* After ChainUnlock, maybeAcceptBlock sends BlockConnected for each entry *)
(* of connectedBlocks in turn; other workers run meanwhile.  Only then     *)
(* does processBlock go on to RefreshOrphans.                              *)
(***************************************************************************)
SendConnected(w) ==
  /\ pc[w] = "refresh"
  /\ pend[w] # <<>>
  /\ net' = [net EXCEPT ![Head(pend[w])] = @ + 1]
  /\ pend' = [pend EXCEPT ![w] = Tail(@)]
  /\ UNCHANGED vars

NRefreshOrphans(w) == pend[w] = <<>> /\ RefreshOrphans(w) /\ Silent

NStep(w) ==
  \/ ProcessBlock(w) /\ Silent
  \/ PreProcessBlock(w) /\ Silent
  \/ AcceptContext(w) /\ Silent
  \/ AcceptCommit(w) /\ Silent
  \/ NConnectDagChain(w)
  \/ NReorgDisconnect(w)
  \/ NReorgConnect(w)
  \/ UpdateBestState(w) /\ Silent
  \/ SendConnected(w)
  \/ NRefreshOrphans(w)

NNext == \E w \in Workers : NStep(w)

NSpec == NInit /\ [][NNext]_allVars

-----------------------------------------------------------------------------
NTypeOK ==
  /\ TypeOK
  /\ pend \in [Workers -> Seq(Blocks)]
  /\ net \in [Blocks -> Int]

\* No call of ProcessBlock is in progress.
Quiescent == \A w \in Workers : pc[w] = "idle"

(***************************************************************************)
(* Whenever no admission is in progress, a subscriber that applied every   *)
(* notification in the order it was delivered believes exactly the        *)
(* ordered blocks connected, once each: the disconnections sent inside the *)
(* lock and the connections sent after it balance out, however the         *)
(* workers' calls interleaved.                                             *)
(***************************************************************************)
SubscriberConverges ==
  Quiescent => \A b \in Blocks \ {Genesis} : net[b] = IF b \in Ordered THEN 1 ELSE 0

=============================================================================
