------------------------------ MODULE BlockDag -------------------------------
(***************************************************************************)
(* What block admission promises of the DAG and the orphan pool (spec 4.1, *)
(* 4.5), with no workers, locks or ledger: the DAG grows one block at a    *)
(* time, and only by a block whose parents it already holds and that the   *)
(* pool does not hold; a block with a missing parent goes to the pool; a   *)
(* pooled block leaves the pool only once all its parents are in the DAG.  *)
(* Admission (Admission.tla) implements this specification.                *)
(***************************************************************************)
CONSTANTS Blocks, Genesis, Parents

VARIABLES dag, orphans

dagState == <<dag, orphans>>

Init == dag = {Genesis} /\ orphans = {}

\* A block is admitted into the DAG.
Admit(b) ==
  /\ b \notin dag \cup orphans
  /\ Parents[b] \subseteq dag
  /\ dag' = dag \cup {b}
  /\ UNCHANGED orphans

\* A block with a missing parent is kept as an orphan.
Pool(b) ==
  /\ b \notin dag \cup orphans
  /\ ~(Parents[b] \subseteq dag)
  /\ orphans' = orphans \cup {b}
  /\ UNCHANGED dag

\* An orphan whose parents have all arrived leaves the pool to be retried.
Release(b) ==
  /\ b \in orphans
  /\ Parents[b] \subseteq dag
  /\ orphans' = orphans \ {b}
  /\ UNCHANGED dag

Next == \E b \in Blocks : Admit(b) \/ Pool(b) \/ Release(b)

Spec == Init /\ [][Next]_dagState

-----------------------------------------------------------------------------
(***************************************************************************)
(* The DAG is closed under parents: every block it holds has all its      *)
(* parents in it, so every block reaches genesis.                         *)
(***************************************************************************)
Closed == \A b \in dag : Parents[b] \subseteq dag

=============================================================================
