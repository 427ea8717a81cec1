---------------------------- MODULE MC_Admission ----------------------------
(***************************************************************************)
(* A small instance of Admission: genesis G, two competing children A and  *)
(* B that both spend G's output (a double spend: whichever the order puts  *)
(* first is valid), C on A spending A's output, so that a reorganization   *)
(* can remove a block together with the block that spends it, and D        *)
(* merging B and C.  B fails the context checks unless it is fast-added.   *)
(***************************************************************************)
EXTENDS Admission, TLC

MCBlocks == {"G", "A", "B", "C", "D"}
MCParents == [b \in MCBlocks |->
               CASE b = "G" -> {}
                 [] b = "C" -> {"A"}
                 [] b = "D" -> {"B", "C"}
                 [] OTHER   -> {"G"}]
MCSpends == [b \in MCBlocks |->
               CASE b \in {"A", "B"} -> {"G"}
                 [] b = "C" -> {"A"}
                 [] OTHER   -> {}]
MCTxCount == [b \in MCBlocks |-> IF b = "C" THEN 2 ELSE 1]

(***************************************************************************)
(* For the liveness runs: a chain G <- A <- B <- C, so that an orphan can  *)
(* wait on a parent that is itself an orphan (the RefreshOrphans cascade). *)
(***************************************************************************)
MCChainBlocks == {"G", "A", "B", "C"}
MCChainParents == [b \in MCChainBlocks |->
                    CASE b = "G" -> {}
                      [] b = "A" -> {"G"}
                      [] b = "B" -> {"A"}
                      [] b = "C" -> {"B"}]
MCChainSpends == [b \in MCChainBlocks |-> IF b = "G" THEN {} ELSE {"G"}]
MCChainTxCount == [b \in MCChainBlocks |-> 1]

MCSymmetry == Permutations(Workers)
=============================================================================
