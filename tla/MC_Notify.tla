----------------------------- MODULE MC_Notify ------------------------------
\* The instance of MC_Admission, with the notification bus.
EXTENDS Notify, TLC

MCBlocks == {"G", "A", "B", "C", "D"}
MCParents == [b \in MCBlocks |->
               CASE b = "G" -> {}
                 [] b = "C" -> {"A"}
                 [] b = "D" -> {"B", "C"}
                 [] OTHER   -> {"G"}]
MCSpends == [b \in MCBlocks |->
               CASE b \in {"A", "B"} -> {"G"}
                 [] b = "C" -> {"A"}
                 [] OTHER   -> {}]
MCTxCount == [b \in MCBlocks |-> 1]
MCSymmetry == Permutations(Workers)
=============================================================================
