------------------------------ MODULE MC_Sync -------------------------------
EXTENDS Sync, TLC

(***************************************************************************)
(* G <- A <- B, G <- C: a chain of two and a side block, all on the peer. *)
(* B's body is in the local store from an earlier run; C fails the        *)
(* context checks.                                                         *)
(***************************************************************************)
MCBlocks == {"G", "A", "B", "C"}
MCParents == [b \in MCBlocks |->
                CASE b = "G" -> {}
                  [] b = "B" -> {"A"}
                  [] OTHER -> {"G"}]

=============================================================================
