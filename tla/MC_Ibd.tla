------------------------------- MODULE MC_Ibd -------------------------------
(***************************************************************************)
(* A source DAG G <- A, G <- B, {A, B} <- C, with the order A, B, C, and  *)
(* the ids A, (a removed block), B, C: the id traversal skips a hole, the *)
(* order traversal has none.  Blocks serialize to 1 or 2 bytes.           *)
(***************************************************************************)
EXTENDS Ibd, TLC

CONSTANTS G, A, B, C

MCBlocks == {G, A, B, C}
MCParents == (G :> {}) @@ (A :> {G}) @@ (B :> {G}) @@ (C :> {A, B})
MCByOrder == <<A, B, C>>
MCById == <<A, NoBlock, B, C>>
MCSize == (G :> 1) @@ (A :> 1) @@ (B :> 2) @@ (C :> 1)
MCCode == (G :> 9) @@ (A :> 1) @@ (B :> 2) @@ (C :> 3)
=============================================================================
