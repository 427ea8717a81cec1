---------------------------- MODULE MC_Upgrade -----------------------------
\* A DAG of genesis G and blocks A, B on G, C on A and B.  Id 2 is an empty
\* record (a block removed from the DAG), so ids and orders differ.
EXTENDS Upgrade, TLC

CONSTANTS G, A, B, C

MCBlocks == {G, A, B, C}
MCParents == (G :> {}) @@ (A :> {G}) @@ (B :> {G}) @@ (C :> {A, B})
MCByOrder == <<A, B, C>>
MCById == <<A, NoBlock, B, C>>
MCTotal == Len(MCById) + 1
=============================================================================
