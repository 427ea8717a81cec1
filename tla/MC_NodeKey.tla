------------------------------ MODULE MC_NodeKey ----------------------------
EXTENDS NodeKey, TLC

\* Three keys the generator may return; no key or metadata path configured.
MCKeys == {"k1", "k2", "k3"}

=============================================================================
