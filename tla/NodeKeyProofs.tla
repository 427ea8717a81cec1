--------------------------- MODULE NodeKeyProofs ----------------------------
(***************************************************************************)
(* Proofs about the identity file (NodeKey.tla) for every set of keys,     *)
(* every configured path and every bound on faults.                        *)
(***************************************************************************)
EXTENDS NodeKey, FiniteSetTheorems, TLAPS

(***************************************************************************)
(* The invariant behind IdentityStable.  With no key path configured,     *)
(* every key the node ran with is the one network.key holds, and none was *)
(* loaded while the file is missing or empty: PrivateKey only generates   *)
(* into a missing file and never rewrites one.  With a path configured,   *)
(* every key loaded is that file's.                                        *)
(***************************************************************************)
KeyInv ==
  /\ TypeOK
  /\ UserKeyFile = NoPath /\ keyFile \in Keys => ids \subseteq {keyFile}
  /\ UserKeyFile = NoPath /\ keyFile \notin Keys => ids = {}
  /\ UserKeyFile # NoPath => ids \subseteq {UserKeyFile}

\* A set within a singleton has at most one element.
LEMMA WithinSingleton ==
  ASSUME NEW S, NEW x, S \subseteq {x}
  PROVE  Cardinality(S) <= 1
<1>1. IsFiniteSet({x}) /\ Cardinality({x}) = 1
  BY FS_Singleton
<1>. QED
  BY <1>1, FS_Subset

LEMMA KeyInvInit == Init => KeyInv
BY NodeKeyAssumption DEF Init, KeyInv, TypeOK

LEMMA KeyInvStep == KeyInv /\ [Next]_vars => KeyInv'
<1> SUFFICES ASSUME KeyInv, [Next]_vars PROVE KeyInv'
  OBVIOUS
<1>. USE NodeKeyAssumption DEF KeyInv, TypeOK, Fault, Down
<1>1. CASE Start
  BY <1>1 DEF Start
<1>2. CASE Abort
  BY <1>2 DEF Abort
<1>3. CASE GenerateKey
  <2>. UserKeyFile = NoPath /\ keyFile = "none" /\ UNCHANGED metaFile
    BY <1>3 DEF GenerateKey
  <2>1. CASE UNCHANGED <<keyFile, runKey, ids>> /\ Fault /\ pc' = "down"
    BY <2>1
  <2>2. CASE keyFile' = "empty" /\ UNCHANGED <<runKey, ids>> /\ Fault /\ pc' = "down"
    BY <2>2
  <2>3. CASE \E k \in Keys : keyFile' = k /\ runKey' = k /\ ids' = ids \cup {k}
                              /\ pc' = "meta" /\ UNCHANGED faults
    <3>1. PICK k \in Keys : keyFile' = k /\ runKey' = k /\ ids' = ids \cup {k}
                            /\ pc' = "meta" /\ UNCHANGED faults
      BY <2>3
    <3>2. ids = {}
      OBVIOUS
    <3>. QED
      BY <3>1, <3>2
  <2>. QED
    BY <1>3, <2>1, <2>2, <2>3 DEF GenerateKey
<1>4. CASE ReadKey
  BY <1>4 DEF ReadKey, KeySource
<1>5. CASE CreateMeta
  BY <1>5 DEF CreateMeta
<1>6. CASE ReadMeta
  BY <1>6 DEF ReadMeta
<1>7. CASE Stop
  BY <1>7 DEF Stop
<1>8. CASE UNCHANGED vars
  BY <1>8 DEF vars
<1>. QED
  BY <1>1, <1>2, <1>3, <1>4, <1>5, <1>6, <1>7, <1>8 DEF Next

(***************************************************************************)
(* IdentityStable for every instance: every start that loads a key loads  *)
(* the same one, however often the node is stopped, killed or fails.      *)
(***************************************************************************)
THEOREM NodeKeyIdentity == Spec => []IdentityStable
<1>1. KeyInv => IdentityStable
  <2> SUFFICES ASSUME KeyInv PROVE Cardinality(ids) <= 1
    BY DEF IdentityStable
  <2>1. CASE UserKeyFile = NoPath /\ keyFile \in Keys
    BY <2>1, WithinSingleton DEF KeyInv
  <2>2. CASE UserKeyFile = NoPath /\ keyFile \notin Keys
    BY <2>2, FS_EmptySet DEF KeyInv
  <2>3. CASE UserKeyFile # NoPath
    BY <2>3, WithinSingleton DEF KeyInv
  <2>. QED
    BY <2>1, <2>2, <2>3
<1>. QED
  BY <1>1, KeyInvInit, KeyInvStep, PTL DEF Spec

=============================================================================
