------------------------------ MODULE NodeKey -------------------------------
(***************************************************************************)
(* The node's p2p identity and metadata files across restarts             *)
(* (src/p2p/utils.go).  At every start the p2p service calls privKey      *)
(* (PrivateKey, retrievePrivKeyFromFile) and metaDataFromConfig.  Each    *)
(* looks for its file in the data directory (network.key, metaData): when *)
(* no path is configured and the file does not exist, it generates a new  *)
(* value and writes the file with ioutil.WriteFile; otherwise it reads    *)
(* the configured file, or the default one, and decodes it.              *)
(*                                                                         *)
(* ioutil.WriteFile creates and truncates the file before it writes, and  *)
(* does not sync: a process killed (or a machine losing power) in between *)
(* leaves an empty file.  Faults (a kill, an I/O error) are bounded by    *)
(* MaxFaults; an operator stop and restart is not a fault.                *)
(***************************************************************************)
EXTENDS Naturals, FiniteSets

CONSTANTS
  Keys,          \* the keys GenerateSecp256k1Key may return
  NoKey,         \* no key loaded
  NoPath,        \* the --privkey / metadata-dir flag left empty
  Garbage,       \* a configured file that does not decode
  UserKeyFile,   \* NoPath, or the content of the configured key file
  UserMetaFile,  \* NoPath, or the content of the configured metadata file
  MaxFaults      \* how many kills and I/O errors the run may meet

ASSUME NodeKeyAssumption ==
  /\ {NoKey, NoPath, Garbage, "none", "empty"} \cap Keys = {}
  /\ UserKeyFile \in Keys \cup {NoPath, Garbage}
  /\ UserMetaFile \in {NoPath, Garbage, "user"}
  /\ MaxFaults \in Nat

VARIABLES
  keyFile,   \* <dataDir>/network.key: "none", "empty" or the key it holds
  metaFile,  \* <dataDir>/metaData: "none", "empty" or "init" (the marshalled default)
  pc,        \* "down", or where the start is: "key", "meta"; then "running"
  runKey,    \* the key of the running process
  ids,       \* every key the node has ever run with
  faults     \* faults met so far

vars == <<keyFile, metaFile, pc, runKey, ids, faults>>

\* One more kill or I/O error, while the bound allows it.
Fault == faults < MaxFaults /\ faults' = faults + 1

\* The process exits or dies: the key it held in memory is gone.
Down == pc' = "down" /\ runKey' = NoKey

-----------------------------------------------------------------------------
Init ==
  /\ keyFile = "none" /\ metaFile = "none"
  /\ pc = "down" /\ runKey = NoKey /\ ids = {} /\ faults = 0

\* The node is launched: the p2p service asks privKey for its identity.
Start ==
  /\ pc = "down"
  /\ pc' = "key"
  /\ UNCHANGED <<keyFile, metaFile, runKey, ids, faults>>

(***************************************************************************)
(* The start is cut short: os.Stat of the default path fails with an      *)
(* error other than "does not exist" (PrivateKey, and metaDataFromConfig  *)
(* at its own path), or the process is killed.                            *)
(***************************************************************************)
Abort ==
  /\ pc \in {"key", "meta"}
  /\ Fault
  /\ Down
  /\ UNCHANGED <<keyFile, metaFile, ids>>

\* Variant for mutation runs: PrivateKey generates whenever no path is configured.
GenerateKeyOverwrite ==
  /\ pc = "key"
  /\ UserKeyFile = NoPath
  /\ \/ /\ Fault
        /\ pc' = "down"
        /\ UNCHANGED <<keyFile, runKey, ids>>
     \/ /\ Fault
        /\ keyFile' = "empty"
        /\ pc' = "down"
        /\ UNCHANGED <<runKey, ids>>
     \/ \E k \in Keys :
          /\ keyFile' = k
          /\ runKey' = k
          /\ ids' = ids \cup {k}
          /\ pc' = "meta"
          /\ UNCHANGED faults
  /\ UNCHANGED metaFile

(***************************************************************************)
(* PrivateKey with no configured path and no default file: generate a key *)
(* (which may fail), hex-encode it and WriteFile it.  A kill or a write   *)
(* error after the file was created leaves it empty.                      *)
(***************************************************************************)
GenerateKey ==
  /\ pc = "key"
  /\ UserKeyFile = NoPath /\ keyFile = "none"
  /\ \/ /\ Fault
        /\ pc' = "down"
        /\ UNCHANGED <<keyFile, runKey, ids>>
     \/ /\ Fault
        /\ keyFile' = "empty"
        /\ pc' = "down"
        /\ UNCHANGED <<runKey, ids>>
     \/ \E k \in Keys :
          /\ keyFile' = k
          /\ runKey' = k
          /\ ids' = ids \cup {k}
          /\ pc' = "meta"
          /\ UNCHANGED faults
  /\ UNCHANGED metaFile

\* The file PrivateKey reads: the configured one, else the default one.
KeySource == IF UserKeyFile = NoPath THEN keyFile ELSE UserKeyFile

(***************************************************************************)
(* PrivateKey otherwise: retrievePrivKeyFromFile reads the file (which may *)
(* fail), hex-decodes it and unmarshals a secp256k1 key, which needs 32   *)
(* bytes: an empty file decodes to no bytes and is refused.              *)
(***************************************************************************)
ReadKey ==
  /\ pc = "key"
  /\ ~(UserKeyFile = NoPath /\ keyFile = "none")
  /\ \/ /\ Fault
        /\ pc' = "down"
        /\ UNCHANGED <<runKey, ids>>
     \/ /\ KeySource \in Keys
        /\ runKey' = KeySource
        /\ ids' = ids \cup {KeySource}
        /\ pc' = "meta"
        /\ UNCHANGED faults
     \/ /\ KeySource \notin Keys
        /\ pc' = "down"
        /\ UNCHANGED <<runKey, ids, faults>>
  /\ UNCHANGED <<keyFile, metaFile>>

(***************************************************************************)
(* metaDataFromConfig with no configured path and no default file: write  *)
(* a marshalled MetaData{SeqNumber: 0, Subnets: 64 zero bits}; a kill or *)
(* a write error leaves the file empty.                                   *)
(***************************************************************************)
CreateMeta ==
  /\ pc = "meta"
  /\ UserMetaFile = NoPath /\ metaFile = "none"
  /\ \/ /\ Fault
        /\ metaFile' = "empty"
        /\ Down
     \/ /\ metaFile' = "init"
        /\ pc' = "running"
        /\ UNCHANGED <<faults, runKey>>
  /\ UNCHANGED <<keyFile, ids>>

(***************************************************************************)
(* metaDataFromConfig otherwise: read the configured or the default file  *)
(* and unmarshal it.  Protobuf decodes an empty input as the empty        *)
(* message, so an empty file is accepted; a configured file that does not *)
(* decode fails the start.                                                *)
(***************************************************************************)
ReadMeta ==
  /\ pc = "meta"
  /\ ~(UserMetaFile = NoPath /\ metaFile = "none")
  /\ LET src == IF UserMetaFile = NoPath THEN metaFile ELSE UserMetaFile IN
     \/ /\ Fault
        /\ Down
     \/ /\ UNCHANGED faults
        /\ IF src = Garbage THEN Down ELSE pc' = "running" /\ UNCHANGED runKey
  /\ UNCHANGED <<keyFile, metaFile, ids>>

\* The operator stops a running node, to start it again later.
Stop ==
  /\ pc = "running"
  /\ Down
  /\ UNCHANGED <<keyFile, metaFile, ids, faults>>

Next ==
  \/ Start \/ Abort \/ GenerateKey \/ ReadKey \/ CreateMeta \/ ReadMeta
  \/ Stop

Spec == Init /\ [][Next]_vars

(***************************************************************************)
(* Fairness: a launched node carries on with its start, and a node that   *)
(* is down is launched again (by a supervisor or the operator).  Faults    *)
(* are finitely many; stopping a running node is not forced.              *)
(***************************************************************************)
FairSpec ==
  /\ Spec
  /\ WF_vars(Start)
  /\ WF_vars(GenerateKey \/ ReadKey) /\ WF_vars(CreateMeta \/ ReadMeta)

-----------------------------------------------------------------------------
TypeOK ==
  /\ keyFile \in Keys \cup {"none", "empty"}
  /\ metaFile \in {"none", "empty", "init"}
  /\ pc \in {"down", "key", "meta", "running"}
  /\ runKey \in Keys \cup {NoKey}
  /\ ids \subseteq Keys
  /\ faults \in 0..MaxFaults

(***************************************************************************)
(* The node keeps one p2p identity: however often it is stopped, killed   *)
(* or hits an I/O error while starting, every start that loads a key      *)
(* loads the same one, because PrivateKey generates a key only when the   *)
(* default file does not exist.                                           *)
(***************************************************************************)
IdentityStable == Cardinality(ids) <= 1

(***************************************************************************)
(* "If no key is found, it generates a new one" (the comment on           *)
(* PrivateKey): with no key configured, a node that is down is eventually *)
(* running again once the finitely many faults are over, whatever state   *)
(* an earlier start left its data directory in.                           *)
(***************************************************************************)
RestartRecovers == pc = "down" ~> pc = "running"

=============================================================================
