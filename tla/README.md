# Formal models of qng block admission, sync and the chain commands

TLA+ models of qng: the block admission engine (`src/core/blockchain/process.go`), the block download of peer sync (`src/p2p/synch`) and the chain export, import and upgrade commands (`src/cmd/qng/blockchain_cmds.go`),
checked with TLC on small instances and, for the main invariants, proved with TLAPS
for every value of the constants.

## 1. The system and its parts

A block reaches `BlockChain.ProcessBlock` from the peer sync layer (`src/p2p/synch`),
from RPC submission or from the import command (`src/cmd/qng`, which calls
`FastAcceptBlock`, i.e. `maybeAcceptBlock` directly). Several of these callers run
concurrently; one chain-wide read/write lock (`ChainRLock`/`ChainLock`) serialises
the state changes.

| Part | Code | What it does |
|---|---|---|
| Admission pipeline | `process.go` 38-153 | `ProcessBlock` → `processBlock` → `preProcessBlock` under the **read** lock: duplicate check (`bd.HasBlock`, `IsOrphan`), sanity and checkpoint checks, orphan placement when a parent is missing. |
| Acceptance | `process.go` 167-285 | `maybeAcceptBlock` takes the **write** lock; unless fast-add, main-parent lookup and `checkBlockContext` (each failure unlocks by hand and returns); `bd.AddBlock`; store the body; `connectDagChain`; `updateBestState`; unlock; notifications. |
| Connector / reorganiser | `process.go` 307-499 | `connectDagChain` decides between simple extend and `reorganizeChain`; `connectBlock` writes a valid block's UTXO view and spend journal; `disconnectBlock` reverses them. A block failing `checkConnectBlock` is marked invalid and stays in the DAG without UTXO effects. |
| UTXO view and journal | `process.go` 506-661 | `connectTransaction` spends inputs, records stxos and adds outputs; `disconnectTransactions` walks the block backwards restoring the stxos. |
| Best state | `process.go` 663-724 | `updateBestState` publishes a new immutable snapshot: tip = `GetMainChainTip()`, `TotalTxns = lastState.TotalTxns + numTxns`. |
| Orphan pool | `process.go` 63, 138-150 | `addOrphanBlock`; `RefreshOrphans` (outside `src/`) resubmits orphans whose parents arrived. |
| DAG oracle | meerdag (outside `src/`) | `AddBlock` returns `newOrders`, `oldOrders`, the node handle (empty for a block it already has) and whether the tip changed. |
| Notification bus | `process.go` 175-178, 259-263, 497 | `BlockConnected` after the unlock, `BlockDisconnected` inside `disconnectBlock`, `BlockAccepted` at the end. |
| Peer sync | `src/p2p/synch/*.go` | `processSyncDAGBlocks` → `processGetBlocks` → `processGetBlockDatas`, which fetches missing bodies and feeds them to `ProcessBlock`. |
| Import / export | `src/cmd/qng/blockchain_cmds.go` | `.ibd` files: a 4-byte count, then `{4-byte length, block bytes}` records; import feeds `FastAcceptBlock`. |
| Upgrade | `src/cmd/qng/blockchain_cmds.go` 416-658 | `upgradeBlockChain` reads every block of the old database into memory (aid mode from the stored DAG records by id, or through a running chain by id or by order), deletes the database (`CleanupBlockDB`), opens a fresh one and accepts the blocks again |
| P2P identity files | `src/p2p/utils.go` 44-155 | `privKey`/`PrivateKey` and `metaDataFromConfig` load the node key and metadata at start, generating and writing them on first start. |
| Other | `src/meerevm/cmd/dbcmd.go`, `src/params/params_testnet.go`, `src/cmd/qng/commands.go` | CLI and I/O helpers, constants. |

## 2. Modules

### `Admission.tla` — the pipeline, connector, best state and orphan pool

Constants: `Workers` (concurrent callers of `ProcessBlock`), `Blocks`, `Genesis`,
`Parents` (header parents), `Spends` (the outputs a block's transactions spend; each
block creates one output, named by the block), `TxCount`, and the blocks that fail a
check: `Insane` (sanity/checkpoint), `BadContext` (`checkBlockContext`, skipped under
fast-add), `BadScript` (`checkConnectBlock` for reasons other than missing inputs).

State: the DAG (`dag`, its linear `order`, `tip`, per-block `status`), the persistent
ledger (`utxo`, the spend `journal`, `stored` bodies, the published `snap`), the
orphan pool, the write-lock holder `writer`, and per worker its program counter `pc`,
its block `blk`, its `fast` flag, whether it was called by a caller or by the orphan
refresh (`ret`), and the oracle's `newO`/`oldO` lists still to apply.

Actions, in the order a worker runs them:

| Action | Code |
|---|---|
| `ProcessBlock(w)` | a caller submits a block, fast-add or not |
| `PreProcessBlock(w)` | `preProcessBlock`: duplicate / orphan-duplicate / insane → return; a parent missing → `addOrphanBlock`, return; else on to acceptance. Needs the read lock (no writer). |
| `AcceptContext(w)` | `maybeAcceptBlock` up to the pruning step: take the write lock; a context failure unlocks and returns |
| `AcceptCommit(w)` | `bd.AddBlock`: for a known block the empty handle, unlock, return; otherwise the oracle's answer and the stored body |
| `ConnectDagChain(w)` | simple extend (an unordered block, or connect it) or start a reorganisation |
| `ReorgDisconnect(w)`, `ReorgConnect(w)` | `reorganizeChain`, one block per step: disconnect `oldOrders` newest first, then connect `newOrders` oldest first |
| `UpdateBestState(w)` | the new snapshot, then `ChainUnlock` |
| `RefreshOrphans(w)` | resubmit one ready orphan through `preProcessBlock`, or finish |

`AddBlock` models the oracle from spec 6: it keeps a prefix of the order and
replaces the rest by a topological permutation of the removed blocks plus any of
the unordered DAG blocks and the new block; the tip may move to the new block if it
is ordered. `ConnectBlock`/`DisconnectBlock` are `connectBlock`/`disconnectBlock`
with the view built by `ConnectTransaction`/`DisconnectTransactions`.

Data abstraction: a block's transactions are collapsed into one set of spent
outputs and one created output; formatting, logging, sizes, difficulties, median
time and weights are left out, since no property tells them apart.

### `BlockDag.tla` — what admission promises, and the refinement

The abstract specification of the DAG and the orphan pool (spec 4.1, 4.5), with no
workers, locks or ledger: `Admit(b)` adds a block whose parents are all in the DAG
and which neither the DAG nor the pool holds; `Pool(b)` puts a block with a
missing parent in the pool; `Release(b)` takes a pooled block out once all its
parents are in the DAG. `Admission.tla` instantiates it with the identity mapping
(`Dag == INSTANCE BlockDag WITH dag <- dag, orphans <- orphans`) and states `RefinesDag == Dag!Spec`: every step of the
workers either is one of these three steps on `dag` and `orphans` or leaves both
alone. `preProcessBlock`'s pool branch is `Pool`, `bd.AddBlock` of a new block is
`Admit`, a `RefreshOrphans` resubmission is `Release`; every other step stutters.
`Closed` says that the DAG holds the parents of every block in it. `Admission`
states it for its own DAG as `DagClosed`.

### `Notify.tla` — the notification bus composed with admission

`Notify` extends `Admission` with two variables: `pend[w]`, the `connectedBlocks`
list worker `w` has collected (`process.go` 243, pushed by `connectBlock` at 447),
and `net[b]`, how many times a subscriber was told `b` is connected, minus the
times it was told `b` is disconnected. Every action of `Admission` is kept and
conjoined with its effect on the bus: a simple extend and each connect step of a
reorganisation push the block (`NConnectDagChain`, `NReorgConnect`); each disconnect
step sends `BlockDisconnected` at once, inside the lock (`NReorgDisconnect`,
line 497); after `ChainUnlock` the worker sends its list one entry per step
(`SendConnected`, lines 259-263) while other workers run, and only then does
`processBlock` go on to `RefreshOrphans` (`NRefreshOrphans`). `MC_Notify` uses the
five-block fork instance of `MC_Admission`. Spec 6 promises delivery in
application order only within one admission call. Across two calls a subscriber
may be told a block is disconnected before it is told it is connected: the second
call reorganises while the first still has its `BlockConnected` list to send. So
the property checked is that the subscriber's count per block balances whenever
no call is in progress (`SubscriberConverges`).

### `NodeKey.tla` — the p2p identity and metadata files across restarts

At every start the p2p service calls `privKey` (`src/p2p/utils.go` 44-115) and
`metaDataFromConfig` (120-155). Each stats its default file in the data directory
(`network.key`, `metaData`). With no path configured and no file, it generates a
value and writes it with `ioutil.WriteFile`. Otherwise it reads the configured
file, or the default one, and decodes it. State: the two files (`keyFile`:
missing, empty or the key it holds; `metaFile`: missing, empty or the default
metadata), where the start is (`pc`), the key in memory (`runKey`), every key the
node ever ran with (`ids`, a history variable) and the faults met so far.

| Action | Code |
|---|---|
| `Start` | the node is launched; `privKey` |
| `Abort` | `os.Stat` fails with an error other than "does not exist", or the process is killed: the start ends |
| `GenerateKey` | `PrivateKey` with no path and no file: generation may fail; `WriteFile` creates and truncates the file before writing, so a kill or a write error leaves it empty |
| `ReadKey` | `retrievePrivKeyFromFile` on the configured or default file (`KeySource`): a read error, a key, or an undecodable file (an empty file decodes to no bytes, which `UnmarshalSecp256k1PrivateKey` refuses) |
| `CreateMeta`, `ReadMeta` | the same for `metaData`; protobuf accepts an empty file as the empty message |
| `Stop` | the operator stops a running node |

Faults (kills, I/O errors) are bounded by `MaxFaults`. `FairSpec` adds weak
fairness of launching a node that is down (a supervisor or the operator restarts
it) and of each step of a start; with finitely many faults this is what "the node
comes back" needs. `MC_NodeKey` has three keys, no configured paths and three
faults: enough for a failed generation, a torn write, a kill after the key was
written and a stop, in any order.

### `MC_Admission.tla`

The instance for TLC: blocks `G, A, B, C, D` with `A, B → G`, `C → A`,
`D → {B, C}`; `A`, `B` both spend `G`'s output (a double spend, so the order
decides which is valid) and `C` spends `A`'s. Two workers, symmetric.
A four-block chain instance is used for liveness, where the fork instance's state
space is too large for fairness checking.

### `Sync.tla` — the block download of peer sync

One `PeerSync` goroutine and its sync peer. State: the local `dag`, `orphans` and
block `stored`; the peer's `syncPoint`; the round in progress (`phase`, the `batch`
handed to `processGetBlockDatas`, its `datas` without the known blocks, the `body`
each has, the `ready` hashes to fetch, the local `point`, the loop index `i`, the
`add` count and `hasOrphan`); and a bound on requests.

| Action | Code |
|---|---|
| `SyncDAGBlocks` | `processSyncDAGBlocks`: a failed request, or the peer's sync point and, if it lists blocks, a new round |
| `GetBlocks` | `processGetBlocks` and `GetBlocks` with one hash: a new round, sync point untouched |
| `CheckSyncPeer` | `processGetBlockDatas` on entry: not the connected sync peer any more → return |
| `FilterBlock` | the first loop, one hash per step (each lookup takes the lock on its own): a known block moves `point`; any other gets a BlockData, with the orphan's or the stored body if there is one, else it is to be fetched |
| `FilterEnd` | no BlockData → record the point and end; else request the missing bodies, or process |
| `FetchBodies` | `sendGetBlockDataRequest`: a failure records the point and ends the round; otherwise the peer answers a prefix of the request (`Served`, `getBlockDataHandler` stops at the chunk size) |
| `ProcessData` | the second loop, one block per step: skip a block without a body; `ProcessBlock`; count and move `point` only on acceptance |
| `FinishRound` | `add > 0` → record the point; otherwise "no get blocks" and the sync point goes back to genesis |
| `OtherAdmit` | RPC submission or another peer's relay admits a block at any moment |

`ProcessBlock` is one atomic call here (`Admission` models its inside): `ProcessResult`
is `preProcessBlock`'s verdict, and an acceptance adopts the ready orphans
transitively (`Adopted`, `RefreshOrphans`).

`MC_Sync`: blocks `G, A, B, C` with `B → A → G`, `C → G`; `C` fails the context
checks, `B`'s body is in the store but not in the DAG (left by a restart); batches of
up to 3 blocks, 3 requests. This is enough for every path of a round: a batch with
known and unknown blocks, bodies from the pool, from the store and from the peer,
a partial answer, `B` pooled as an orphan before `A` and adopted after it, a
rejected block, a round that accepts nothing, and another caller admitting a block
between the filter and the processing of the same round.

### `Ibd.tla` — the `.ibd` export and import commands

The file is a sequence of bytes. `exportBlockChain` (`ExportBlockChain`,
`CollectBlocks`) truncates the file, then lists blocks by id (skipping ids without a
block) or by order (failing on an order without one) up to the main tip or the
`--end` block; `WriteHeader` writes `uint32(len(bhs))` and `WriteRecord` one
`IBDBlock.Encode` record per block. Every write can fail after a prefix (`Write`).
`importBlockChain` (`ImportBlockChain`, `ImportRecord`) refuses a non-empty target,
reads the count, then decodes records (`Decode`: the length, then
`bytes[4 : length+4]`), advances by `4 + length` and accepts each block with
`CheckBlockSanity` and `FastAcceptBlock` (`Accepts`). `util.ReadFile` is outside
`src/`: the capacity of the slice it returns is chosen between the file length and
the length plus `Slack`, because Go slicing may reach the capacity (zero bytes) and
panics past it.

`MC_Ibd`: `G ← A`, `G ← B`, `{A, B} ← C`, order `A, B, C`, ids `A, -, B, C` (a hole),
blocks of 1 or 2 bytes, 4 bytes of slack. The target database starts empty or
with one block. Both commands end, so deadlock is not checked in this run.

### `Upgrade.tla` — the `upgradeBlockChain` command

State: the mode, `endNum` and the loop index `n`, the blocks in memory, the
database (`old`, `gone` after `CleanupBlockDB`, `new`), the new DAG, the phase, and
`wanted`, the blocks the command was asked for (every stored block in aid mode, the
range up to the main tip or `--end` otherwise).

| Action | Code |
|---|---|
| `Start` | aid mode reads the chain state record (`endNum = GetTotal() - 1`, or 0 when the record is missing: `EndNum`); the chain modes start consensus and the VM, and lower `endNum` to the end block's id or order, refusing an unknown end hash (lines 418-440, 502-551) |
| `Collect` | one pass of the read loop: aid mode skips an empty DAG record, the chain modes fail on a missing block (`Lookup`); any read may fail (442-499, 557-582) |
| `CollectDone` | stop the VM (chain modes, may fail), close and delete the old database (583-597) |
| `Reload` | `LoadBlockDB`, `cons.Init` (genesis), VM start; each may fail (598-631) |
| `AcceptBlocks` | `CheckBlockSanity` and `FastAcceptBlock` per block; the first error returns (633-657) |
| `Crash` | the process is killed in any phase that has work left; only the database remains |

`MC_Upgrade`: the same DAG as `MC_Ibd` (`G ← A`, `G ← B`, `{A, B} ← C`, ids
`A, -, B, C`), so that aid mode skips the empty id, the by-id chain mode fails
on it, and the by-order mode does not. `Total = 5` (the total counts every issued
id). `Insane = {C}`: the new database's sanity check rejects `C`, so a range
that ends before `C` finishes and one that reaches it stops the accept loop. The
two runs differ in `HasChainState`. The command ends, so deadlock is not checked.

## 3. Runs

| Run | Checks | Shows |
|---|---|---|
| `admission_safety` | `OrphansNotInDag`, `DagClosed`, `UtxoFollowsOrder`, `SnapshotMatchesDag`, `LockHeldInCriticalSection`, `RefinesDag` | over 479,395 states: whenever no worker is mid-connect, the UTXO set, statuses and journal equal a replay of the DAG order from genesis, whatever reorganisations happened; the published snapshot names the DAG tip and counts the transactions of every DAG block; the write lock is held exactly by the worker in the critical section; every DAG block has its parents in the DAG |
| `admission_liveness` | `OrphanAdopted` | an orphan whose parents all arrived leaves the pool |
| `sync_rounds` | `SyncPointHeld` | whatever other callers admit meanwhile, however short the peer's answers and whichever requests fail, a round only ever moves the sync point to a block the DAG holds (mutant: `ProcessData` counting an orphan result as accepted) |
| `ibd_roundtrip` | `RoundTrip` | the file of a finished export, imported into an empty database, rebuilds exactly the exported blocks, for both traversals, every end point and both buffer capacities (mutant: the header holding `endNum` instead of the number of blocks collected, which the id traversal with a hole breaks) |
| `ibd_failed_export` (violation) | `ImportComplete` | an export that fails after truncating the file (for example on a mistyped `--end`) leaves an empty file; with spare capacity in the read buffer, `blocksBytes[0:4]` reads a count of 0 and the import reports success having imported nothing |
| `upgrade` | `CleanupAfterRead`, `UpgradeRebuilds` | in every mode and for every end point, and with every failure and kill, the old database is deleted only after every requested block is in memory, and a reported success rebuilds exactly those blocks on genesis; a block the new database rejects stops the accept loop, and the partial database is never reported as finished (mutants: the read loop stopping one short, the accept loop reusing the read loop's index, a rejected block skipped) |
| `upgrade_no_chain_state` (violation) | `CleanupAfterRead` | in aid mode, a missing chain state record leaves `endNum = 0`: no block is read, the database is deleted and rebuilt with genesis only (finding at `blockchain_cmds.go:424`) |
| `notify` | `SubscriberConverges` | over 1,043,034 states: whenever no call is in progress, a subscriber that applied every notification in delivery order believes exactly the ordered blocks connected, once each (mutant: `disconnectBlock` without its notification) |
| `nodekey` | `IdentityStable` | however the node is stopped, killed or fails while starting, every start that loads a key loads the same key (mutant: `PrivateKey` generating whenever no path is configured, even when the file exists) |
| `nodekey_restart` (violation) | `RestartRecovers` | a kill while `PrivateKey` writes a new key leaves `network.key` empty; every later start reads it, fails to decode it and exits, so the node never runs again (finding at `utils.go:70`) |
| `admission_duplicate` (violation) | `NoEmptyHandle` | two workers submitting the same block reach `bd.AddBlock` with a known block: the second one's result is "Irreparable error", not `DuplicateBlock` |

Every property of a passing run has a mutant (`PROJECT.json`): a plausible bug in
the code it is about, under which TLC finds it violated: `disconnectTransactions`
without restoring the spent outputs from the journal (`UtxoFollowsOrder`), a
snapshot naming the admitted block instead of the main tip (`SnapshotMatchesDag`),
`preProcessBlock` without the orphan-pool duplicate check (`OrphansNotInDag`),
`preProcessBlock` passing a block on once any one of its parents is in the DAG
(`DagClosed`), a
context-failure path without `ChainUnlock` (`LockHeldInCriticalSection`),
acceptance that skips the orphan refresh (`OrphanAdopted`), `RefreshOrphans`
resubmitting an orphan once any one of its parents is in the DAG (`RefinesDag`),
and `disconnectBlock` without its notification (`SubscriberConverges`).

**Bounds.** Five blocks give a fork (`A`, `B`), a block on one branch (`C`) and a
merge (`D`): enough for a reorganisation that removes a block and re-inserts it,
for the double spend of `G` to turn a block invalid and valid again, and for an
orphan (`C` or `D` before its parents). Two workers are enough for every race on
the lock and on the read-locked checks; `BadContext = {B}` exercises the
context-failure unlock path.

**Fairness.** `FairSpec` assumes weak fairness of each worker's steps while it holds
the lock, and strong fairness of taking the lock (`PreProcessBlock`,
`AcceptContext`): Go's `sync.RWMutex` does not starve a waiting locker
indefinitely once the holders keep releasing it. Submitting new blocks
(`ProcessBlock`) has no fairness: callers may stop.

## 4. Proofs

### `AdmissionProofs.tla`

* `TypeCorrect`: `Spec => []TypeOK`. The step lemma `TypeInductive` has one case
  per action, with lemmas for the oracle's answer (`AddBlockTyping`: a permutation of
  blocks is a sequence of blocks) and for `ConnectBlock`.
* `OrphansDisjoint`: `Spec => []OrphansNotInDag`. `OrphansNotInDag` is not inductive:
  a worker between the read-locked checks and `bd.AddBlock` could in principle
  insert a block another worker has just pooled. The strengthening `OrphanInv` adds
  that a worker at `accept` or `commit` holds a block whose parents are in the DAG
  and which is not in the pool; since `preProcessBlock` only pools blocks with a
  missing parent, and the DAG only grows, no worker can pool that block meanwhile.
  TLC checked `OrphanInv` as an invariant of the safety instance before the proof.
* `AdmissionRefinesDag`: `Spec => RefinesDag`. Initial states map to `Dag!Init`;
  the step lemma `DagStep` shows, from `OrphanInv`, that every step of `Next` is a
  `Dag!Next` step or leaves `dag` and `orphans` unchanged, one case per action.
  The invariant is what makes `bd.AddBlock` an `Admit`: the block of a worker at
  `commit` has its parents in the DAG and is not pooled, although the checks that
  established it ran under a read lock released since.
* `LockExclusive`: `Spec => []LockHeldInCriticalSection`, for any number of workers.
  The lock property is inductive once `TypeOK` holds (`LockInductive`): only
  `AcceptContext` takes the lock, and only when it is free. Every exit from the
  critical section (the context-failure return, the duplicate return of
  `AcceptCommit`, the end of `UpdateBestState`) releases it in the same step, and
  every step inside it changes only the holder's `pc`.
* `DagParentsClosed`: `Spec => []DagClosed`. The abstract specification keeps its
  DAG closed (`AbstractDagClosed`): it admits a block only when its parents are in
  the DAG, and genesis has none. The theorem follows by temporal logic from
  `AdmissionRefinesDag`, without a new invariant of the workers. The refinement
  carries a fact of `BlockDag` over to the implementation here.

### `NodeKeyProofs.tla`

* `NodeKeyIdentity`: `Spec => []IdentityStable`, for every set of keys, every
  configured path and every fault bound. `IdentityStable` is not inductive as it
  stands (it says nothing of the file a later start reads). `KeyInv` adds that, with
  no path configured, every key ever loaded is the one `network.key` holds, and
  none was loaded while the file is missing or empty; with a path configured,
  every key loaded is that file's. `PrivateKey` generates only into a missing file,
  so no step breaks it. `WithinSingleton` (a subset of a singleton has at most one
  element, from `FS_Singleton` and `FS_Subset`) gives the cardinality bound. TLC
  checked `KeyInv` with and without a configured path before the proof.
### `SyncProofs.tla`

* `SyncTypeCorrect`: `Spec => []TypeOK` for the sync model.
* `SyncPointHeldProof`: `Spec => SyncPointHeld`. The action property follows from
  the invariant `SyncInv`: `TypeOK`, genesis in the DAG, and the local `point`,
  once set, naming a DAG block. The point is only ever set to a block found in the
  DAG (`FilterBlock`) or just accepted (`ProcessData`), and the DAG only grows
  (`ProcessBlockGrows`, resting on `AdoptedBounds`: the adopted set lies between
  the DAG and the DAG with the pool). The three steps that move the sync point mid-round
  (`FilterEnd`, a failed `FetchBodies`, `FinishRound`) write `point` or genesis.
  `Adopted` is written as the least set closed under adoption, not as a
  recursive scan, so that the provers need no induction.
  The provers handle the Boolean flag `hasOrphan` apart from the rest of the
  type (`FlagInductive`, `CoreInductive`).

### `UpgradeProofs.tla`

* `UpgradeCleanupSafe`: `HasChainState => (Spec => []CleanupAfterRead)`, and
  `UpgradeRebuildsSafe`: `HasChainState => (Spec => []UpgradeRebuilds)`. Both rest on
  `UpgradeInv`. During the read loop, the blocks in memory are those of lookup
  indexes `1..n-1` (`UptoStep`, `AppendElems`), and `wanted` is the range `1..endNum`
  of the same lookup. `endNum` lies within the lookup (`EndNumType`). In aid mode
  this needs the chain state record: without it `endNum` is 0, which is the finding
  above. The loop leaves at `n = endNum + 1`, so the database is deleted with
  exactly `wanted` in memory. During the accept loop the new DAG is genesis plus
  the first `n-1` blocks, and "done" is reached only at `n = Len(blocks) + 1`.
  TLC checked `UpgradeInv` on `MC_Upgrade`, with and without a rejected block,
  before the proof.

Assumptions: the named `ASSUME`s of `Admission` (finite blocks, genesis without
parents, spends and parents within `Blocks`, positive transaction counts)
and of `Sync` (genesis in `Blocks` and the peer's blocks, the bounds in `Nat`),
`NodeKeyAssumption` (the keys differ from the markers for a missing or empty
file, and the fault bound is a natural number), and `UpgradeAssumption` (the order lookup ends at the main tip, the id lookup holds
it, both list blocks other than genesis, and `Total = Len(ById) + 1`).

Only model-checked:

* `RoundTrip`. It needs the framing of every record in the file, which is an
  induction over the file.
* `UtxoFollowsOrder` and `SnapshotMatchesDag`. They rest on `Replay`, a recursive
  function over the order, and on a sum over the DAG. Their inductive proofs
  need induction over data, and the provers cannot instantiate the library's
  induction theorems.
* `SubscriberConverges`. Its invariant counts, for each block, the notifications
  still pending in every worker's list, which again means sums over sequences.
* The liveness properties `OrphanAdopted` and `RestartRecovers`. TLAPS does not
  handle fairness or `ENABLED`.

## 5. Not modelled

* Notifications: `BlockAccepted`, the `Acct` commit and what the subscribers do
  with a notification (`sendNotification` and `flushNotifications` are outside
  `src/`); the subscriber is a per-block count.
* Crashes between the separate database transactions of one admission
  (block store, connect, best state, DAG commit).
* The per-transaction UTXO detail (token mint, import transactions, fees).
* The BFRPCAdd stale-tip check: a query without a state change.
* In the sync layer: the choice of sync peer (`TryAgainUpdateSyncPeer`,
  `continueSync`), merkle-block requests, `longSyncMod` and the mempool calls; the
  serving side's `CalcSyncBlocks` is any list of blocks the peer holds.
* In `upgradeBlockChain`: the block bytes (a block is its hash), the progress bar,
  the sleeps, and what `CleanupBlockDB` and `LoadBlockDB` (outside `src/`) do
  beyond deleting and creating the database.
* The other p2p utilities (`IpAddr`, `SerializeQNR`, `verifyConnectivity`,
  `filterBootStrapAddrs`, `BuildUserAgent`): conversions and network I/O without
  state. What the p2p service does with an empty `MetaData` read from a torn file.
* CLI, EVM database commands and parameters: I/O and constants.
