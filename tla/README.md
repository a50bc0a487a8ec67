# A verification project for api.handle.me

api.handle.me indexes the ADA Handles of the Cardano chain in Valkey and serves
them over HTTP. A scanner lambda follows the chain block by block and applies
what each block mints, moves and burns to some twenty indexes; a snapshot in S3
lets an empty cache start near the tip. The API only reads. What can go wrong is
mostly in the writers: a block that is applied twice or half, indexes that
disagree, two invocations that write at once, an import that dies and is resumed,
a chain that reorganises under a repair; and in answers put together from many
reads while one of them writes. This directory holds TLA+ modules of those parts,
TLC configurations that check them on small instances, and proofs of what holds
for all instances.

Paths below are those of the repository; `HR` is
`src/repositories/handlesRepository.ts`, `SC` is `src/lambdas/scanner.app.ts`,
`RS` is `src/stores/redis/index.ts`, `SW` is `src/workers/redisSync.worker.js`,
`KR` is `src/utils/koiosRateLimit.ts`, `BA` is `src/scripts/bootstrap-from-apis.ts`.

## 1. Inventory

| Component | State it keeps | Operations | What is hard | Module |
|---|---|---|---|---|
| Handle index and forward scan (HR, SC 1144-1222) | HANDLE records; the derived HOLDER, HOLDER_COUNT, ADDRESS, SUBHANDLE, label-hash indexes; UTXO, UTXO_SLOT, MINT; the cursor in METRICS; the scanned-blocks ledger | `processScannerBlock`: burn, label burn, mint, index each output, remove spent, move the cursor, record | several pipelines per block with a crash between any two and a replay; reads inside a pipeline that return nothing; counts taken before a batch | `HandleIndex` |
| Snapshot import and fenced writer (RS 199-354, 650-757, SW) | METRICS as starting point, SNAPSHOT_PROGRESS marker, `snapshot_loader:owner`, `scanner:lease`, the imported data | capture, claim, clear, replay chunk and mark, commit, unmark, release; heartbeat; operator reset | several processes; a call that times out and lands later; keys that expire under their owner; images read before and used after a fetch; resume | `SnapshotCache`, `SnapshotImport` |
| Scanner control (`SC` 119-220, 1040-1160, 1480-1789; `scanner-sideload.ts`) | `scanner:lease`, index locks and recovery fields of METRICS, MPT pending flag and root | one invocation per schedule: lease, readiness, reindex, recovery, label-root rebuild, pause and budget | an invocation that lost its lease and goes on; locks released half way; flags set after the step they describe | `ScannerControl` |
| Rollback and chain following (`SC` 641-1048, 1251-1497) | the scanned-blocks ledger, the records and outputs against the chain | list and fetch blocks, find missed and orphaned ones, remove what is stale, re-index what is canonical, move the cursor back | the chain switches between two awaits; mints orphaned; answers short; a repair cut short | `ChainFollow` |
| Koios batching and fallback (`SC` 197-631) | per read: batches, results, retries, the shared failure | batched requests, retries, splits, pages, Blockfrost fallback | concurrent requests that outlive the failure of one; partial answers; a deadline | `KoiosFetch` |
| Provider limiter and budgets (`KR`, `requestDeadline.ts`, `lambdas/scannerBudget.ts`, `scannerPause.ts`) | next slot, hold, deadline | admit, hold from a 429 or a reset header, abort | requests asleep while a hold is set | `KoiosFetch` |
| Demeter stream (`services/demeter/utxorpc.service.ts`, SC 1224-1246, 1263-1286) | cursor, history page, the block kept back | find intersect, catch up, follow, roll back | no end-of-block message; skipped heights; an orphaned cursor | `BlockStream` |
| Ogmios sync (`services/ogmios/`) | stream cursor | roll forward, roll backward, failed block | a failed block is skipped; rollbacks are only logged | `BlockStream` |
| Local repair and reader gate (`utils/localRepair*.ts`, `repairPreflight.ts`, `koiosRepairReader.ts`, `stores/redis/localRepairReaderGate.lua`) | journal, gate and its readers, two leases | preflight, claim, close, journal, write, finish, open; enter and leave the gate | readers, repairs and scanners that die inside; leases that lapse | `LocalRepair` |
| Snapshot publisher (`lambdas/snapshot.app.ts`, `utils/snapshotVerification.ts`) | lock field, the parts read, the verified flag | lock, read, verify, upload twice, prune, unlock | a lock read in one call and set in another, parts of different slots | `SnapshotPublish` |
| HTTP API (`controllers/`, HR 68-460, 720-850) | none of its own; a request is a row of reads | search, slot search, one handle, one holder, list of holders, status | several reads of a store that changes or is being rebuilt | `HandleQueries` |
| Bootstrap script (`BA`) | pages, rows and the pools of one run | tips, root, listing, comparison, ownership, mints, file | two providers at different blocks, answers of different moments | `BootstrapApis` |
| Operator tooling (`valkeyutility.ts`, `compareApiToKoios.ts`) | none | one command by hand | unfenced writes beside a scanner | two commands, in `SnapshotImport` and `ScannerControl` |
| Experimental undo journals (`workers/experimental*.mjs`) | journals | started by no production entry point | - | not modelled |
| Label registry trie (`utils/assetLabelRegistry.ts`) | trie root | canonical label sets, root | the trie is a library | not modelled |
| Scripts, minting, IPFS, MCP | none | fetch, format | pure I/O | not modelled |

How they interact: the scanner takes `scanner:lease`, asks the store for a
starting point (which may import a snapshot through the fenced writer, in a
worker thread the main thread waits for), then follows the chain from the cursor
(by block lists, or by Demeter's stream) and calls `processScannerBlock` for each
block. What it asks of a provider goes through the batched reads and the limiter.
The Ogmios container calls the same index code for every block of its socket. The
publisher reads the same indexes under a lock field of METRICS; a repair takes a
gate that readers and the fenced writer look at; the API reads whatever is there.
Everything shared between processes is in Valkey: there are no other messages
between them, so an interleaving is an interleaving of store calls, and the unit of
atomicity is one command, one pipeline (MULTI/EXEC or a batch) or one fenced
transaction. Within a process it is what runs between two awaits.

What makes each part correct: the derived indexes agree with the records at any
point a reader can look; a block the cursor has passed is fully applied, once,
whatever died on the way; a starting point is published only over complete data;
only the holder of the ownership writes; an import resumed from a marker skips
nothing; records follow the canonical chain; a read that is reported complete is
complete; a published file is one that heals by scanning; an answer was true at
some moment of its request; and what should be finished in the end is.
`PROJECT.json` lists the hazards behind these one by one, each at its line, with
the property that would catch it or the reason why none does.

## 2. Modules

| Module | Models | Role |
|---|---|---|
| `HandleIndex`, `HandleIndexMC`, `HandleIndexProofs` | the forward scan and the indexes | component, instances, theorems |
| `SnapshotCache` | what an import promises of the cache | abstract specification |
| `SnapshotImport`, `SnapshotImportMC`, `SnapshotImportProofs` | `tryPopulateFromS3UTxOs` and the fenced writer; EXTENDS `SnapshotCache` and keeps its variables | component, instances, theorems and refinement |
| `ScannerControl`, `ScannerControlMC`, `ScannerControlProofs` | invocations of the scanner, sideloads and the publisher's lock over the lease, the locks, the flags and the rebuild | component, instances, theorems |
| `ChainFollow`, `ChainFollowMC`, `ChainFollowProofs` | the scan by block lists and `processRollback` on a chain that forks | component, instances, theorems |
| `KoiosFetch`, `ReadProofs` | one batched provider read, the limiter and the deadline | component, theorems |
| `BlockFollower` | what a source of blocks promises the index | abstract specification |
| `BlockStream`, `BlockStreamMC`, `BlockStreamProofs` | Demeter's event stream and the Ogmios socket | component, instances, theorems and refinement of `BlockFollower` |
| `LocalRepair`, `LocalRepairProofs` | the repair, its journal, leases and reader gate | component, theorems |
| `SnapshotPublish`, `SnapshotPublishMC`, `SnapshotPublishProofs` | the snapshot handler beside a scanner | component, instances, theorems |
| `BootstrapApis`, `BootstrapApisMC` | the snapshot built from two providers' answers; its theorems are in `SnapshotImportProofs` | component, instances |
| `HandleQueries`, `HandleQueriesMC`, `ReadProofs` | the requests that take more than one read | component, instances, theorems |

Where two modules meet, the one keeps as a step what the other takes apart:
`HandleIndex` says what a block does to every index, `ScannerControl`,
`SnapshotPublish`, `LocalRepair` and `HandleQueries` have the scanner's writes only
as coarse as their question allows, and say so.

### 2.1 HandleIndex

Each pipeline of `processScannerBlock` is one action, because the store runs a
pipeline as one batch; `pc` says which comes next.

| Action | Code |
|---|---|
| `BurnHandles` | SC 1166-1176, `removeHandle` HR 920-970, `_removeHandleFromHolder` HR 1480-1540 |
| `BurnLabels` | SC 1177-1183, `removeHandleLabel` HR 61-75: reads in a pipeline, gets `undefined`, writes nothing |
| `AddMintData` | `addMintDataFromUTxOs` over all outputs, then the filter of outputs spent in the block |
| `AddOutput` | `addUTxO` and `updateHandleIndexes` for one output, with `save`, `updateHolder` and the root sets |
| `MintDataMissing` | the exception of HR 1049: `scan` returns false, the block starts again |
| `RemoveSpent`, `CommitCursor`, `RecordScanned` | SC 1194-1222, in that order |
| `Crash` | the lambda is killed between two store calls |
| `AppendTx` | the chain, modelled from what the code expects of it (external) |

The operators inside follow the code's reads closely, because that is where the
bugs are: inside a pipeline `SCARD` (and nothing else) is answered from the state
before the batch, so `LeftAfterBurn`, `DropsKey` and `CountAfter` use unprimed
sets, and `Seeded` is the set of holders whose lists `buildIndexInfoFromUTxO`
read beforehand.

Abstractions: a name, address or holder is a model value; `ADDRESS` stands also
for the payment-key index, which is kept the same way; attribute indexes that
depend on the name only (rarity, length, characters), slot history, default
handles and personalization data are left out; `001` stands for the labels
001-004; an output's position in its transaction is not kept, so outputs of one
group (those with a 222 first, the rest after) are indexed in any order, which
includes the code's stable sort. `u.minted` holds the names whose main token the
transaction mints, as `helpers.ts` 169-184 computes it.

Environment assumptions (in `AppendTx`): tokens are NFTs; a 100 or 001 does not
outlive the 222 or 000 of its name unless `Orphans`; a 100 never shares an output
with its 222; an output with a 000 carries only that name; no name has both a 222
and a 000 (constant assumption). `HandleIndexAssumption` also says that no real
address has the holder key of the empty address.

### 2.2 SnapshotCache and SnapshotImport

`SnapshotCache` is the promise, with the three variables that matter: the
starting point, the marker and the stored chunks. Data is cleared, stored chunk by
chunk in replay order, marked, and a starting point is published over a complete
snapshot only.

`SnapshotImport` has any number of processes. Each is an invocation (`pc`) with
the local variables of its import (`frame`), and at most one store call under way
(`req`). A call is a transaction of two steps: `Watch` (WATCH and the reads that
check the tokens) and `Land...` (EXEC). Any change of a watched key in between
turns `watched` into `touched` and the call fails.

| Action | Code |
|---|---|
| `AcquireLease`, `ReleaseLease` | SC 119-149 |
| `Lock`, `Unlock` | `ensureUTxOsReady` SC 1090-1118: the maintenance lock is a field of METRICS, so writing it leaves a hash where there was none |
| `Capture`, `Refuse` | `getStartingPoint` RS 322-354 and RS 199-262: images, lease, candidate, marker |
| `Watch`, `Fail` | the reads of `claimSnapshot` SW 25-49 and `fencedSnapshotCall` SW 66-97 |
| `LandClaim` | SW 25-49 |
| `LandClear` | one page of `clearNamespace` RS 650-658, in whatever order SCAN gives |
| `LandMark`, `LandMint`, `LandUtxo`, `LandBlocks`, `LandCommit`, `LandUnmark` | RS 263-310 |
| `Release` | `finally`, SW 167-173 |
| `TimeOut` | `redisClientCall` RS 700-757 gives up after 20 s; the worker does not |
| `Crash`, `Drop` | the process or its call is gone |
| `Lapse`, `Lose` | a key expires that nobody renews, or one that is still in use |
| `PublishSnapshot` | the object at the URL changes (external) |
| `ResetMetrics`, `ResetProgress` | `reset_scanner`, `valkeyutility.ts` 962-983: two unfenced commands |

A refused claim throws before the `try`, so that `Release` does not follow it. A
snapshot is a digest; its content is `NMint` chunks of minting data, `NUtxo`
chunks of outputs and the scanned blocks. `holderCount` follows one holder with a
handle in every chunk.

Abstractions, and which way they err: scanned blocks are one write (they are
several idempotent ZADDs in the code); the images a claim compares leave out lock
fields and timestamps, so the model admits claims the code would refuse; a process
starts no new invocation while a call of its last one is under way (the code
would share the WATCH state of one connection, SW 14-17, which is not modelled);
the heartbeat is part of `Lose`/`Lapse`: fenced calls renew both keys and the
timer cannot fire while the main thread waits for the worker.

An observation rather than a property: an invocation of the scanner never starts
at genesis after a 404, because its own lock write leaves a METRICS hash and the
404 path wants none; only a standalone importer can.

### 2.3 ScannerControl

`HandleIndex` says what a block does and `SnapshotImport` what an import does;
`ScannerControl` is about who may do either, and about the one large operation
between them, the rebuild of the derived indexes from the outputs. The store is
`lease`, `lock`, `recovery`, `current`, `pending` (five keys that guard) and
`cursor`, `base`, `index`, `root` (what they guard). A process is a `pc` with a
`frame` of local variables.

| Action | Code |
|---|---|
| `AcquireLease`, `ReleaseLease`, `ExpireLease` | SC 1532-1577, 141-149 |
| `Shortcut` | the reindex request SC 1594-1623: takes the lease, reads no lock |
| `CheckDeferral`, `CheckLock`, `CheckFlag`, `ClearRollbackFlag`, `CheckSchema` | SC 1584-1665, one read each, in that order |
| `FlagStaleReindex`, `ClearStaleLock` | `clearStaleLockIfNeeded` SC 1120-1142 |
| `SetFlag`, `LockReindex`, `StampSchema`, `ClearFlag`, `Unlock` | `processReindex` SC 1050-1065 |
| `WipeIndex`, `ReadUtxos`, `WriteChunk` | `repopulateIndexesFromUTxOs` RS 118-193 |
| `ReadNames`, `StoreRoot` | `buildAndStoreMptRootHash`, `snapshotVerification.ts` 242-249 |
| `BeginScan`, `ApplyBlock`, `StopScan`, `FinishScan`, `ClearPending`, `FailRoot` | `scan` SC 1251-1523 |
| `FailRebuild`, `Die` | an exception, and a kill that runs no `finally` |
| `DetectSideload`, `RefuseSideload`, `RunSideload` | `runSideload` SC 1747-1779 |
| `WaitForUnlocked`, `LockSnapshot`, `UnlockSnapshot` | `lambdas/snapshot.app.ts` 50-59, 241-302 |
| `TriggerReindex` | `valkeyutility.ts` 987-1002 |
| `LockAges`, `LockAgesEarly` | `isLockStale` SC 190-195 |

When a lease can lapse under its holder is the point of the module. A tick renews
it from a timer, and the rebuild's store calls are synchronous, so that the timer
is silent from the first delete to the last write (`Blocking`); a sideload has no
timer at all; elsewhere a tick keeps what it holds. `interfered` records that a
shortcut, a sideload, a publisher or an invocation longer than ten minutes took
part, `overlapped` that two processes were at work at once. Both are history: no
guard reads them.

Abstractions: a derived index is the block each handle's record is of, so "whole"
is `index = base`; a block moves, mints or burns one handle and is applied in one
step (its pipelines are `HandleIndex`'s); the delete of all indexes is one step and
the write one step per handle; the trie root is the set of names it commits to. The
import is assumed done and of the present schema. The scan takes the Demeter branch,
where there is no `checkRollback`; the local repair's journal is left out. The
deferral's reads of the schema and of the flag are one step: while the lease is held
only an operator's request comes between them, and its effect is that of a request
before both or after both.

### 2.4 KoiosFetch

One call of the four batched reads (`tx_info`, `datum_info`, `block_txs`,
`asset_utxos`; the read is chosen at the start) with its concurrent readers. A
reader is `off`, waits for the limiter, has a request `sent`, or is asleep before a
retry; `stage` is the provider asked, or the end.

| Action | Code |
|---|---|
| `Admit` | `admit` KR 71-86 and the checks before it: the deadline, the shared failure of a gated pool |
| `Headers`, `Broken` | a reply's rate headers KR 92-99; a request that fails or times out (`helpers.ts` 27-51) |
| `Refused`, `Answered` | `helpers.ts` 109-159, then the error branches of SC 308-411, 540-560 and the pages of SC 495-538 |
| `Wake` | the sleep of a retry, SC 234-238 |
| `Return`, `Fail`, `FallBack` | SC 441-446, 593-631: the readers drained, the error, the read of Blockfrost |

Kinds differ in their pools (a pool of workers for `tx_info`, all batches at once
for datums and assets, a loop for blocks), in whether a failure is shared
(`Gated`), may be split in two (`CaughtSplitting`) and falls back (`HasFallback`).
Left out: the body-size limit of a batch, which cuts in the same loop as the number
of hashes, the conversion of rows, and the limiter's state of other processes.

### 2.5 ChainFollow

The blocks are a tree given as a constant; `tip` is the head of the canonical
chain and moves at any time. `job` holds the local variables of the invocation.

| Action | Code |
|---|---|
| `List`, `ListNothing` | SC 1278-1347, with the stale head of 1318-1331 |
| `Fetch`, `Apply`, `Commit`, `NextChunk`, `EndScan` | SC 1350-1442, 1196-1204 and the pause |
| `ReadWindow` | SC 692-793: the ledger and the chain of the window, what is orphaned |
| `Probe` | SC 795-817: missed blocks |
| `AskUtxos` | SC 832-918: the canonical outputs of what is suspect, the drift, the handles to repair; a null or short answer is taken as it is (876) |
| `AskTxs` | SC 920-926: the transactions of those outputs, in the blocks they are in by then; a short answer is not noticed |
| `RemoveStale`, `AddCanonical` | SC 928-984, HR 599-660 |
| `Reindex`, `ReindexThrows` | SC 986-1048, with the snap of the cursor (820-829) |
| `Stop` | an exception or a kill |
| `Advance` | the chain (external) |

`Height` and `Chain` are constants that `ChainAssumption` ties to `Parent`; what a
transaction spends is `Input`, and `LedgerAssumption` states the rules of the ledger
the code counts on: a chain holds a transaction once, and it spends the output that
holds its handle, a mint none, of a handle nobody holds. `Owner` is the last block of
a chain that carries the handle.

Left out: several handles in one transaction, holder scores, slot history.
`standing` and `disturbed` are history, read by no guard. `standing` has the blocks
whose effects the store has taken in and not yet put aside: a block that writes the
record of its handle puts aside what other forks had written there (`Superseded`), a
snap of the cursor what is on other forks (`Left`), and a repair adds what it found.
`disturbed` has the handles a reconciliation could not put right: those of blocks left
or jumped that are not `Promised`, and those of a repair until it is over. `Promised`
is stated by the window, the answers that came and the stored and the canonical state,
not by what the code goes on to do: it is what a repair owes. A handle whose canonical
output was left out of an answer, or is of another fork by the time its transaction is
asked for, is not promised, and the model lets happen what the code then does: its old
output and minting data go, none comes, and the cursor snaps on all the same.

### 2.6 BlockFollower and BlockStream

`BlockFollower` is the promise both sources make: `Take` a child of the block one is
at and name it in the cursor, `Miss` it without naming it, go `Back` to an earlier
slot, or `Resume` at the cursor. `BlockStream` has the two sources over one chain;
`source`, chosen at the start, says which of them a deployment listens to.

| Action | Code |
|---|---|
| `CatchUp`, `CatchUpOrphaned` | SC 1265-1286 |
| `Watch`, `Event`, `Undo`, `Cancelled`, `Broken` | `utxorpc.service.ts` 149-319: the event of a new block completes the one kept back |
| `Classify`, `ClassifyFails` | SC 1205-1246, 1465-1478 |
| `Rollback`, `Repair` | SC 692-1018, of which `ChainFollow` has the detail: the cursor snaps, and of each handle of the blocks it leaves or passes over what was stored may stay or go, and what the chain has of it by now may come as an output alone or as its record too |
| `Repeated`, `Skipping` | what the provider may do wrong: an event twice, the first one missing (constant `SkipsFirst`) |
| `Connect`, `RollForward`, `RollBackward` | `ogmios.service.ts` 21-91, 121-175 |
| `Malformed`, `Lost`, `Exit` | a message that cannot be read, the socket closed, the container restarted |

`NetEffect` applies a block as `processScannerBlock` does, from the net of its
transactions; `OneByOne` as the Ogmios service does, transaction by transaction.
`Ledger` is a recursive function from a block to who holds what on its chain, against
which the store is compared; `LedgerAssumption` has the same rules as `ChainFollow`'s,
transaction by transaction, and a transaction whose script fails (`Failed`) spends
nothing of the ledger.
`disturbed` has the handles of the blocks rollbacks left or passed over: a rollback
promises nothing of them, neither here nor in later blocks, and `StoreFollowsCursor`
claims the rest of the store only. A handle left without minting data makes the scanner
throw at its next move, which `CatchesUp` excepts (`Stuck`).
Left out: the gRPC connection and the client's conversion, of which only "cannot be
converted" is kept (`Bad`).

### 2.7 LocalRepair

Any number of repairs and readers and one scanner, over data of three parts that
are written in order (outputs added, old outputs removed, root). A version tells
which state of the chain a part shows. `chain` is the provider's: how far its tip is,
the last block that mints or burns an owner token, and whether the cursor's block is
orphaned.

| Action | Code |
|---|---|
| `ReadJournal`, `First`, `Second` | `localRepair.ts` 63-69, `repairPreflight.ts` 35-73, `koiosRepairReader.ts` 12-139: the chain is read twice and compared |
| `Near`, `Traced`, `Shown` | `koiosRepairReader.ts` 32-45, 91-101: a reading is refused unless the cursor is within 64 parent links of the tip (`MaxLinks`) and no owner token was minted or burnt after it |
| `Grow` | the chain goes on, also while the scanner is stopped by the journal |
| `Acquire`, `Held` | the scanner lease, `repairPreflight.ts` 22-34 |
| `Check`, `Claim` | `localRepair.ts` 74-107, SW 25-49 |
| `Close`, `Open` | `localRepairReaderGate.lua` 10-25 |
| `Record`, `Write`, `Verify`, `Finish` | `localRepair.ts` 110-183 as fenced calls (SW 66-97) |
| `Release`, `Throws`, `Crash` | `localRepair.ts` 186-190 |
| `Admit`, `Answer`, `Vanish` | readers, `localRepairReaderGate.lua` 18-40 |
| `ScanStart`, `Clear`, `ScanBegin`, `ScanBlock`, `ScanRollback`, `ScanEnd`, `ScanCrash` | SC 1539-1579, 1144-1203, 820-829, 1722-1732 |
| `Expire`, `Lapse`, `Fork`, `RemoveOrphan` | expiring keys, a key lost in use, the cursor's block orphaned, the operator's step of the runbook |

`TooLate` says that a reading will be refused for good: a scanner that is stopped does
not bring the cursor nearer.
The token of a lease is random, so that of a dead process is `Gone` and nobody's.

### 2.8 SnapshotPublish

| Action | Code |
|---|---|
| `WaitForUnlocked`, `LockSnapshot` | `snapshot.app.ts` 50-59, 245-255: two calls |
| `ReadMetrics`, `ReadNames`, `ReadOutputs`, `ReadMore`, `ReadMints` | 116-191, each call as a step; `Cut` drops what is above the cursor read first |
| `ReadRoot`, `Verify` | `snapshotVerification.ts` 251-275 |
| `Upload`, `Lands`, `UploadFails`, `Prune`, `Unlock` | 79-104, 265-302; an upload may land late |
| `Throws`, `PublisherDies` | 192-203, and a kill |
| `Tick`, `ClearStaleLock`, `LockScanning`, `BurnHandles`, `AddMintData`, `AddOutputs`, `RemoveSpent`, `Commit`, `Record`, `BuildRoot`, `EndTick` | the scanner, pipeline by pipeline |
| `Grow`, `Dawdle`, `ScannerDies` | the chain, a handler that takes over ten minutes, a kill |

`Validates` is the importer's validation (`verifiedSnapshot.ts` 29-56): it asks for the
verified flag, which a file has whose root agreed with the datum, and for entries not
later than the file's slot (`WithinSlot`).
Left out: the provider probes of `snapshotVerification.ts` 60-157, and a
reorganisation between a file and its import.

### 2.9 BootstrapApis

Two providers follow one chain at their own pace; every answer is of the block its
provider is at. `Script` takes the steps of the code in order: `Starts` (tips, root,
`BA` 142-200), `Lists` (pages, 204-276), the comparison of the root (1043-1060),
`Asks`, `Answers` (four pools of workers, with splits, 379-600),
`Finishes` (mints, transactions, the file, 1109-1219). `Fails` is any exception,
`TooLarge` a batch the provider refuses for its size. The root the chain states covers the
labels of handles (`Registry`, tokens 001 to 004), the one the script computes does not. `Accepted` is the importer's
validation. Left out: datums and reference scripts, rollbacks, files cut by a test
setting.

### 2.10 HandleQueries

One request and the scanner. The request is a search (by length, holder, list of wallets,
a term as text and in hex, or from a slot), a
handle, a holder with its default, or the list of holders; each store call of it is
a step (`ReadLength`, `ReadWallet`, `ReadKeys`, `ReadHexes`, `ReadRange`,
`ReadRecords`, `ReadChosen`, `ReadSets`, `ReadPage`, `ReadScores`, `ReadHeads`,
`ReadFirsts`, `ReadMembers`, `ReadFirst`, HR 181-460, 727-847), and the status the
last (`ReadStatus`, HR 82-113). Beside it a handle is saved or burnt, or the indexes
are wiped and written back (`LockReindex`, `Wipe`, `WriteBack`, `EndReindex`,
`FailReindex`). The wallet an entry was looked up for (`AskedFor`) and the one it names
(`ShownFor`, the address in the record of its first handle, HR 802-829, 845-846) are
read in different calls and may differ.
Names and wallets are numbers in alphabetical order; a trait of the
name alone (`Length`, `Og`) stands for its like. Slots are counted from the first of
the era that has handles, which is what `metrics.firstSlot` is ever set to (Ogmios
service 87, 194), and a slot is asked for without a page (`routes/handles.route.test.ts`
586, `swagger.yml` 362-371). Left out: personalization, datum and
script endpoints, random order, marketplace listings, the availability of unknown
names, ranges of lengths, slot 0 (read as no slot, HR 330), the stake-key form of a list
of wallets (HR 732-738), formatting.

## 3. Runs

| Run | Configuration | Shows |
|---|---|---|
| `holders` | two 222 subhandles of one root, two addresses with holders of their own; 2 blocks of up to 2 transactions of up to 2 inputs, 1 crash; symmetric in the handles | derived indexes agree with the records in every state; a committed block agrees with the ledger |
| `companions` | a 222 with its 100 and 001, a virtual 000; 2 blocks of 1 transaction, 1 crash; fair | label hash, references; every block commits |
| `import` | 2 processes, 2 snapshots, 1+1 chunks, 2 events; symmetric in the processes | the marker, the starting point, fencing, refinement of `SnapshotCache` |
| `control` | 2 ticks, 1 sideload, 1 publisher; a chain of 2 blocks over 2 handles; 2 events; symmetric in the ticks | exclusion of ticks, the flag over a partial index, what a scan works on, cursor and root |
| `control_live` | 2 ticks, 1 publisher; 1 block; 2 events; fair | a partial index and a stale root are repaired without an operator |
| `fetch` | the four reads; 3 hashes in 2 batches, 2 readers, 1 retry, 1 stated wait; 5 quanta of time; fair | a read returns each row of each batch once, in order, leaves nothing under way, starts no request it may not start, and ends |
| `follow` | 11 blocks with 2 forks, 2 handles, lists of 3, chunks of 2; 2 faults; fair | at rest the records are the canonical chain's where the repair covers the case and was answered in full; no minting data is lost that is needed but there; the cursor reaches the tip |
| `sources` | both sources on a chain that forks; 3 faults; fair | stores follow their cursor, but for handles a rollback disturbed; refinement of `BlockFollower`; both catch up |
| `repair` | 2 repairs, 1 reader, the scanner; 1 block, 2 faults; fair | no reader inside a half repaired store, a half repair always journaled, nothing set back, a recovery goes through unless it comes too late |
| `publish` | 1 run of the handler, 1 name, 3 blocks, 1 fault; fair | a published file heals, and can be imported if it was verified; no publisher stops the scanner |
| `bootstrap` | 4 assets, one a label; pages of 1 two at a time, batches of 2, a worker each; a chain of 3 blocks, the script started at the second; fair | an accepted file heals; over a chain that stands still the script goes on exactly if no label is held; the run ends |
| `queries` | 3 handles, 2 wallets, 1 request of every kind, 1 write or rebuild; fair | undisturbed answers are exact; of disturbed ones every record was true at some moment, and every default was the wallet's it was looked up for; a request is answered |

Bounds. `MaxSlot`, `MaxTxs`, `MaxInputs`, `MaxCrashes` bound the chain and the
crashes. Two blocks are enough for state that one block leaves and the next one
trips over (burn and re-mint, move and move back), two transactions for outputs
made and spent in one block and for removals queued twice in one pipeline, one
crash for a replay of any half-applied block; a second crash repeats the same
prefix. Two handles and two holders are what a reverse list needs to lose a
member it should keep. `NMint`, `NUtxo` and `MaxEvents` bound the import: two
events are what it takes to interrupt an importer and to disturb the one that
follows it (a time-out and an expiry, a crash and a publication, a reset between
two crashes); with three events the same properties hold (3.05 million states, run
by hand as it takes too long with every change). One UTxO chunk suffices for the
marker since mint and UTxO chunks are replayed by the same loop. `control` has two
ticks, the least that can exclude each other, with one process of every other kind
beside them; two blocks, so that a block can be applied after a later one and a scan
can be resumed between blocks; and two events, which interrupt a rebuild and disturb
the invocation that repairs it. `control_live` needs one block, since what it asks
about is the rebuild and the root, and no sideload, which in its runs only adds
overlaps the property excludes.

`fetch`: two batches over two readers are what a drain and a shared failure need,
three hashes leave one batch whole and one that is short; a page of one row makes
every answer go on; five quanta pass the stated wait and reach the deadline.
`follow` has forks that orphan two blocks and three and make the first branch the
longer one again, a handle minted by the same transaction on both branches, one moved
by other transactions on each and burnt on one, and two faults, so that a repair cut short or answered in part meets a second switch. `sources` has three faults: a gap, an undo
and a timeout together are what the block kept back is about. `repair` has two
repairs, one that dies and one that recovers, and two faults for the recovery itself
to be disturbed; its chain may run one link further than the cursor may be behind
(`MaxLinks` = 1 for the code's 64), so that a recovery can be in time or too late. In `publish` the handler's reads take in three blocks, one that the
cursor read first covers, one under way and one after; the handlers ask nothing of
each other, and the theorems cover any number of them. `bootstrap` has an asset both
providers list, two only Koios does, one of them the handle's settings token (001), there or not all
along, and three
blocks: the handle may be minted, burnt and minted again before or while the script
runs, and either provider can be behind at any answer. `queries` has pages of two with three handles
(a page that is full, one that is not), ranges of two slots in four (a first, a
middle and a last range), and one event, which falls between any two calls.

Fairness. `FairSpec` of `HandleIndex` is weak fairness of the scanner's steps: the
lambda is scheduled for as long as it is deployed. Nothing is assumed of the chain,
and crashes are bounded, since a lambda that dies in every invocation commits
nothing. `ControlFairness` is weak fairness of each tick (cron starts it again after
every end), of a sideload or a publisher once started, of the expiry of a dead
holder's lease and of the ten minutes after which a dead holder's lock is stale. Its
property excludes what the code does not promise: a deferring deployment (which waits
for an operator), and histories in which two processes worked on the index at once
(`overlapped`, section 6) or, for the root, a tick died while it applied blocks.
`KoiosFetch` is weakly fair to each reader's admission, wake-up and failed request
(every request has a timeout, so it fails if it is not answered), to the end of the
read and to the clock; no answer is assumed. `ChainFollow` is weakly fair to the
scanner's next step; `BlockStream` to each source's, an answer of the provider
included, with its wrong answers bounded. `LocalRepair` is weakly fair to a repair's
own steps, to the end of a scan and to the expiry of keys, and strongly to
`Acquire`: an operator tries again while scans come and go. `RecoveryCompletes`
asks for a scanner that is stopped in the end, as the runbook does; the chain owes
nothing, and where it runs too far ahead meanwhile the property lets the journal stand.
`SnapshotPublish` is strongly fair to the start of a tick and of a block, which the
lock of a publisher takes away and gives back, weakly to all else; `MaxRuns` bounds
the handler's runs, which a schedule keeps apart. In `BootstrapApis` the script, in
`HandleQueries` the request goes on; the scanner may rest.

What the properties leave to others. Several except a history that the code does not
promise to handle, and so do not catch the hazard on that side: `PartialIndexIsFlagged`
and `ScansWholeIndex` say nothing after two processes worked on the index at once
(`overlapped`; SC 1606 and 1564, which `ReindexOverlap.cfg` shows), `RootMatchesAtRest`
nothing of a tick killed among its blocks, `FollowsBlocks` lets the abstract follower
miss a block (`Miss`, which the Ogmios service does) and takes a provider that does not
skip the first event, `StoreFollowsCursor` nothing of an Ogmios stream that strayed,
`RecordsFollowChain` nothing of `disturbed` handles, `EnumeratedHeals` is about the
assets listed, and `SearchEnds` excepts a downward search without a `firstSlot`, which
does not end (section 5).

Deadlock is checked in all other runs; `sources`, `publish`, `bootstrap` and
`queries` may really stop: the sources and the scanner at the tip of a chain that
ends, the script at its exit, a request when it is answered.

`ImportLive.cfg` is run by hand: an import is completed as long as its marker fits
the published snapshot (`ImportCompletes`), under weak fairness of each process's own
steps, of the loss of calls whose caller is gone and of the expiry of a key nobody
renews. The configurations of section 6 are run by hand, too.

Each property is paired in `PROJECT.json` with a mutant of the code (a dropped
guard, a forgotten index, an unwatched transaction) that violates it under the same
configuration. Mutants stand in the modules before the definition they replace.

## 4. Proofs

`HandleIndexProofs` proves, for any names, addresses, holders, roots, tokens and
bounds that satisfy `HandleIndexAssumption`:

- `TypeCorrect`, and `HolderSetsCorrect`, `AddressSetsCorrect`,
  `SubHandleSetsCorrect`, `RootsCorrect`, `RegistryCorrect`: every derived index
  agrees with the handle records in every reachable state;
- `HolderCountCorrect`: HOLDER_COUNT is the size of the reverse list, under the
  assumption `NoVirtual` that no 000 tokens exist (with them it is false:
  `VirtualHolder.cfg`); `IndexesCorrect` puts it and the four index relations together
  as `IndexesMatch`, the invariant of the run `holders`.

- `UtxosCorrect`: in a committed block the UTxO index is the set of live outputs;
- `HandlesCorrect`: in a committed block a name has a record exactly when its main
  token lives, with the output and address that hold it; for `Orphans = FALSE`, a chain
  on which no companion outlives the main token of its name (where one does, TLC finds
  it indexed after the burn, and the name has a record again that nobody holds);
- `CompanionsCorrect`: such a record refers to the living reference token and counts
  the royalty token among its labels; also for `OneReference`, no name with both a 000
  and a 100, since a 000 is its own reference.

The inductive invariant `IndexInv` is the conjunction of the type invariant and the
index relations. None of them is inductive alone: `removeKeyFromMetaIndex` decides
by the size of a set, so that the root sets are right only if the sets are; the
sets are updated from the address in the record, so they are right only if they
agreed with it before; and the count after a burn is a difference of two
cardinalities, equal to the size of what is left only because what is removed was
in the set. The proof has one step per action; `BurnHandles` and `AddOutput` rest
on lemmas about one name at a time.

The agreement with the ledger is claimed of committed blocks, so its invariant has to
describe every half-applied one, after any crash and in any replay. It comes in three
layers. `ChainInv` is about the chain alone: outputs are made once, what is live is not
spent, a token is in one output (`Nft`), and when a main token is burnt nothing older of
its name lives on. `LedgerInv` adds `Pending`, the outputs the present pass has still
to index: the live outputs are always what the index holds but for the outputs the
block spends, together with what is pending; that no pass can spoil it however often
it starts again is `UtxoInv`. `RecordInv` says of each name what its record will be
once what is pending is done: an output not pending has its record already
(`Matches`), a record of a dead token is one the pass has still to burn (`ToBurn`), and
an output that mints a name anew finds no record of the older token, unless that one is
about to be burnt, so that the amount never counts two. `CompanionInv` follows the same
plan for the reference and the labels, on top of it.

`SnapshotImportProofs` proves, for any processes, snapshots, numbers of chunks and
bounds on events:

- `ImportTypeCorrect`, `MarkerCorrect`, `OneWriterCorrect` and
  `OnlyTheOwnerWritesCorrect`, without further assumption;
- `StartingPointCorrect` and `ImportImplementsCache` (the refinement), for
  `~Recover`: no import over a valid starting point. With `Recover` the first is
  false: such an import, killed while it clears, leaves partial data under the
  starting point. Only the Ogmios service asks for it.

The inductive invariant `ImportInv` adds to the types: a transaction that is still
watching passed reads that still hold (`Watching`); the claim under way carries the
very images its cursors were computed from (`Claims`), so that once it lands they
describe the store; the data stands where the owner's cursors say, whoever owned the
import before (`Owned`, `Position`); the marker lags behind the data by at most one
chunk (`Marked`). `Watching` is what makes a late call harmless: if it lands it is
the owner's, and then `Owned` says where it lands. Every step either stores nothing
(lemma `QuietInv`), only moves a process (`MoveInv`, `EndInv`), or is an EXEC
(`LandInv`, one lemma per operation).

`ScannerControlProofs` proves, for any processes, any chain and any number of
deaths, failures and requests, under `ControlAssumption` (the three kinds of process
are disjoint):

- `ControlTypeCorrect`;
- `TicksExcludeCorrect`: as long as only prompt ticks run, no two of them are at work
  at once, although the lease lapses in the middle of every long rebuild;
- `RootCorrect`: at rest, unless a tick died among its blocks or two processes were at
  work, the stored label root is that of the index or is marked to be rebuilt;
- `WholenessCorrect`, `PartialFlaggedCorrect`, `ScansWholeCorrect`: while nobody
  overlapped, sideloads, shortcuts, publishers, deaths and failures included, an
  index that does not stand for the outputs is flagged, and no tick scans over it.

Exclusion is not inductive alone: the lease protects a tick only until it sets the
lock, and from then on the lock does, until its `finally`. `Undisturbed` names the
two phases and what hands over between them: `EarlyHasLease`, `ClearIsUnlocked` (a
tick that read the lock as free still finds it free), `StaleIsOld` (a stale lock has
no living owner) and `LockedIsOwn`. Each step of a tick is checked against the
phase of any other. The second invariant, `Wholeness`, takes the absence of overlap
as given by its history variable: one process at most is at work (`OneAtWork`), so
that what a rebuild has done is known from its stage (`RebuildSoFar`), the flag
stands from before the first delete (`RebuildIsFlagged`), and nobody but a completed
rebuild clears it. The third, `RootSound`, is needed because the root is right at rest
only: a scan that has moved the cursor leaves a stale one behind it until it has stored
the next (`FreshUnlessStale`), and who stores a root has the names it was computed
from, which are still those of the index (`RootSoFar`). It uses `Wholeness`, without
which another process could have changed the index in between.

`ChainFollowProofs` proves, for any tree of blocks, any transactions that keep the
rules of the ledger, any bounds of the lists and windows, any number of faults and
every way the chain switches between two steps, under `ChainAssumption` and
`LedgerAssumption` alone:

- `RecordsCorrect`: at rest every record but for the disturbed handles is that of the
  canonical owner, with its output stored;
- `MintDataCorrect`: a handle with a record keeps its minting data, unless it is disturbed.

The answers of a reconciliation may be null or short in any of the handles asked for,
without the code noticing; the theorems leave out the handles concerned, and no handle
on account of an answer short in another.

Neither is inductive, for at rest is one state in a long invocation, and the store
passes through states that belong to no chain at all. `FollowInv` says for the scan
that the blocks listed are a line that begins at the cursor, all of whose chain was
taken in (`ScanInv`); for a reconciliation what it knows of its window (`WindowInv`) and
what it has undertaken (`PlanInv`: what it will write is later than all that stays);
and for the store, of each handle apart (`StandsInv`): as far as the blocks taken in
that touch it lie on one chain, record and output are those the latest of them left.
A handle touched on two forks is claimed nothing of until a block of the later fork, a
repair or a snap has put the other fork aside, which is what made it necessary to state
the history (`standing`, `disturbed`) for every tree and not for the one TLC checks.
Two first attempts at that history were wrong, found by TLC on random trees: a repair
was taken to put right a handle whose canonical output is older than what the cursor
passes over, and a block applied over an orphaned one of another fork was taken to
leave both standing.

`ReadProofs` proves of `KoiosFetch`, for any number of hashes, batch and page sizes, readers,
retries, stated waits and deadlines (`FetchAssumption` only says what is a number and
what is not zero):

- `DrainedReturns`: a read that returned or threw has no request on its way and no
  reader that will wake;
- `AdmittedStarts`: a request starts only after every wait its provider stated, before
  the deadline, and from a pool not after a failure was noted;
- `AllRowsReturned`: a read that succeeds returns each row of each hash once, in order.

`FInv` relates a reader's stage to its batch and to the limiter (`Settled`,
`QuietKept`: what a provider stated is forgotten by no later, shorter hold). The rows
need more, since a batch may be halved again and again, be read page by page, be read
by whichever reader is free, and be given up for the fallback: `RowsInv` says that the
pieces a reader holds follow each other up to the end of its batch (`Tiles`), that what
it has of the present one is a beginning of it (`Begins`), and, by a number for every
batch up to which it is read (`RowsRead`), that a batch is untouched, one reader's,
complete or dropped by a failure.

`ReadProofs` also proves, of `HandleQueries`, for any finite sets of names and wallets,
any requests, terms, page size, span of the ranges and changes by the scanner, under
`QueriesAssumption` (what is a number, that OG numbers are not shared, that a slot is
asked for without a page, and that no handle is older than `firstSlot`):

- `QueriesTrue`: whatever is saved, burnt, wiped and written back between the calls,
  every record of an answer is one its handle had since the request came, and matches
  what was asked for;
- `DefaultsHeld`: the default of an entry was since then in the wallet it was looked up
  for, and an entry that names another wallet names one that a handle of the first, as
  the request saw it, went to;
- `QuietExact`: where nothing was written and the indexes read were whole, the answer
  counts all matches, each match is on its page and at its place, and every holder has
  its number of handles and a default that `getDefaultHandle` may pick;
- `SlotSearchGapless`: under the same condition a search from a slot leaves out no match
  that comes before one it shows, and where no handle lies on the edge of a range it
  shows exactly the first page of them.

An answer is put together from several reads, and each of the invariants says, of
every point between two of them, what is kept of the reads before. `QueryInv` does so
for a store that changes: what was read is a list of things that were so at some time
since the request came (`TermsRead`, `NamesAsked`, `RecordsRead`, `WalletsRead`), which
no write can undo, because a history is only added to; that the records match is due
to the last filter, which is over the records and not over the indexes. `ExactInv` does
so for a store that stands still: the names left are those that match the terms read
so far, then the page of them, then their records, and of the holders first the lists
and then one default after another until none is to do. That the page is right is
arithmetic on places: the `n`-th of a finite, totally ordered set is the one with `n`
before it (`PageRanked`), and the orders of names, slots and list sizes are total.
`SlotInv` is about the loop over ranges (HR 332-364): slots are measured by how far they
are from the one asked for (`Away`), so that the two directions are one; the ranges
reach as far as a multiple of the span; up to there all handles are listed, in order
but for those on an edge, listed twice (section 6); and once the ranges are past the
last handle, or a page is full, nothing that is missing comes sooner than what is there.

`BlockStreamProofs` proves `StreamFollowsBlocks`: for any tree of blocks, any
transactions and any number of faults, both sources implement `BlockFollower`, as
long as the provider never leaves out the first event after the cursor
(`SkipsFirst = FALSE`; the code compares heights only between events, so that gap is
seen by nobody). The invariant says where the stream stands (`Watching`): the block
kept back is the last one told of and the child of the cursor, and before the first
event the stream is at the cursor.

`StreamStoreCorrect` proves, under the same condition and `LedgerAssumption`, that the
store is that of the cursor's block in every state, with Ogmios until it strays over a
block that failed, and with Demeter but for the handles of blocks a rollback left or
passed over, of which nothing is claimed; `StreamTypeCorrect` the types. The heart of it is no invariant but
one fact about a block (`StoreInv` adds only that the part received of the block kept
back is the first so many of its transactions): the net effect Demeter's branch applies
at once and the loop of the Ogmios service, transaction by transaction, both turn the
store of a block's parent into the store of the block, which is `Ledger`, handle by
handle, whatever the store has of the others.

`LocalRepairProofs` proves, for any repairs and readers, any number of blocks and
faults, under `RepairAssumption` (the tokens are distinct):

- `RepairTypeCorrect`;
- `RepairExcludesReaders`: while a journal is pending no reader is inside, and none
  was inside from before a repair to after it, whoever died in between.

- `NoHalfRepairUnjournaled`: the parts of the data differ in version only while a
  journal is pending;
- `RepairNeverRegresses`: no step of any repairer puts a part of the data back.

Three facts carry the second: a closed gate has no reader behind it; a journal has a closed
gate; and whoever is between closing the gate and opening it with the repair lease still
its own owns the gate, so that nobody else opened it since. The last two need to know what a repairer knows
(`DInv`): while the scanner's lease is its own the outputs it has read are still right
(`Current`), and while both leases are, the parts it has written are there (`SoFar`) and
its journal stands (`Journaled`). A repairer whose lease went to another may still have
a write under way; it is `Fenced` out.

`SnapshotImportProofs` also proves, of `BootstrapApis`, for any list of assets, page and
batch size, pools of workers and history of the chain, under `BootstrapAssumption`
(names, numbers that are not zero, and what a block may do to an asset):

- `BootstrapHeals`: a file an importer accepts holds no output its block does not
  have, and what it lacks of the assets listed is spent by a block still to be scanned;
- `BootstrapRoot`: where the chain stood still from the reading of the root to the last
  page, the script goes on to the outputs exactly if no registry label is held
  (`RootDecides`). Over such a chain no page is missed and no burnt asset counted; what
  makes it give up is a label, which section 6 reports (`LabelBlind`).

Neither looks at the order of the answers. Every answer is of a block not below the
lower tip, and from such a block one of two things is learnt of an asset: the output it
had at the file's block, or that it has changed since (`Known`); lemma `StoodBefore`
is the converse, that an output made by then and still there was there then. So it is
enough that nothing listed is lost between queue, request, its halves and the answer
(`AllAsked`), and that what is recorded was once true (`Truthful`). The pages need an
invariant of their own (`PagesRead`): up to the offset each place is read or awaited, so
that a page that is not full means the list is complete.

`SnapshotPublishProofs` proves, for any number of publishers, names, blocks and
faults:

- `PublishTypeCorrect`;
- `PublishedHealsCorrect`: a published file holds no output its slot does not have,
  and what it lacks of it is spent by a block still to be scanned;
- `PublishedImportsCorrect`: if it was verified it passes the importer's validation, and
  verified or not it has the minting data its outputs need.

So the lock, which is read in one call and set in another, is not what makes the
files good: they are good without it, because the cursor is read first and everything
above it is cut. The invariant `Fits` says of every prefix of the read (`ReadsFit`)
what the theorem says of a file (`FilesFit`), over a store that is at some pipeline of
a block (`StoreFits`, `MintsFit`) of a chain whose outputs are made once
(`ChainFits`); the lemmas `Missing` and `Earlier` are about the chain alone.

Recursive functions. `Ledger` and the loop in `InOrder` of `BlockStream` are recursive
functions, on blocks and on numbers. That they satisfy their equations, and what they
compute for every block, is proved by induction over sets: a set of numbers or blocks
that is closed under the step contains all of them, from `WFMin` of the library, since
the library's induction theorems take an operator as a parameter, which the provers at
hand do not instantiate (`SetInduction`, `BlockInduction`, and `UpwardFrom` for the
blocks and pages of `BootstrapApis`).

Only model-checked:

- every liveness property (`BlockCommits`, `IndexAndRootAreRebuilt`, `FetchEnds`,
  `ReachesTheTip`, `CatchesUp`, `RecoveryCompletes`, `ScannerCatchesUp`, `RunEnds`,
  `SearchEnds`): TLAPS proves nothing about ENABLED, on which fairness rests.

Every invariant and action property of the runs is a theorem.

## 5. Not modelled, and why

- The experimental undo journals (`workers/experimental*.mjs`,
  `stores/redis/experimentalUndoKeyImages.lua`) are started by no production entry
  point. Notes of reading them, should that change: a key of the set that was
  absent and stays absent makes the whole log impossible to undo; a key that was
  changed and changed back is not noticed; the undo script leaves the log in place.
- `lambdas/valkeyutility.ts` but for `reset_scanner` and `trigger_reindex`. The
  two commands that rewrite script types and subhandle settings take a 60 s
  `scanner:lease` that nothing renews, and their comments (724, 827) count on it for
  the whole run; the namespace commands rename or copy keys one by one.
  A model of them needs the namespaces of several deployments, which nothing else
  here has.
- Scripts, minting, IPFS, the MCP controller, `compareApiToKoios.ts`: single reads,
  formatting, no state of their own.
- The label trie: a library computes the root; the modules have the set it commits to.

Within the modelled parts: tokens of amount two or more (`Fewer` is there, but the
runs mint NFTs), key-hash forms, slot history, personalization, the content of a
snapshot chunk, the scan after an import, a release of the code while an invocation
of the one before it runs, the decision of one invocation between import, rollback
and repair, and what sections 2.4 to 2.10 name.

Observations without a property, from reading and from modelling:

- `ChainFollow`: the forward scan looks for what an answer leaves out ("Koios can return
  a shortened array", SC 1387) and does not pass a block it lacks, the reconciliation
  does neither: `asset_utxos` may be null or
  short (SC 876), the transactions of the repair are not counted (SC 922). Of an
  orphaned handle the old output and minting data are removed, nothing is added, and the
  cursor is snapped; without minting data the next move of the handle throws in every
  invocation.
- `KoiosFetch`: a failure that could be retried, found by one reader of a gated pool,
  is rethrown by `beforeStart` in the others (SC 472-474), so that their batches are
  not tried again.
- `BlockStream`: contiguity is checked by height alone; the branch of
  `utxorpc.service.ts` 196-198 cannot be reached; Ogmios indexes the collaterals of
  failed scripts, counts as burns only a quantity of exactly -1
  (`ogmios.service.ts` 305), does not look at a refused intersection though 48-49, 60
  and 68 count on a throw, and does not connect again by itself; the Demeter branch
  skips `checkRollback` (SC 1691-1695).
- `LocalRepair`: a repair that dies between closing the gate and its journal, or
  between `Finish` and `Open`, leaves a gate an operator must open (as
  `docs/spec/scanner-recovery-runbook.md` 80 says); a journal over an orphaned cursor
  stops the repair and the scanner until then; with a journal standing the scanner is
  stopped and the chain is not, so that after 64 blocks, or after a mint or burn of an
  owner token, every recovery is refused (`koiosRepairReader.ts` 32, 66, 101) and
  journal and gate stand (as the runbook says, 74); the model assumes no scanner that
  goes on after its lease went to another.
- `SnapshotPublish`: a file whose root did not agree is uploaded to both keys all the
  same (`snapshot.app.ts` 260-285), and no import accepts it (`docs/spec/index-model.md`
  70); the later upload wins the fixed key, so an older or an unverified file may replace
  a newer one; the verified flag is about the stored
  root, not about the set in the file.
- `BootstrapApis`: a page that shifts while it is read can hide an asset (the
  comparison of roots finds it); a mint row that is missing leaves an output without
  minting data (`BA` 669-672, 691, 793); a transaction without a row gives slot 0, and
  the importer refuses the file; a file cut by `PHASE4_MAX_ITEMS` still says verified.
- `HandleQueries`: an empty list in a POST body goes to the unfiltered branch
  (HR 197); handles whose name reads as a number are in no slot search (RS 478,
  HR 362); `firstSlot` is stored by the Ogmios service alone
  (`ogmios.service.ts` 87, 194), so that where the lambda scans, a slot search
  downwards with fewer matches than the page asks for never ends (HR 352); the body of a holder, and each entry of the list, pairs the
  address of the record read last with the default and count looked up for the wallet
  asked for (HR 802-829, 841-847): when that first handle moved between the calls, the
  address is its new wallet's, beside a default that was never there.

## 6. Where code and documents disagree

Each of these was found by TLC as a violation of a property that states the claim.
Those with a configuration of their own are run by hand with it:

| Configuration (module) | Property | What the code does | What is said |
|---|---|---|---|
| `LabelBurn` (`HandleIndexMC`) | `RegistryMatchesLedger` | `removeHandleLabel` reads inside the pipeline, gets nothing and returns (HR 66): the label of a burnt token stays | HR 61-63: "Drop one tracked label (001-004) from a surviving handle's registry set" |
| `MixedMint` (`HandleIndexMC`) | `MintingDataNeverUndefined` | an output with a new and an older handle is given the new one's minting data only (HR 639); the older one's read returns nothing and HR 1049 throws, now and in every later invocation | HR 1029: "mintingData from the index should never be undefined." |
| `VirtualHolder` (`HandleIndexMC`) | `HolderCountMatch` | HOLDER_COUNT of the holder a virtual handle's datum names is scored from an empty list (HR 981) | `docs/spec/index-model.md` 60: "Holder indexes and holder-count ranking update together." |
| `ResumeCounts` (`SnapshotImportMC`) | `ImportedCountsAreClean` | a resumed import scores HOLDER_COUNT from the chunks of its own invocation (RS 284-285) | `docs/spec/scanner-recovery-runbook.md` 291: a full reimport "produces a clean index automatically" |
| `ReindexOverlap` (`ScannerControlMC`) | `CutShortIsFlagged` | the rebuild blocks its own heartbeat, a shortcut reads the lease and no lock (SC 1594-1623): two rebuilds, the first to end clears the flag of both | `docs/spec/spec.md` 196: "If a run terminates mid-reindex, the next cron tick detects the flag" |
| `AutoSideload` (`ScannerControlMC`) | `AutoRunsWhatIsPending` | a deferring tick leaves for the flag or the schema, a sideload in auto mode looks at the schema alone (SC 1753) | SC 1743-1744: "'auto' runs whatever is pending" |
| `LabelBlind` (`BootstrapApisMC`) | `MismatchMeansMoved` | the script computes the root without labels (`BA` 713-717), so that a settings token of a handle (001, which it lists itself at 1077) makes a mismatch on a chain that stood still | `snapshotVerification.ts` 186-191: the compared root must be label-aware; `docs/spec/runtime-entrypoints.md` 47 |

The others are stated at the end of their module, and fail when they are added to
the run's configuration:

- `NothingJumped` (`ChainFollow`, run `follow`): the snap puts the cursor on the last
  canonical block before the orphaned anchor's slot, which may lie after the fork,
  and the probe for missed blocks is skipped just then (SC 795-829): canonical blocks
  in between are never scanned, though the comment there says that the forward scan
  "will naturally re-apply any handle activity in the window". `RecordsFollowChain`
  therefore leaves out the handles of such blocks, and those of orphaned burns and
  first mints, of a canonical output older than the record or than what the cursor
  passes over, of a repair cut short between removal and re-indexing, and of one that was
  not answered in full (`docs/spec/spec.md` 197 asks for more). `StoreFollowsCursor` of
  `BlockStream` leaves out the handles a rollback disturbed for the same reasons.
- `WholeOrRefused` (`HandleQueries`, run `queries`): the status is read after the
  body, and a rebuild that fails unlocks in its `finally` (SC 1062-1064), so that a
  body read from half an index goes out with 200, where HR 83-92 promises 503.
- `ListedOnce` (`HandleQueries`, run `queries`): the ranges of a slot search include
  both their ends, so that a handle on an edge is listed twice though nothing
  changed; `docs/swagger.yml` 371-374 says that takes a change.

## 7. Plan

Done: the modules of section 2. Left, in the order of what it would add:

1. `HandleIndex`: amounts above one with the replay of a burn (HR 965), the holder
   scores a rollback writes (SC 1004), orphaned companions in a passing run.
2. `SnapshotImport` over a valid starting point (`Recover`) with what the Ogmios
   service does next.
3. The namespace and script-type commands of `valkeyutility.ts`.
