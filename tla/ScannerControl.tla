--------------------------- MODULE ScannerControl ---------------------------
(***************************************************************************)
(* What keeps the derived index whole while scanner invocations overlap:   *)
(* the lease, the maintenance lock in the metrics, the recovery flag and   *)
(* the pending mark of the label root (lambdas/scanner.app.ts), and the    *)
(* index rebuild they guard (repopulateIndexesFromUTxOs).                  *)
(*                                                                         *)
(* A tick is an invocation of lambdaHandler: by cron, or by a request for  *)
(* the reindex shortcut.  A sideload is a run of runSideload; a publisher  *)
(* one of the snapshot handler, of which only the lock is modelled.  Each  *)
(* store call, or run of calls nobody else can tell apart, is a step; any  *)
(* process may die between two steps.                                      *)
(*                                                                         *)
(* The lease lasts 60 s.  The heartbeat that renews it is a timer of the   *)
(* tick, so it is silent while the rebuild's synchronous calls block the   *)
(* event loop; a sideload has none.  A lock is stale after ten minutes.    *)
(*                                                                         *)
(* Elsewhere or left out: the import (SnapshotImport; here the outputs     *)
(* are imported and of the current schema), the pipelines of a block       *)
(* (HandleIndex), checkRollback (scans follow the Demeter stream), and the *)
(* local repair's journal.                                                 *)
(***************************************************************************)
EXTENDS Naturals, Sequences

CONSTANTS
    Tick, Sideload, Publisher,  \* disjoint sets of processes
    Nobody,                     \* no holder: a free lease
    Dead,                       \* a holder that died and does not renew
    Handle,
    Chain,        \* block n moves, mints or burns one handle
    MaxEvents     \* bound: deaths, failures, shortcuts, snapshots and operator requests

Proc == Tick \union Sideload \union Publisher

ASSUME ControlAssumption ==
    /\ Chain \in Seq([handle : Handle, burnt : BOOLEAN])
    /\ MaxEvents \in Nat
    /\ Tick \intersect Sideload = {} /\ Tick \intersect Publisher = {}
    /\ Sideload \intersect Publisher = {}
    /\ Nobody \notin Proc /\ Dead \notin Proc /\ Nobody # Dead

VARIABLES
    \* the store
    lease,      \* SCANNER_LEASE_KEY
    lock,       \* metrics.lockLambdas
    recovery,   \* SCANNER_RECOVERY_KEY
    current,    \* is metrics.indexSchemaVersion that of the code?
    pending,    \* MPT_REBUILD_PENDING_KEY
    cursor,     \* metrics.currentSlot, as the number of blocks applied
    base,       \* the UTxO index: the block of each handle's output, 0 for none
    index,      \* the derived indexes: the block each handle's record is of, 0 for none
    root,       \* mpt_root_hash, as the set of handles it commits to
    \* the processes
    pc,
    frame,      \* the local variables of each
    \* outside
    defer,      \* KORA_SCANNER_DEFER_IMPORTS of this deployment
    old,        \* was the lock set more than ten minutes ago?
    locker,     \* who set the lock, Dead when nobody alive did
    events,
    \* history
    interfered, \* did anything but prompt cron ticks ever run?
    overlapped, \* were two processes ever at work on the index at once?
    died        \* did a tick die while it applied blocks?

guards == <<lease, lock, recovery, current, pending>>
data == <<cursor, base, index, root>>
history == <<interfered, overlapped, died>>
env == <<defer, old, locker, events>>
vars == <<guards, data, pc, frame, env, history>>

Block == 0..Len(Chain)
Lock == {"UNLOCKED", "SCANNING", "REINDEX", "SNAPSHOT"}

(* The stages of processReindex, of scan, and of the checks before them.   *)
Rebuilding == {"reindex", "relock", "wipe", "read", "write", "root", "stamp", "unflag"}
Scanning == {"scan", "apply", "finish", "rename", "reroot", "unpend"}
Checking == {"deferral", "lock", "flagging", "unlocking", "flag", "legacy", "schema"}
Stage == Rebuilding \union Scanning \union Checking
            \union {"down", "unlock", "release", "seen", "publish"}

(* The rebuild is synchronous from the first delete to the last write.     *)
Blocking == {"wipe", "read", "write"}

(* utxos: what the rebuild read.  todo: what it has yet to write.  names:  *)
(* the handles the root is built from.  start, last: the cursor the scan   *)
(* began at, and the last block it applied.  retry: rebuildPending.        *)
(* needed: the sideload's reindexNeeded.                                   *)
Frame == [utxos : [Handle -> Block], todo : SUBSET Handle, names : SUBSET Handle,
          start : Block, last : Block, retry : BOOLEAN, needed : BOOLEAN]

Nothing == [h \in Handle |-> 0]

Idle == [utxos |-> Nothing, todo |-> {}, names |-> {},
         start |-> 0, last |-> 0, retry |-> FALSE, needed |-> FALSE]

(* getKeysFromIndex(HANDLE). *)
Names(i) == {h \in Handle : i[h] # 0}

ControlTypeOK ==
    /\ lease \in Tick \union Sideload \union {Nobody, Dead}
    /\ lock \in Lock
    /\ recovery \in {"none", "rollback", "reindex"}
    /\ current \in BOOLEAN
    /\ pending \in BOOLEAN
    /\ cursor \in Block
    /\ base \in [Handle -> Block]
    /\ index \in [Handle -> Block]
    /\ root \in SUBSET Handle
    /\ pc \in [Proc -> Stage]
    /\ frame \in [Proc -> Frame]
    /\ defer \in BOOLEAN
    /\ old \in BOOLEAN
    /\ locker \in Proc \union {Dead}
    /\ events \in 0..MaxEvents
    /\ interfered \in BOOLEAN /\ overlapped \in BOOLEAN /\ died \in BOOLEAN

(* An index as the last release left it, of this schema or of the one      *)
(* before, maybe with the flag of an older release's failed rollback.      *)
ControlInit ==
    /\ lease = Nobody
    /\ lock = "UNLOCKED"
    /\ recovery \in {"none", "rollback"}
    /\ current \in BOOLEAN
    /\ pending = FALSE
    /\ cursor = 0
    /\ base = Nothing /\ index = Nothing /\ root = {}
    /\ pc = [p \in Proc |-> "down"]
    /\ frame = [p \in Proc |-> Idle]
    /\ defer \in BOOLEAN
    /\ old = FALSE /\ locker = Dead
    /\ events = 0
    /\ interfered = FALSE /\ overlapped = FALSE /\ died = FALSE

-----------------------------------------------------------------------------
(***************************************************************************)
(* Keys and stages.                                                        *)
(***************************************************************************)
(* At work: from the reading of the flag, or the decision to rebuild, to   *)
(* the last write of the rebuild or the scan.                              *)
Work == Rebuilding \union Scanning \union {"legacy", "schema"}

Goes(p, stage) ==
    /\ pc' = [pc EXCEPT ![p] = stage]
    /\ overlapped' = (overlapped \/ (stage \in Work /\ \E q \in Proc \ {p} : pc[q] \in Work))

SetFrame(p, f) == frame' = [frame EXCEPT ![p] = f]

(* To the finally clause; the local variables are used no more.            *)
Finish(p) == Goes(p, "unlock") /\ SetFrame(p, Idle)

SetLock(p, reason) == lock' = reason /\ locker' = p /\ old' = FALSE

Unlocked == lock' = "UNLOCKED" /\ locker' = Dead /\ old' = FALSE

Counted == events < MaxEvents /\ events' = events + 1

(* Block n applied to the outputs, or to the index.                        *)
After(n, i) == [i EXCEPT ![Chain[n].handle] = IF Chain[n].burnt THEN 0 ELSE n]

-----------------------------------------------------------------------------
(***************************************************************************)
(* lambdaHandler up to the rebuild or the scan.                            *)
(***************************************************************************)
(* acquireScannerLease; a tick that finds the lease taken is over.         *)
AcquireLease(p) ==
    /\ pc[p] = "down" /\ lease = Nobody
    /\ lease' = p
    /\ Goes(p, IF defer THEN "deferral" ELSE "lock")
    /\ UNCHANGED <<lock, recovery, current, pending, data, frame, env, interfered, died>>

(* The shortcut asks for the lease too, and for nothing else: a deferring  *)
(* deployment refuses it.                                                  *)
Shortcut(p) ==
    /\ pc[p] = "down" /\ lease = Nobody /\ Counted
    /\ lease' = p
    /\ Goes(p, IF defer THEN "release" ELSE "reindex")
    /\ interfered' = TRUE
    /\ UNCHANGED <<lock, recovery, current, pending, data, frame, defer, old, locker, died>>

(* Mutant: a lock is left for an operator however old it is. *)
CheckLockForEver(p) ==
    /\ pc[p] = "lock"
    /\ Goes(p, IF lock = "UNLOCKED" THEN "flag" ELSE "release")
    /\ UNCHANGED <<guards, data, frame, env, interfered, died>>

(* The scheduled scanner leaves pending heavy work to the sideload.        *)
CheckDeferral(p) ==
    /\ pc[p] = "deferral"
    /\ Goes(p, IF ~current \/ recovery = "reindex" THEN "release" ELSE "lock")
    /\ UNCHANGED <<guards, data, frame, env, interfered, died>>

CheckLock(p) ==
    /\ pc[p] = "lock"
    /\ Goes(p, IF lock = "UNLOCKED" THEN "flag"
               ELSE IF ~old THEN "release"
               ELSE IF lock = "REINDEX" THEN "flagging" ELSE "unlocking")
    /\ UNCHANGED <<guards, data, frame, env, interfered, died>>

(* clearStaleLockIfNeeded: the flag before the lock.                       *)
FlagStaleReindex(p) ==
    /\ pc[p] = "flagging"
    /\ recovery' = "reindex"
    /\ Goes(p, "unlocking")
    /\ UNCHANGED <<lease, lock, current, pending, data, frame, env, interfered, died>>

ClearStaleLock(p) ==
    /\ pc[p] = "unlocking"
    /\ Unlocked
    /\ Goes(p, "flag")
    /\ UNCHANGED <<lease, recovery, current, pending, data, frame, defer, events, interfered, died>>

CheckFlag(p) ==
    /\ pc[p] = "flag"
    /\ Goes(p, CASE recovery = "none" -> "schema"
                 [] recovery = "rollback" -> "legacy"
                 [] recovery = "reindex" -> "reindex")
    /\ UNCHANGED <<guards, data, frame, env, interfered, died>>

(* Mutant: the schema version is not looked at. *)
CheckNoSchema(p) ==
    /\ pc[p] = "schema"
    /\ Goes(p, "scan")
    /\ UNCHANGED <<guards, data, frame, env, interfered, died>>

ClearRollbackFlag(p) ==
    /\ pc[p] = "legacy"
    /\ recovery' = "none"
    /\ Goes(p, "schema")
    /\ UNCHANGED <<lease, lock, current, pending, data, frame, env, interfered, died>>

(* Mutant: the lease is deleted without comparing its owner. *)
ReleaseAnyLease(p) ==
    /\ pc[p] = "release"
    /\ lease' = Nobody
    /\ Goes(p, "down")
    /\ UNCHANGED <<lock, recovery, current, pending, data, frame, env, interfered, died>>

CheckSchema(p) ==
    /\ pc[p] = "schema"
    /\ Goes(p, IF current THEN "scan" ELSE "reindex")
    /\ UNCHANGED <<guards, data, frame, env, interfered, died>>

ReleaseLease(p) ==
    /\ pc[p] = "release"
    /\ lease' = IF lease = p THEN Nobody ELSE lease
    /\ Goes(p, "down")
    /\ UNCHANGED <<lock, recovery, current, pending, data, frame, env, interfered, died>>

(* The finally of processReindex and scan.                                 *)
Unlock(p) ==
    /\ pc[p] = "unlock"
    /\ Unlocked
    /\ Goes(p, "release")
    /\ UNCHANGED <<lease, recovery, current, pending, data, frame, defer, events, interfered, died>>

-----------------------------------------------------------------------------
(***************************************************************************)
(* processReindex, with repopulateIndexesFromUTxOs and                     *)
(* buildAndStoreMptRootHash.                                               *)
(***************************************************************************)
SetFlag(p) ==
    /\ pc[p] = "reindex"
    /\ recovery' = "reindex"
    /\ Goes(p, "relock")
    /\ UNCHANGED <<lease, lock, current, pending, data, frame, env, interfered, died>>

LockReindex(p) ==
    /\ pc[p] = "relock"
    /\ SetLock(p, "REINDEX")
    /\ Goes(p, "wipe")
    /\ UNCHANGED <<lease, recovery, current, pending, data, frame, defer, events, interfered, died>>

(* Every index but UTXO, UTXO_SLOT and MINT.                               *)
WipeIndex(p) ==
    /\ pc[p] = "wipe"
    /\ index' = Nothing
    /\ Goes(p, "read")
    /\ UNCHANGED <<guards, cursor, base, root, frame, env, interfered, died>>

ReadUtxos(p) ==
    /\ pc[p] = "read"
    /\ SetFrame(p, [frame[p] EXCEPT !.utxos = base, !.todo = Names(base)])
    /\ Goes(p, "write")
    /\ UNCHANGED <<guards, data, env, interfered, died>>

(* A pipeline of outputs, as large as a chunk or smaller.                  *)
WriteChunk(p) ==
    /\ pc[p] = "write"
    /\ \E h \in frame[p].todo :
        /\ index' = [index EXCEPT ![h] = frame[p].utxos[h]]
        /\ SetFrame(p, [frame[p] EXCEPT !.todo = @ \ {h}])
    /\ Goes(p, "write")
    /\ UNCHANGED <<guards, cursor, base, root, env, interfered, died>>

ReadNames(p) ==
    /\ \/ pc[p] = "write" /\ frame[p].todo = {} /\ Goes(p, "root")
       \/ pc[p] = "rename" /\ Goes(p, "reroot")
    /\ SetFrame(p, [Idle EXCEPT !.names = Names(index), !.retry = frame[p].retry])
    /\ UNCHANGED <<guards, data, env, interfered, died>>

StoreRoot(p) ==
    /\ \/ pc[p] = "root" /\ Goes(p, "stamp")
       \/ pc[p] = "reroot" /\ Goes(p, IF frame[p].retry THEN "unpend" ELSE "unlock")
    /\ root' = frame[p].names
    /\ SetFrame(p, Idle)
    /\ UNCHANGED <<guards, cursor, base, index, env, interfered, died>>

StampSchema(p) ==
    /\ pc[p] = "stamp"
    /\ current' = TRUE
    /\ Goes(p, "unflag")
    /\ UNCHANGED <<lease, lock, recovery, pending, data, frame, env, interfered, died>>

ClearFlag(p) ==
    /\ pc[p] = "unflag"
    /\ recovery' = "none"
    /\ Finish(p)
    /\ UNCHANGED <<lease, lock, current, pending, data, env, interfered, died>>

(* Mutant: the flag is cleared in the finally clause, with the lock. *)
FailAndClear(p) ==
    /\ pc[p] \in {"wipe", "read", "write", "root", "stamp", "unflag"} /\ Counted
    /\ recovery' = "none"
    /\ Finish(p)
    /\ UNCHANGED <<lease, lock, current, pending, data, defer, old, locker, interfered, died>>

(* A call throws: the flag stays, the lock goes.                           *)
FailRebuild(p) ==
    /\ pc[p] \in {"wipe", "read", "write", "root", "stamp", "unflag"} /\ Counted
    /\ Finish(p)
    /\ UNCHANGED <<guards, data, defer, old, locker, interfered, died>>

-----------------------------------------------------------------------------
(***************************************************************************)
(* scan.                                                                   *)
(***************************************************************************)
BeginScan(p) ==
    /\ pc[p] = "scan"
    /\ SetLock(p, "SCANNING")
    /\ SetFrame(p, [frame[p] EXCEPT !.start = cursor, !.last = cursor])
    /\ Goes(p, "apply")
    /\ UNCHANGED <<lease, recovery, current, pending, data, defer, events, interfered, died>>

(* processScannerBlock, its cursor last.                                   *)
ApplyBlock(p) ==
    LET n == frame[p].last + 1 IN
    /\ pc[p] = "apply" /\ n \in Block
    /\ base' = After(n, base) /\ index' = After(n, index)
    /\ cursor' = n
    /\ SetFrame(p, [frame[p] EXCEPT !.last = n])
    /\ Goes(p, "apply")
    /\ UNCHANGED <<guards, root, env, interfered, died>>

(* The end of the stream, the deadline, a pause or an error.               *)
StopScan(p) ==
    /\ pc[p] = "apply"
    /\ Goes(p, "finish")
    /\ UNCHANGED <<guards, data, frame, env, interfered, died>>

(* slotChanged and rebuildPending.                                         *)
FinishScan(p) ==
    /\ pc[p] = "finish"
    /\ SetFrame(p, [Idle EXCEPT !.retry = pending])
    /\ Goes(p, IF cursor # frame[p].start \/ pending THEN "rename" ELSE "unlock")
    /\ UNCHANGED <<guards, data, env, interfered, died>>

ClearPending(p) ==
    /\ pc[p] = "unpend"
    /\ pending' = FALSE
    /\ Finish(p)
    /\ UNCHANGED <<lease, lock, recovery, current, data, env, interfered, died>>

(* Mutant: the failure is logged and forgotten. *)
FailAndForget(p) ==
    /\ pc[p] \in {"rename", "reroot", "unpend"} /\ Counted
    /\ Finish(p)
    /\ UNCHANGED <<guards, data, defer, old, locker, interfered, died>>

(* The root cannot be built or stored: a later invocation retries.         *)
FailRoot(p) ==
    /\ pc[p] \in {"rename", "reroot", "unpend"} /\ Counted
    /\ pending' = TRUE
    /\ Finish(p)
    /\ UNCHANGED <<lease, lock, recovery, current, data, defer, old, locker, interfered, died>>

-----------------------------------------------------------------------------
(***************************************************************************)
(* The other processes, and the world.                                     *)
(***************************************************************************)
(* runSideload looks before it asks for the lease, ...                     *)
DetectSideload(p) ==
    /\ pc[p] = "down" /\ Counted
    /\ SetFrame(p, [Idle EXCEPT !.needed = ~current])
    /\ Goes(p, "seen")
    /\ UNCHANGED <<guards, data, defer, old, locker, interfered, died>>

(* ... throws without it, ...                                              *)
RefuseSideload(p) ==
    /\ pc[p] = "seen" /\ lease # Nobody
    /\ Goes(p, "down")
    /\ SetFrame(p, Idle)
    /\ UNCHANGED <<guards, data, env, interfered, died>>

(* ... and rebuilds when told to ("reindex", "both") or when it has seen   *)
(* the need ("auto").  It reads neither the lock nor the flag.             *)
RunSideload(p, mode) ==
    /\ pc[p] = "seen" /\ lease = Nobody
    /\ lease' = p
    /\ Goes(p, IF mode = "reindex" \/ frame[p].needed THEN "reindex" ELSE "release")
    /\ SetFrame(p, Idle)
    /\ interfered' = TRUE
    /\ UNCHANGED <<lock, recovery, current, pending, data, env, died>>

(* The snapshot handler reads the lock, ...                                *)
WaitForUnlocked(p) ==
    /\ pc[p] = "down" /\ lock = "UNLOCKED" /\ Counted
    /\ Goes(p, "seen")
    /\ UNCHANGED <<guards, data, frame, defer, old, locker, interfered, died>>

(* ... sets it, whoever has set it since, ...                              *)
LockSnapshot(p) ==
    /\ pc[p] = "seen"
    /\ SetLock(p, "SNAPSHOT")
    /\ Goes(p, "publish")
    /\ interfered' = TRUE
    /\ UNCHANGED <<lease, recovery, current, pending, data, frame, defer, events, died>>

(* ... and clears it, whoever's it is by then.                             *)
UnlockSnapshot(p) ==
    /\ pc[p] = "publish"
    /\ Unlocked
    /\ Goes(p, "down")
    /\ UNCHANGED <<lease, recovery, current, pending, data, frame, defer, events, interfered, died>>

(* The operator's trigger_reindex.                                         *)
TriggerReindex ==
    /\ recovery # "reindex" /\ Counted
    /\ recovery' = "reindex"
    /\ UNCHANGED <<lease, lock, current, pending, data, pc, frame, defer, old, locker, history>>

(* The time to live ends: its holder is gone, is a sideload, or cannot     *)
(* run its heartbeat.                                                      *)
ExpireLease ==
    /\ \/ lease = Dead
       \/ lease \in Sideload
       \/ lease \in Tick /\ pc[lease] \in Blocking
    /\ lease' = Nobody
    /\ UNCHANGED <<lock, recovery, current, pending, data, pc, frame, env, history>>

(* Ten minutes pass over a lock nobody will clear, ...                     *)
LockAges ==
    /\ lock # "UNLOCKED" /\ ~old /\ locker = Dead
    /\ old' = TRUE
    /\ UNCHANGED <<guards, data, pc, frame, defer, locker, events, history>>

(* ... or over an invocation that takes that long.                         *)
LockAgesEarly ==
    /\ lock # "UNLOCKED" /\ ~old /\ locker # Dead /\ Counted
    /\ old' = TRUE
    /\ interfered' = TRUE
    /\ UNCHANGED <<guards, data, pc, frame, defer, locker, overlapped, died>>

(* The process is killed at once, out of memory or out of time.            *)
Die(p) ==
    /\ pc[p] # "down" /\ Counted
    /\ Goes(p, "down")
    /\ SetFrame(p, Idle)
    /\ lease' = IF lease = p THEN Dead ELSE lease
    /\ locker' = IF locker = p THEN Dead ELSE locker
    /\ died' = (died \/ pc[p] \in Scanning)
    /\ UNCHANGED <<lock, recovery, current, pending, data, defer, old, interfered>>

-----------------------------------------------------------------------------
Rebuild(p) ==
    \/ SetFlag(p) \/ LockReindex(p) \/ WipeIndex(p) \/ ReadUtxos(p) \/ WriteChunk(p)
    \/ ReadNames(p) \/ StoreRoot(p) \/ StampSchema(p) \/ ClearFlag(p)
    \/ Unlock(p) \/ ReleaseLease(p)

ScanStep(p) ==
    BeginScan(p) \/ ApplyBlock(p) \/ StopScan(p) \/ FinishScan(p) \/ ClearPending(p)

(* A cron tick, once it has the lease.                                     *)
TickStep(p) ==
    \/ AcquireLease(p) \/ CheckDeferral(p) \/ CheckLock(p) \/ FlagStaleReindex(p)
    \/ ClearStaleLock(p) \/ CheckFlag(p) \/ ClearRollbackFlag(p) \/ CheckSchema(p)
    \/ Rebuild(p) \/ ScanStep(p)

SideloadStep(p) ==
    RefuseSideload(p) \/ (\E mode \in {"auto", "reindex"} : RunSideload(p, mode)) \/ Rebuild(p)

PublisherStep(p) == LockSnapshot(p) \/ UnlockSnapshot(p)

ControlNext ==
    \/ \E p \in Tick : TickStep(p) \/ Shortcut(p) \/ FailRoot(p)
    \/ \E p \in Sideload : DetectSideload(p) \/ SideloadStep(p)
    \/ \E p \in Publisher : WaitForUnlocked(p) \/ PublisherStep(p)
    \/ \E p \in Tick \union Sideload : FailRebuild(p)
    \/ \E p \in Proc : Die(p)
    \/ TriggerReindex \/ ExpireLease \/ LockAges \/ LockAgesEarly

(* Cron starts ticks for ever, what runs goes on, and time passes.         *)
ControlFairness ==
    /\ \A p \in Tick : WF_vars(TickStep(p))
    /\ \A p \in Sideload : WF_vars(SideloadStep(p))
    /\ \A p \in Publisher : WF_vars(PublisherStep(p))
    /\ WF_vars(lease = Dead /\ ExpireLease) /\ WF_vars(LockAges)

ControlSafety == ControlInit /\ [][ControlNext]_vars
ControlSpec == ControlSafety /\ ControlFairness

-----------------------------------------------------------------------------
(***************************************************************************)
(* Properties.                                                             *)
(***************************************************************************)
Quiet == \A p \in Proc : pc[p] \notin Work

(* The lease and the lock together keep ticks apart although the lease     *)
(* lapses in every long rebuild, as long as nothing but ticks that end in  *)
(* time touches them.                                                      *)
TicksExcludeEachOther == ~interfered => ~overlapped

(* A derived index that does not stand for the outputs is always flagged   *)
(* for a rebuild, whoever died where: no tick scans on over it.            *)
PartialIndexIsFlagged == ~overlapped /\ index # base => recovery = "reindex"

(* A scan works on a whole index of this schema.                           *)
ScansWholeIndex ==
    \A p \in Proc : ~overlapped /\ pc[p] \in Scanning => index = base /\ current

(* At rest the stored label root is that of the index, or is marked to be  *)
(* rebuilt, unless a tick died between a block and the root.               *)
RootMatchesAtRest ==
    Quiet /\ ~overlapped /\ ~died /\ root # Names(index) => pending \/ recovery = "reindex"

(* A partial index is rebuilt without an operator, whatever died or failed *)
(* on the way.                                                             *)
PartialIndexIsRebuilt == ~defer /\ index # base ~> index = base \/ overlapped

(* A stale root is rebuilt, in this invocation or in a later one.          *)
RootIsRebuilt == ~defer /\ ~died /\ root # Names(index) ~> root = Names(index) \/ overlapped \/ died

(* Whatever a dead or failed invocation leaves undone is done in the end.  *)
IndexAndRootAreRebuilt == PartialIndexIsRebuilt /\ RootIsRebuilt

(* A run cut short in the middle of a rebuild leaves the flag for the next *)
(* tick to find, with no exception for overlaps (docs/spec/spec.md).       *)
CutShortIsFlagged == Quiet /\ index # base => recovery = "reindex"

(* A sideload in auto mode that runs nothing leaves nothing pending of     *)
(* what makes the scheduled scanner wait for it.                           *)
AutoRunsWhatIsPending ==
    [][ \A p \in Sideload :
            pc[p] = "seen" /\ pc'[p] = "release" => current /\ recovery # "reindex" ]_vars
=============================================================================
