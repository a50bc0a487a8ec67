--------------------------- MODULE SnapshotPublish ---------------------------
(***************************************************************************)
(* The snapshot handler (lambdas/snapshot.app.ts) beside the scanner: it   *)
(* takes the lock, reads the store call after call, verifies the stored    *)
(* root against the stored datum of the chain's root, and uploads one file *)
(* under the fixed key that imports read and one into the archive.         *)
(*                                                                         *)
(* The lock is read in one call and set in another, by publishers and by   *)
(* the scanner alike, a tick clears it after ten minutes whoever works,    *)
(* and the scanner may be in the middle of a block or have died there.  So *)
(* the calls of the read meet any state of the store, and what is left to  *)
(* ask is whether a file is good for what it is read for: an import of it, *)
(* scanned on from its slot, must give the chain's state.                  *)
(*                                                                         *)
(* A slot is the number of a block.  An output is the slot of its block,   *)
(* and a name has one output or none: chain[k] tells the output of each    *)
(* name after block k, 0 for none.  A root stands for the set of names it  *)
(* was built from.                                                         *)
(***************************************************************************)
EXTENDS Integers, Sequences, FiniteSets

CONSTANTS
    Publishers, Names,
    Genesis,       \* the outputs the store was imported with, at slot 1
    MaxBlocks,     \* length of the chain
    MaxRuns,       \* invocations of the handler
    MaxFaults      \* deaths, failed uploads, handlers that take over ten minutes

None == "none"
NoRoot == {None}
Free == "unlocked"

ASSUME PublishAssumption ==
    /\ Genesis \in [Names -> {0, 1}]
    /\ MaxBlocks \in Nat \ {0} /\ MaxRuns \in Nat /\ MaxFaults \in Nat
    /\ None \notin Names

VARIABLES
    chain,
    cursor, utxos, mints, names, datum, root, ledger,   \* the store
    lock, stale,           \* stale: the lock's timestamp is over ten minutes old
    scanner, moved,        \* moved: the cursor has moved in this tick
    publisher,
    fixed, archive,        \* the object store: under the fixed key a file or none
    late,                  \* uploads nobody waits for
    runs, faults

store == <<cursor, utxos, mints, names, datum, root, ledger>>
objects == <<fixed, archive, late>>
vars == <<chain, store, lock, stale, scanner, moved, publisher, objects, runs, faults>>

-----------------------------------------------------------------------------
OutputsAt(k) == {o \in Names \X (1 .. k) : chain[k][o[1]] = o[2]}
NamesAt(k) == {n \in Names : chain[k][n] # 0}
Minted(k) == {n \in NamesAt(k) : k > 1 => chain[k - 1][n] = 0}
Burnt(k) == NamesAt(k - 1) \ NamesAt(k)
Created(k) == {o \in OutputsAt(k) : o[2] = k}

Reads == {"idle", "set", "metrics", "names", "outputs", "more", "mints",
          "root", "datum", "upload", "prune", "unlock"}
Idle == [at |-> "idle", slot |-> 0, names |-> {}, ledger |-> {}, got |-> {}, left |-> {},
         mints |-> {}, root |-> {}, verified |-> FALSE, awaited |-> {}]
Keys == {"fixed", "archive"}
Fault == faults < MaxFaults /\ faults' = faults + 1

Init ==
    /\ chain = <<Genesis>> /\ cursor = 1
    /\ utxos = OutputsAt(1) /\ mints = {<<n, 1>> : n \in NamesAt(1)}
    /\ names = NamesAt(1) /\ datum = NamesAt(1) /\ root = NoRoot /\ ledger = {1}
    /\ lock = Free /\ stale = FALSE /\ scanner = "off" /\ moved = FALSE
    /\ publisher = [p \in Publishers |-> Idle]
    /\ fixed = {} /\ archive = {} /\ late = {}
    /\ runs = 0 /\ faults = 0

(* A block moves, mints and burns.  The datum of the chain's root is       *)
(* rewritten by the transactions that mint and burn.                       *)
Grow ==
    /\ Len(chain) < MaxBlocks
    /\ \E outs \in [Names -> 0 .. Len(chain) + 1] :
          /\ \A n \in Names : outs[n] \in {0, chain[Len(chain)][n], Len(chain) + 1}
          /\ chain' = Append(chain, outs)
    /\ UNCHANGED <<store, lock, stale, scanner, moved, publisher, objects, runs, faults>>

-----------------------------------------------------------------------------
(***************************************************************************)
(* The scanner: a tick, its blocks, the root.                              *)
(***************************************************************************)
Ticks(to) == scanner' = to
LateUnlessSnapshot == stale /\ lock # "snapshot"        \* a mutant: a timeout is missing
Clearable == stale
Tick ==
    /\ scanner = "off" /\ moved' = FALSE
    /\ \/ lock = Free /\ Ticks("begin")
       \/ lock # Free /\ Clearable /\ Ticks("clear")
    /\ UNCHANGED <<chain, store, lock, stale, publisher, objects, runs, faults>>
ClearStaleLock ==
    /\ scanner = "clear" /\ Ticks("begin") /\ lock' = Free
    /\ UNCHANGED <<chain, store, stale, moved, publisher, objects, runs, faults>>
LockScanning ==
    /\ scanner = "begin" /\ Ticks("next")
    /\ lock' = "scanning" /\ stale' = FALSE
    /\ UNCHANGED <<chain, store, moved, publisher, objects, runs, faults>>

More == cursor < Len(chain)
BurnHandles ==
    /\ scanner = "next" /\ More /\ Ticks("mint")
    /\ names' = names \ Burnt(cursor + 1)
    /\ UNCHANGED <<chain, cursor, utxos, mints, datum, root, ledger, lock, stale, moved,
                   publisher, objects, runs, faults>>
SlotAfter == cursor + 2                  \* a mutant: the slot of a later block
BlockSlot == cursor + 1
AddMintData ==
    /\ scanner = "mint" /\ Ticks("outputs")
    /\ mints' = mints \union {<<n, BlockSlot>> : n \in Minted(cursor + 1)}
    /\ UNCHANGED <<chain, cursor, utxos, names, datum, root, ledger, lock, stale, moved,
                   publisher, objects, runs, faults>>
AddOutputs ==
    /\ scanner = "outputs" /\ Ticks("spend")
    /\ utxos' = utxos \union Created(cursor + 1)
    /\ names' = names \union {o[1] : o \in Created(cursor + 1)}
    /\ datum' = NamesAt(cursor + 1)
    /\ UNCHANGED <<chain, cursor, mints, root, ledger, lock, stale, moved,
                   publisher, objects, runs, faults>>
RemoveSpent ==
    /\ scanner = "spend" /\ Ticks("commit")
    /\ utxos' = utxos \ (OutputsAt(cursor) \ OutputsAt(cursor + 1))
    /\ UNCHANGED <<chain, cursor, mints, names, datum, root, ledger, lock, stale, moved,
                   publisher, objects, runs, faults>>
Commit ==
    /\ scanner = "commit" /\ Ticks("record")
    /\ cursor' = cursor + 1 /\ moved' = TRUE
    /\ UNCHANGED <<chain, utxos, mints, names, datum, root, ledger, lock, stale,
                   publisher, objects, runs, faults>>
Record ==
    /\ scanner = "record" /\ Ticks("next")
    /\ ledger' = ledger \union {cursor}
    /\ UNCHANGED <<chain, cursor, utxos, mints, names, datum, root, lock, stale, moved,
                   publisher, objects, runs, faults>>
BuildRoot ==
    /\ scanner = "next" /\ Ticks("unlock")
    /\ root' = IF moved THEN names ELSE root
    /\ UNCHANGED <<chain, cursor, utxos, mints, names, datum, ledger, lock, stale, moved,
                   publisher, objects, runs, faults>>
EndTick ==
    /\ scanner = "unlock" /\ Ticks("off") /\ lock' = Free
    /\ UNCHANGED <<chain, store, stale, moved, publisher, objects, runs, faults>>
ScannerDies ==
    /\ scanner # "off" /\ Fault /\ Ticks("off")
    /\ UNCHANGED <<chain, store, lock, stale, moved, publisher, objects, runs>>

(* Ten minutes pass over a lock whose holder is dead, or works too long. *)
Working == scanner \notin {"off", "clear", "begin"} \/ \E p \in Publishers : publisher[p].at # "idle"
Dawdle ==
    /\ lock # Free /\ ~stale /\ stale' = TRUE
    /\ IF Working THEN Fault ELSE UNCHANGED faults
    /\ UNCHANGED <<chain, store, lock, scanner, moved, publisher, objects, runs>>

-----------------------------------------------------------------------------
(***************************************************************************)
(* The handler.                                                            *)
(***************************************************************************)
At(p, step) == publisher[p].at = step
Goes(p, step) == publisher' = [publisher EXCEPT ![p].at = step]

(* waitForUnlockedLambdas: one that finds the lock taken five times skips. *)
WaitForUnlocked(p) ==
    /\ At(p, "idle") /\ lock = Free /\ runs < MaxRuns /\ runs' = runs + 1
    /\ publisher' = [publisher EXCEPT ![p] = [Idle EXCEPT !.at = "set"]]
    /\ UNCHANGED <<chain, store, lock, stale, scanner, moved, objects, faults>>
LockSnapshot(p) ==
    /\ At(p, "set") /\ Goes(p, "metrics")
    /\ lock' = "snapshot" /\ stale' = FALSE
    /\ UNCHANGED <<chain, store, scanner, moved, objects, runs, faults>>

(* getRedisItems *)
Reading == <<chain, store, lock, stale, scanner, moved, objects, runs, faults>>
ReadMetrics(p) ==
    /\ At(p, "metrics")
    /\ publisher' = [publisher EXCEPT ![p].at = "names", ![p].slot = cursor]
    /\ UNCHANGED Reading
ReadNames(p) ==
    /\ At(p, "names")
    /\ publisher' = [publisher EXCEPT ![p].at = "outputs", ![p].names = names,
          ![p].ledger = {b \in ledger : b <= publisher[p].slot}]
    /\ UNCHANGED Reading

(* SCAN: a page of the outputs there are, and then the others that are     *)
(* still there, and those added meanwhile.                                 *)
Newest(p, outputs) == outputs            \* a mutant: no cut at the slot
Cut(p, outputs) == {o \in outputs : o[2] <= publisher[p].slot}
ReadOutputs(p) ==
    /\ At(p, "outputs")
    /\ \E page \in SUBSET utxos :
          publisher' = [publisher EXCEPT ![p].at = "more", ![p].got = Cut(p, page),
                                         ![p].left = utxos \ page]
    /\ UNCHANGED Reading
Unread(p) == {o \in utxos : o \in publisher[p].left \/ o[2] > publisher[p].slot}
ReadMore(p) ==
    /\ At(p, "more")
    /\ publisher' = [publisher EXCEPT ![p].at = "mints", ![p].left = {},
          ![p].got = publisher[p].got \union Cut(p, Unread(p))]
    /\ UNCHANGED Reading
ReadMints(p) ==
    /\ At(p, "mints")
    /\ publisher' = [publisher EXCEPT ![p].at = "root",
          ![p].mints = {m \in mints : m[2] <= publisher[p].slot}]
    /\ UNCHANGED Reading

(* buildSnapshotVerification: the stored root, or without one that of the  *)
(* names read before; then the datum.                                      *)
ReadRoot(p) ==
    /\ At(p, "root")
    /\ publisher' = [publisher EXCEPT ![p].at = "datum",
          ![p].root = IF root = NoRoot THEN publisher[p].names ELSE root]
    /\ UNCHANGED Reading
Agrees(p) == publisher[p].root = datum
Verify(p) ==
    /\ At(p, "datum")
    /\ publisher' = [publisher EXCEPT ![p].at = "upload", ![p].awaited = Keys,
          ![p].verified = Agrees(p)]
    /\ UNCHANGED Reading

FileOfNow(p) ==      \* a mutant: the metrics are read when the file is written
    [slot |-> cursor, utxos |-> publisher[p].got, mints |-> publisher[p].mints,
     ledger |-> publisher[p].ledger, verified |-> publisher[p].verified]
File(p) == [slot |-> publisher[p].slot, utxos |-> publisher[p].got, mints |-> publisher[p].mints,
            ledger |-> publisher[p].ledger, verified |-> publisher[p].verified]
Put(key, file) ==
    /\ fixed' = IF key = "fixed" THEN {file} ELSE fixed
    /\ archive' = IF key = "archive" THEN archive \union {file} ELSE archive
(* Both are under way at once; the first failure ends the handler, and the *)
(* other upload goes on.                                                   *)
Upload(p) ==
    /\ At(p, "upload")
    /\ \E key \in publisher[p].awaited :
          /\ Put(key, File(p))
          /\ publisher' = [publisher EXCEPT ![p].awaited = @ \ {key},
                ![p].at = IF publisher[p].awaited = {key} THEN "prune" ELSE "upload"]
    /\ UNCHANGED <<chain, store, lock, stale, scanner, moved, late, runs, faults>>
UploadFails(p) ==
    /\ At(p, "upload") /\ Fault
    /\ \E key \in publisher[p].awaited :
          late' = late \union {<<other, File(p)>> : other \in publisher[p].awaited \ {key}}
    /\ publisher' = [publisher EXCEPT ![p].at = "unlock", ![p].awaited = {}]
    /\ UNCHANGED <<chain, store, lock, stale, scanner, moved, fixed, archive, runs>>
Lands ==
    /\ \E upload \in late : Put(upload[1], upload[2]) /\ late' = late \ {upload}
    /\ UNCHANGED <<chain, store, lock, stale, scanner, moved, publisher, runs, faults>>

(* Any file but the one just written may be five days old. *)
Prune(p) ==
    /\ At(p, "prune") /\ Goes(p, "unlock")
    /\ \E old \in SUBSET (archive \ {File(p)}) : archive' = archive \ old
    /\ UNCHANGED <<chain, store, lock, stale, scanner, moved, fixed, late, runs, faults>>

(* finally: whoever's the lock is by now. *)
Unlock(p) ==
    /\ At(p, "unlock") /\ lock' = Free
    /\ publisher' = [publisher EXCEPT ![p] = Idle]
    /\ UNCHANGED <<chain, store, stale, scanner, moved, objects, runs, faults>>
(* A call of the read or the verification throws. *)
Throws(p) ==
    /\ publisher[p].at \in Reads \ {"idle", "set", "upload", "prune", "unlock"}
    /\ Fault /\ Goes(p, "unlock")
    /\ UNCHANGED <<chain, store, lock, stale, scanner, moved, objects, runs>>
PublisherDies(p) ==
    /\ publisher[p].at # "idle" /\ Fault
    /\ late' = late \union {<<key, File(p)>> : key \in publisher[p].awaited}
    /\ publisher' = [publisher EXCEPT ![p] = Idle]
    /\ UNCHANGED <<chain, store, lock, stale, scanner, moved, fixed, archive, runs>>

-----------------------------------------------------------------------------
Applies == BurnHandles \/ AddMintData \/ AddOutputs \/ RemoveSpent \/ Commit \/ Record
Scans == ClearStaleLock \/ LockScanning \/ Applies \/ BuildRoot \/ EndTick
ReadsStore(p) ==
    ReadMetrics(p) \/ ReadNames(p) \/ ReadOutputs(p) \/ ReadMore(p) \/ ReadMints(p)
Publishes(p) ==
    \/ LockSnapshot(p) \/ ReadsStore(p) \/ ReadRoot(p) \/ Verify(p)
    \/ Upload(p) \/ Prune(p) \/ Unlock(p)
Next ==
    \/ Grow \/ Tick \/ Scans \/ ScannerDies \/ Dawdle \/ Lands
    \/ \E p \in Publishers :
          WaitForUnlocked(p) \/ Publishes(p) \/ UploadFails(p) \/ Throws(p) \/ PublisherDies(p)

(* The timer ticks every minute, and the snapshots leave it room. *)
Fairness ==
    /\ SF_vars(Tick) /\ WF_vars(ClearStaleLock \/ LockScanning \/ EndTick)
    /\ SF_vars(BurnHandles) /\ WF_vars(Applies) /\ WF_vars(~More /\ BuildRoot)
    /\ WF_vars(~Working /\ Dawdle)
    /\ \A p \in Publishers : WF_vars(Publishes(p))
Spec == Init /\ [][Next]_vars /\ Fairness

-----------------------------------------------------------------------------
Outputs == Names \X (1 .. MaxBlocks)
Files == [slot : 0 .. MaxBlocks, utxos : SUBSET Outputs, mints : SUBSET Outputs,
          ledger : SUBSET (1 .. MaxBlocks), verified : BOOLEAN]
PublisherStates ==
    [at : Reads, slot : 0 .. MaxBlocks, names : SUBSET Names, ledger : SUBSET (1 .. MaxBlocks),
     got : SUBSET Outputs, left : SUBSET Outputs, mints : SUBSET Outputs,
     root : (SUBSET Names) \union {NoRoot}, verified : BOOLEAN, awaited : SUBSET Keys]
TypeOK ==
    /\ chain \in Seq([Names -> 0 .. MaxBlocks]) /\ Len(chain) \in 1 .. MaxBlocks
    /\ cursor \in 1 .. Len(chain)
    /\ utxos \subseteq Outputs /\ mints \subseteq Outputs
    /\ names \subseteq Names /\ datum \subseteq Names /\ root \in (SUBSET Names) \union {NoRoot}
    /\ ledger \subseteq 1 .. MaxBlocks
    /\ lock \in {Free, "scanning", "snapshot"} /\ stale \in BOOLEAN /\ moved \in BOOLEAN
    /\ scanner \in {"off", "clear", "begin", "next", "mint", "outputs", "spend", "commit",
                    "record", "unlock"}
    /\ publisher \in [Publishers -> PublisherStates]
    /\ fixed \subseteq Files /\ archive \subseteq Files /\ late \subseteq Keys \X Files
    /\ runs \in Nat /\ faults \in Nat

Published == fixed \union archive

(***************************************************************************)
(* An import of any published file, scanned on from its slot, gives the    *)
(* chain's state, whatever the scanner did while it was read: the file     *)
(* holds no output its slot does not have, and one it lacks is spent by a  *)
(* block the importer has still to scan.                                   *)
(***************************************************************************)
Heals(slot, outputs) ==
    /\ outputs \subseteq OutputsAt(slot)
    /\ \A o \in OutputsAt(slot) \ outputs : \E k \in slot + 1 .. Len(chain) : o \notin OutputsAt(k)
PublishedHeals == \A file \in Published : Heals(file.slot, file.utxos)

(***************************************************************************)
(* validateSnapshot (utils/verifiedSnapshot.ts), which the importer runs   *)
(* before it changes anything.                                             *)
(***************************************************************************)
WithinSlot(file) ==
    /\ \A o \in file.utxos \union file.mints : o[2] <= file.slot
    /\ \A b \in file.ledger : b <= file.slot
Validates(file) == file.verified /\ WithinSlot(file)

(***************************************************************************)
(* A file whose root did not agree with the datum is uploaded as well, and *)
(* refused by every import.  Those that agreed are imported, each of them: *)
(* whatever the read met, it left no entry from after the file's slot.     *)
(* And the outputs find the minting data without which updateHandleIndexes *)
(* throws.                                                                 *)
(***************************************************************************)
PublishedImports ==
    \A file \in Published :
       /\ file.verified => Validates(file)
       /\ \A o \in file.utxos : \E m \in file.mints : m[1] = o[1] /\ m[2] <= o[2]

(***************************************************************************)
(* No publisher, dead, slow or failed, keeps the scanner from the tip for  *)
(* good.                                                                   *)
(***************************************************************************)
ScannerCatchesUp == More ~> ~More
=============================================================================
