--------------------------- MODULE SnapshotImport ---------------------------
(***************************************************************************)
(* tryPopulateFromS3UTxOs (stores/redis/index.ts) and the fenced writer    *)
(* (workers/redisSync.worker.js) it writes through.  Invocations of the    *)
(* scanner, or standalone processes, import a published snapshot into the  *)
(* cache: they capture the images of the metrics, the marker and the       *)
(* scanner lease, claim the loader's ownership, clear the cache, and       *)
(* replay the snapshot chunk by chunk, each chunk followed by the marker.  *)
(*                                                                         *)
(* Every store call of an owner is a transaction in two steps: WATCH and   *)
(* the reads that check its two tokens, then EXEC, which fails if a        *)
(* watched key changed in between.  The caller waits 20 s for the answer;  *)
(* when it gives up, or dies, the call may still land.  A process starts   *)
(* no further invocation while a call of the last one is under way.        *)
(*                                                                         *)
(* Who else reads the maintenance lock, the scan that follows an import,   *)
(* and the unfenced writes of a scanner that lost its lease are outside    *)
(* this module.                                                            *)
(***************************************************************************)
EXTENDS SnapshotCache, FiniteSets

CONSTANTS
    Proc,       \* processes that may import
    MaxEvents   \* bound: crashes, time-outs, expiries, publications and resets

VARIABLES
    \* the store, beside metrics, progress and chunks
    holderCount, \* HOLDER_COUNT of a holder with one handle in every UTxO chunk
    ownerKey,    \* snapshot_loader:owner
    scannerKey,  \* scanner:lease
    \* the invocations
    pc,          \* down, ready, locked, call (waiting for the store), release, end, leave
    lease,       \* did the invocation take the scanner lease (snapshotOwnership)?
    frame,       \* the variables of its import, and of the call it has made
    req,         \* that call: none, sent, watched (its reads passed) or touched
    \* outside
    published,   \* the snapshot at the URL, None for a 404
    resetting,   \* the operator's reset is between its two commands
    events

store == <<cache, holderCount>>
keys == <<ownerKey, scannerKey>>
procs == <<pc, lease, frame, req>>
env == <<published, resetting, events>>
importVars == <<store, keys, procs, env>>

ASSUME ProcAssumption == None \notin Proc /\ MaxEvents \in Nat

Token == ({"scan", "load"} \X Proc) \union {None}

(* The images the claim compares (originalMetrics, originalProgress).      *)
Image == [metrics : Ready \union {None, Stale}, progress : Marker \union {None}]

(* Of the call: the operation, and the images of a claim.  Of the import:  *)
(* scannerOwner as captured, the candidate (None after a 404), utxoIdx at  *)
(* the start, mdIdx and utxoIdx.                                           *)
Frame ==
    [op : {"claim", "clear", "mark", "mint", "utxo", "blocks", "commit", "unmark"},
     image : Image \union {None}, scanner : Token, cand : Snapshot \union {None},
     from : 0..NUtxo, md : 0..NMint, utxo : 0..NUtxo]

Idle == [op |-> "claim", image |-> None, scanner |-> None, cand |-> None,
         from |-> 0, md |-> 0, utxo |-> 0]

ImportTypeOK ==
    /\ metrics \in Ready \union {None, Stale}
    /\ progress \in Marker \union {None}
    /\ chunks \in SUBSET Chunk
    /\ holderCount \in 0..NUtxo
    /\ ownerKey \in Proc \union {None}
    /\ scannerKey \in Token
    /\ pc \in [Proc -> {"down", "ready", "locked", "call", "release", "end", "leave"}]
    /\ lease \in [Proc -> BOOLEAN]
    /\ frame \in [Proc -> Frame]
    /\ req \in [Proc -> {"none", "sent", "watched", "touched"}]
    /\ published \in Snapshot \union {None}
    /\ resetting \in BOOLEAN
    /\ events \in 0..MaxEvents

ImportInit ==
    /\ CacheInit
    /\ holderCount = IF chunks = {} THEN 0 ELSE NUtxo
    /\ ownerKey = None /\ scannerKey = None
    /\ pc = [p \in Proc |-> "down"]
    /\ lease = [p \in Proc |-> FALSE]
    /\ frame = [p \in Proc |-> Idle]
    /\ req = [p \in Proc |-> "none"]
    /\ published \in Snapshot \union {None}
    /\ resetting = FALSE /\ events = 0

-----------------------------------------------------------------------------
(***************************************************************************)
(* Keys, tokens and calls.                                                 *)
(***************************************************************************)
Scan(p) == <<"scan", p>>
Load(p) == <<"load", p>>

(* fence.scannerOwner: the lease the invocation holds already, or one it   *)
(* takes together with the ownership.                                      *)
ScannerOwner(p) == IF frame[p].scanner = None THEN Load(p) ELSE frame[p].scanner

(* A change of a key touches every transaction that watches it.            *)
Touch(r) == [q \in Proc |-> IF r[q] = "watched" THEN "touched" ELSE r[q]]

TouchClaims ==
    [q \in Proc |-> IF req[q] = "watched" /\ frame[q].op = "claim" THEN "touched" ELSE req[q]]

(* p goes on at w, its call in state r: the variables live as long as the  *)
(* import or its last call does, and `finally` needs only the fence.       *)
Goes(p, w, r, f) ==
    /\ pc' = [pc EXCEPT ![p] = w]
    /\ frame' = [frame EXCEPT ![p] =
                    IF r # "none" THEN f
                    ELSE IF w = "release" THEN [Idle EXCEPT !.scanner = f.scanner] ELSE Idle]

(* EXEC succeeded.  The next call is sent or the import is over; a call    *)
(* nobody waits for any more changes nothing but the store.  The new       *)
(* expiries touch both keys for everyone else.                             *)
Answered(p, f, next) ==
    IF pc[p] = "call" /\ next # "done"
    THEN /\ req' = Touch([req EXCEPT ![p] = "sent"])
         /\ Goes(p, "call", "sent", [f EXCEPT !.op = next])
    ELSE /\ req' = Touch([req EXCEPT ![p] = "none"])
         /\ Goes(p, IF pc[p] = "call" THEN "release" ELSE pc[p], "none", f)

(* What follows an exception or the end of an invocation's import.  A      *)
(* refused claim is thrown before the `finally` that releases the fence.   *)
Leave(p) == IF lease[p] THEN "end" ELSE "down"

Thrown(p) ==
    IF pc[p] # "call" THEN pc[p]
    ELSE IF frame[p].op = "claim" THEN Leave(p) ELSE "release"

(* The next thing to replay once the cursors stand at m and u.             *)
Work(m, u) == IF m < NMint THEN "mint" ELSE IF u < NUtxo THEN "utxo" ELSE "blocks"

-----------------------------------------------------------------------------
(***************************************************************************)
(* An invocation.                                                          *)
(***************************************************************************)
AcquireLease(p) ==
    /\ pc[p] = "down" /\ req[p] = "none" /\ scannerKey = None
    /\ scannerKey' = Scan(p)
    /\ lease' = [lease EXCEPT ![p] = TRUE]
    /\ pc' = [pc EXCEPT ![p] = "ready"]
    /\ req' = Touch(req)
    /\ UNCHANGED <<store, ownerKey, frame, env>>

(* ensureUTxOsReady: the maintenance lock is a field of the metrics, so    *)
(* setting or clearing it leaves a hash where there was none.              *)
WriteLock ==
    /\ metrics' = IF metrics = None THEN Stale ELSE metrics
    /\ req' = TouchClaims
    /\ UNCHANGED <<progress, chunks, holderCount>>

Lock(p) ==
    /\ pc[p] = "ready"
    /\ IF metrics \in Ready THEN UNCHANGED <<store, req>> ELSE WriteLock
    /\ pc' = [pc EXCEPT ![p] = IF metrics \in Ready THEN "leave" ELSE "locked"]
    /\ UNCHANGED <<keys, lease, frame, env>>

Unlock(p) ==
    /\ pc[p] = "end"
    /\ WriteLock
    /\ pc' = [pc EXCEPT ![p] = "leave"]
    /\ UNCHANGED <<keys, lease, frame, env>>

(* getStartingPoint wants an import, the scanner lease is free or this     *)
(* process registered it, and the candidate fits the marker: no marker, or *)
(* one of the same digest.  A 404 is a candidate for an empty store only.  *)
WantsImport(p) == metrics \notin Ready \/ (Recover /\ pc[p] = "down")

Unowned(p) == scannerKey = None \/ (lease[p] /\ scannerKey = Scan(p))

(* Mutant: a marker of another snapshot is resumed. *)
FitsAny(s) == IF s = None THEN progress = None /\ metrics = None ELSE TRUE

Fits(s) ==
    IF s = None THEN progress = None /\ metrics = None
    ELSE progress # None => progress.snap = s

Admissible(p) == WantsImport(p) /\ Unowned(p) /\ Fits(published)

(* The cursors start where the marker stands. *)
Captured ==
    LET at == IF progress = None THEN [md |-> 0, utxo |-> 0] ELSE progress
    IN [op |-> "claim", image |-> [metrics |-> metrics, progress |-> progress],
        scanner |-> scannerKey, cand |-> published,
        from |-> at.utxo, md |-> at.md, utxo |-> at.utxo]

Capture(p) ==
    /\ pc[p] \in {"down", "locked"} /\ req[p] = "none"
    /\ Admissible(p)
    /\ req' = [req EXCEPT ![p] = "sent"]
    /\ Goes(p, "call", "sent", Captured)
    /\ UNCHANGED <<store, keys, lease, env>>

(* Nothing to import, or refused. *)
Refuse(p) ==
    /\ pc[p] = "locked" /\ ~Admissible(p)
    /\ pc' = [pc EXCEPT ![p] = "end"]
    /\ UNCHANGED <<store, keys, lease, frame, req, env>>

(* snapshotRelease: each key is deleted if it still holds our token.       *)
Release(p) ==
    /\ pc[p] = "release"
    /\ ownerKey' = IF ownerKey = p THEN None ELSE ownerKey
    /\ scannerKey' = IF frame[p].scanner = None /\ scannerKey = Load(p) THEN None ELSE scannerKey
    /\ req' = IF keys' = keys THEN req ELSE Touch(req)
    /\ Goes(p, Leave(p), req[p], frame[p])
    /\ UNCHANGED <<store, lease, env>>

(* releaseScannerLease. *)
ReleaseLease(p) ==
    /\ pc[p] = "leave"
    /\ scannerKey' = IF scannerKey = Scan(p) THEN None ELSE scannerKey
    /\ lease' = [lease EXCEPT ![p] = FALSE]
    /\ pc' = [pc EXCEPT ![p] = "down"]
    /\ req' = IF scannerKey' = scannerKey THEN req ELSE Touch(req)
    /\ UNCHANGED <<store, ownerKey, frame, env>>

-----------------------------------------------------------------------------
(***************************************************************************)
(* The worker: claimSnapshot and fencedSnapshotCall.                       *)
(***************************************************************************)
(* Mutant: the images are not compared. *)
ClaimHoldsByKeys(p) == ownerKey = None /\ scannerKey = frame[p].scanner

(* A claim to start at genesis also finds no data key.                     *)
ClaimHolds(p) ==
    /\ ownerKey = None /\ scannerKey = frame[p].scanner
    /\ [metrics |-> metrics, progress |-> progress] = frame[p].image
    /\ frame[p].cand = None => chunks = {}

(* Mutant: the scanner lease is not checked. *)
FenceHoldsByOwner(p) == ownerKey = p

FenceHolds(p) == ownerKey = p /\ scannerKey = ScannerOwner(p)

Holds(p) == IF frame[p].op = "claim" THEN ClaimHolds(p) ELSE FenceHolds(p)

(* WATCH and the reads. *)
Watch(p) ==
    /\ req[p] = "sent" /\ Holds(p)
    /\ req' = [req EXCEPT ![p] = "watched"]
    /\ UNCHANGED <<store, keys, pc, lease, frame, env>>

(* A read fails, or EXEC does: the call throws.                            *)
Fail(p) ==
    /\ (req[p] = "sent" /\ ~Holds(p)) \/ req[p] = "touched"
    /\ req' = [req EXCEPT ![p] = "none"]
    /\ Goes(p, Thrown(p), "none", frame[p])
    /\ UNCHANGED <<store, keys, lease, env>>

(* Mutant: EXEC does not look at the watched keys. *)
LandsUnwatched(p, o) == req[p] \in {"watched", "touched"} /\ frame[p].op = o

Lands(p, o) == req[p] = "watched" /\ frame[p].op = o

LandClaim(p) ==
    LET f == frame[p] IN
    /\ Lands(p, "claim")
    /\ ownerKey' = p
    /\ scannerKey' = ScannerOwner(p)
    /\ Answered(p, [f EXCEPT !.image = None],
                IF f.cand = None THEN "commit"
                ELSE IF f.image.progress = None THEN "clear" ELSE Work(f.md, f.utxo))
    /\ UNCHANGED <<store, lease, env>>

(* clearNamespace deletes page by page, in an order of the store's own.    *)
(* It is over when no data is left; a starting point reset meanwhile may   *)
(* stay behind.                                                            *)
LandClear(p) ==
    /\ Lands(p, "clear")
    /\ chunks' \in SUBSET chunks
    /\ metrics' \in {metrics, None}
    /\ holderCount' \in {holderCount, 0}
    /\ LET empty == chunks' = {} /\ metrics' \in {None, Stale} /\ holderCount' = 0
       IN /\ ~empty => <<chunks', metrics', holderCount'>> # <<chunks, metrics, holderCount>>
          /\ Answered(p, frame[p], IF empty THEN "mark" ELSE "clear")
    /\ UNCHANGED <<progress, keys, lease, env>>

LandMark(p) ==
    LET f == frame[p] IN
    /\ Lands(p, "mark")
    /\ progress' = [snap |-> f.cand, md |-> f.md, utxo |-> f.utxo]
    /\ Answered(p, f, Work(f.md, f.utxo))
    /\ UNCHANGED <<metrics, chunks, holderCount, keys, lease, env>>

LandMint(p) ==
    LET f == frame[p] IN
    /\ Lands(p, "mint")
    /\ chunks' = chunks \union {<<f.cand, "mint", f.md + 1>>}
    /\ Answered(p, [f EXCEPT !.md = @ + 1], "mark")
    /\ UNCHANGED <<metrics, progress, holderCount, keys, lease, env>>

(* ADD_UTXO and UPDATE_HANDLE_INDEXES for the chunk.  Inside the pipeline  *)
(* the holder's handles are those of the chunks this invocation replayed.  *)
LandUtxo(p) ==
    LET f == frame[p] IN
    /\ Lands(p, "utxo")
    /\ chunks' = chunks \union {<<f.cand, "utxo", f.utxo + 1>>}
    /\ holderCount' = f.utxo + 1 - f.from
    /\ Answered(p, [f EXCEPT !.utxo = @ + 1], "mark")
    /\ UNCHANGED <<metrics, progress, keys, lease, env>>

LandBlocks(p) ==
    /\ Lands(p, "blocks")
    /\ chunks' = chunks \union {<<frame[p].cand, "blocks", 1>>}
    /\ Answered(p, frame[p], "commit")
    /\ UNCHANGED <<metrics, progress, holderCount, keys, lease, env>>

LandCommit(p) ==
    /\ Lands(p, "commit")
    /\ metrics' = IF frame[p].cand = None THEN Genesis ELSE frame[p].cand
    /\ Answered(p, frame[p], "unmark")
    /\ UNCHANGED <<progress, chunks, holderCount, keys, lease, env>>

LandUnmark(p) ==
    /\ Lands(p, "unmark")
    /\ progress' = None
    /\ Answered(p, frame[p], "done")
    /\ UNCHANGED <<metrics, chunks, holderCount, keys, lease, env>>

Land(p) ==
    \/ LandClaim(p) \/ LandClear(p) \/ LandMark(p) \/ LandMint(p) \/ LandUtxo(p)
    \/ LandBlocks(p) \/ LandCommit(p) \/ LandUnmark(p)

-----------------------------------------------------------------------------
(***************************************************************************)
(* What may happen to them.  Every one of these is counted but the lapse   *)
(* of keys nobody renews and the loss of calls nobody waits for.           *)
(***************************************************************************)
Event == events < MaxEvents /\ events' = events + 1

(* The caller gives up after 20 s; the worker does not.                    *)
TimeOut(p) ==
    /\ Event
    /\ pc[p] = "call"
    /\ Goes(p, Thrown(p), req[p], frame[p])
    /\ UNCHANGED <<store, keys, lease, req, published, resetting>>

Crash(p) ==
    /\ Event
    /\ pc[p] # "down"
    /\ lease' = [lease EXCEPT ![p] = FALSE]
    /\ Goes(p, "down", req[p], frame[p])
    /\ UNCHANGED <<store, keys, req, published, resetting>>

(* A call nobody waits for is lost.                                        *)
Drop(p) ==
    /\ pc[p] # "call" /\ req[p] # "none"
    /\ req' = [req EXCEPT ![p] = "none"]
    /\ Goes(p, pc[p], "none", frame[p])
    /\ UNCHANGED <<store, keys, lease, env>>

(* The keys live 60 s after the last transaction or heartbeat.             *)
Importing(p) == pc[p] = "release" \/ (pc[p] = "call" /\ frame[p].op # "claim")

OwnerAlive == Importing(ownerKey)

ScannerAlive ==
    LET p == scannerKey[2] IN IF scannerKey = Scan(p) THEN lease[p] ELSE Importing(p)

(* Mutant: ownership is set without an expiry. *)
OwnerStays == FALSE

OwnerGone == ownerKey # None /\ ownerKey' = None /\ UNCHANGED scannerKey

ScannerGone == scannerKey # None /\ scannerKey' = None /\ UNCHANGED ownerKey

(* A key nobody renews lapses. *)
Lapse ==
    /\ (OwnerGone /\ ~OwnerAlive) \/ (ScannerGone /\ ~ScannerAlive)
    /\ req' = Touch(req)
    /\ UNCHANGED <<store, pc, lease, frame, env>>

(* A key lapses under an invocation that is still at work. *)
Lose ==
    /\ Event
    /\ (OwnerGone /\ OwnerAlive) \/ (ScannerGone /\ ScannerAlive)
    /\ req' = Touch(req)
    /\ UNCHANGED <<store, pc, lease, frame, published, resetting>>

PublishSnapshot ==
    /\ Event
    /\ published' \in Snapshot \ {published}
    /\ UNCHANGED <<store, keys, procs, resetting>>

(* reset_scanner of the operator's utility: the starting point is cleared, *)
(* then the marker.  Neither command is fenced.                            *)
ResetMetrics ==
    /\ Event
    /\ ~resetting
    /\ metrics' = Stale
    /\ resetting' = TRUE
    /\ req' = TouchClaims
    /\ UNCHANGED <<progress, chunks, holderCount, keys, pc, lease, frame, published>>

ResetProgress ==
    /\ resetting
    /\ progress' = None
    /\ resetting' = FALSE
    /\ req' = TouchClaims
    /\ UNCHANGED <<metrics, chunks, holderCount, keys, pc, lease, frame, published, events>>

-----------------------------------------------------------------------------
Step(p) ==
    \/ AcquireLease(p) \/ Lock(p) \/ Capture(p) \/ Refuse(p) \/ Release(p)
    \/ Unlock(p) \/ ReleaseLease(p)
    \/ Watch(p) \/ Fail(p) \/ Land(p)

ImportNext ==
    \/ \E p \in Proc : Step(p) \/ TimeOut(p) \/ Crash(p) \/ Drop(p)
    \/ Lapse \/ Lose
    \/ PublishSnapshot \/ ResetMetrics \/ ResetProgress

ImportSpec == ImportInit /\ [][ImportNext]_importVars

(* Invocations are scheduled and those that are not killed go on; a key    *)
(* nobody renews lapses.  Nothing is assumed of the publisher or of the    *)
(* operator.                                                               *)
FairImportSpec ==
    /\ ImportSpec
    /\ \A p \in Proc : WF_importVars(Step(p)) /\ WF_importVars(Drop(p))
    /\ WF_importVars(Lapse)

-----------------------------------------------------------------------------
(***************************************************************************)
(* Properties.                                                             *)
(***************************************************************************)

(* The marker never runs ahead of the data: every chunk it counts is       *)
(* stored, and the data is of no other snapshot.  A resumed import (mdIdx, *)
(* utxoIdx) therefore skips nothing that is missing.                       *)
MarkerIsBacked ==
    progress # None =>
        /\ Prefix(progress.snap, progress.md, progress.utxo) \subseteq chunks
        /\ \A c \in chunks : c[1] = progress.snap

(* A published starting point stands over the complete snapshot it names,  *)
(* and genesis over an empty cache, however many imports died, timed out   *)
(* or lost their lease before (tryPopulateFromS3UTxOs sets the metrics     *)
(* after the last chunk).                                                  *)
StartingPointIsComplete ==
    /\ metrics \in Snapshot => chunks = Whole(metrics)
    /\ metrics = Genesis => chunks = {}

(* Lost ownership stops later writes: whoever changes the data, moves the  *)
(* marker or sets a starting point holds both tokens in that very step     *)
(* (fencedSnapshotCall).                                                   *)
OnlyTheOwnerWrites ==
    [][\/ <<chunks, holderCount>>' # <<chunks, holderCount>>
       \/ metrics' # metrics /\ metrics' # Stale
       \/ progress' # progress /\ progress' # None
       =>
        \E p \in Proc : ownerKey = p /\ scannerKey = ScannerOwner(p) /\ req[p] = "watched"]_importVars

(* Two transactions never both stand between a check that passed and an    *)
(* EXEC that would succeed with writes of their own.                       *)
CouldWrite(p) == req[p] = "watched" /\ frame[p].op # "claim"

OneWriter == \A p, q \in Proc : CouldWrite(p) /\ CouldWrite(q) => p = q

MarkerFits == progress # None => progress.snap = published

(* As long as the snapshot stays the one the marker names, a cache that    *)
(* needs an import gets one, whatever invocations died on the way.         *)
ImportCompletes ==
    (metrics \notin Ready /\ published # None /\ MarkerFits) ~> (metrics \in Ready \/ ~MarkerFits)

-----------------------------------------------------------------------------
(***************************************************************************)
(* What the documentation claims and the code does not do.                 *)
(***************************************************************************)

(* "a freshly rebuilt snapshot (full S3 reimport) produces a clean index   *)
(* automatically" (docs/spec/scanner-recovery-runbook.md): the count of a  *)
(* holder with a handle in every chunk is the number of its handles.  A    *)
(* resumed import starts from empty `handles` and `holders` maps.          *)
ImportedCountsAreClean == metrics \in Snapshot => holderCount = NUtxo
=============================================================================
