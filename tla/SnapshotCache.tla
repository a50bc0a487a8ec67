--------------------------- MODULE SnapshotCache ---------------------------
(***************************************************************************)
(* What the snapshot import promises of the cache, whoever runs it: at any *)
(* time the index data is what is left of the original, or the chunks of   *)
(* one snapshot from the first to some point, in the order the importer    *)
(* replays them.  The marker never names a chunk that is not stored, and   *)
(* the starting point is published only over a complete snapshot, or, when *)
(* no snapshot exists, over an empty cache.                                *)
(*                                                                         *)
(* One sequential importer could not do better.  SnapshotImport is shown   *)
(* to implement this with any number of invocations that die, time out and *)
(* lose their leases.                                                      *)
(***************************************************************************)
EXTENDS Naturals

CONSTANTS
    Snapshot,      \* snapshots the publisher may offer, told apart by digest
    Original,      \* where the data that was there before comes from
    NMint, NUtxo,  \* minting-data and UTxO chunks of a snapshot
    Recover,       \* may an import replace a valid starting point?
    None, Stale, Genesis

VARIABLES
    metrics,   \* the starting point: None, Stale (to be imported), Genesis or a snapshot
    progress,  \* the marker: None or [snap, md, utxo]
    chunks     \* the stored chunks

cache == <<metrics, progress, chunks>>

Source == Snapshot \union {Original}

ASSUME SnapshotAssumption ==
    /\ NMint \in Nat \ {0} /\ NUtxo \in Nat \ {0}
    /\ Original \notin Snapshot
    /\ Recover \in BOOLEAN
    /\ {None, Stale, Genesis} \intersect Source = {}
    /\ None # Stale /\ None # Genesis /\ Stale # Genesis

Chunk == Source \X {"mint", "utxo", "blocks"} \X Nat

Marker == [snap : Snapshot, md : 0..NMint, utxo : 0..NUtxo]

Prefix(s, m, u) ==
    {<<s, "mint", i>> : i \in 1..m} \union {<<s, "utxo", i>> : i \in 1..u}

Whole(s) == Prefix(s, NMint, NUtxo) \union {<<s, "blocks", 1>>}

Ready == Snapshot \union {Genesis}

(* Minting data comes first: no UTxO chunk is stored before all of it.     *)
Before(s, m, u) == m \in 0..NMint /\ u \in 0..NUtxo /\ (u = 0 \/ m = NMint)

CacheInit ==
    /\ progress = None
    /\ \/ metrics = None /\ chunks = {}
       \/ metrics = Stale /\ chunks = Whole(Original)
       \/ Recover /\ \E s \in Snapshot : metrics = s /\ chunks = Whole(s)

Clear ==
    /\ progress = None
    /\ metrics \in Ready => Recover
    /\ metrics' \in {metrics, None}
    /\ chunks' \in SUBSET chunks
    /\ UNCHANGED progress

Store ==
    /\ metrics \notin Ready
    /\ \E s \in Snapshot, m \in 0..NMint, u \in 0..NUtxo :
        /\ Before(s, m, u)
        /\ chunks = Prefix(s, m, u)
        /\ \/ m < NMint /\ chunks' = Prefix(s, m + 1, u)
           \/ m = NMint /\ u < NUtxo /\ chunks' = Prefix(s, m, u + 1)
           \/ m = NMint /\ u = NUtxo /\ chunks' = Whole(s)
    /\ UNCHANGED <<metrics, progress>>

Mark ==
    /\ metrics \notin Ready
    /\ \E s \in Snapshot, m \in 0..NMint, u \in 0..NUtxo :
        /\ Before(s, m, u)
        /\ chunks = Prefix(s, m, u)
        /\ progress' = [snap |-> s, md |-> m, utxo |-> u]
    /\ UNCHANGED <<metrics, chunks>>

Publish ==
    /\ metrics \notin Ready
    /\ \/ \E s \in Snapshot : chunks = Whole(s) /\ metrics' = s
       \/ chunks = {} /\ progress = None /\ metrics' = Genesis
    /\ UNCHANGED <<progress, chunks>>

(* The marker goes when the snapshot is complete or the operator asks for  *)
(* a new import.                                                           *)
Forget == progress' = None /\ UNCHANGED <<metrics, chunks>>

Reset == metrics' = Stale /\ UNCHANGED <<progress, chunks>>

CacheNext == Clear \/ Store \/ Mark \/ Publish \/ Forget \/ Reset

(* The promise: the cache starts and changes only as above.               *)
CacheSpec == CacheInit /\ [][CacheNext]_cache

=============================================================================
