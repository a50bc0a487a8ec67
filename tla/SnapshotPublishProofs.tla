------------------------ MODULE SnapshotPublishProofs ------------------------
(***************************************************************************)
(* Proofs about SnapshotPublish: types, and what a published file is good  *)
(* for, for any number of handlers, names, blocks and faults.              *)
(***************************************************************************)
EXTENDS SnapshotPublish, TLAPS

(***************************************************************************)
(* Types, part by part.  The scanner is within a block only when there is  *)
(* one.                                                                    *)
(***************************************************************************)
InBlock == {"mint", "outputs", "spend", "commit"}
ChainType ==
    /\ chain \in Seq([Names -> 0 .. MaxBlocks]) /\ Len(chain) \in 1 .. MaxBlocks
    /\ cursor \in 1 .. Len(chain)
    /\ scanner \in InBlock => More
StoreType ==
    /\ utxos \subseteq Outputs /\ mints \subseteq Outputs
    /\ names \subseteq Names /\ datum \subseteq Names /\ root \in (SUBSET Names) \union {NoRoot}
    /\ ledger \subseteq 1 .. MaxBlocks
ControlType ==
    /\ lock \in {Free, "scanning", "snapshot"} /\ stale \in BOOLEAN /\ moved \in BOOLEAN
    /\ scanner \in {"off", "clear", "begin", "next", "mint", "outputs", "spend", "commit",
                    "record", "unlock"}
    /\ runs \in Nat /\ faults \in Nat
PublisherType == publisher \in [Publishers -> PublisherStates]
ObjectType == fixed \subseteq Files /\ archive \subseteq Files /\ late \subseteq Keys \X Files
Types == ChainType /\ StoreType /\ ControlType /\ PublisherType /\ ObjectType

LEMMA TypesGiveTypeOK == Types => TypeOK
BY DEF Types, ChainType, StoreType, ControlType, PublisherType, ObjectType, TypeOK

LEMMA TypeInit == Init => Types
<1> SUFFICES ASSUME Init PROVE Types  OBVIOUS
<1> USE PublishAssumption DEF Init
<1>1. ChainType
  <2>1. Genesis \in [Names -> 0 .. MaxBlocks]
    <3>1. {0, 1} \subseteq 0 .. MaxBlocks  OBVIOUS
    <3> QED  BY <3>1
  <2> QED  BY <2>1 DEF ChainType, InBlock
<1>2. StoreType
  <2>1. NamesAt(1) \subseteq Names  BY DEF NamesAt
  <2>2. utxos \subseteq Outputs  BY DEF OutputsAt, Outputs
  <2>3. mints \subseteq Outputs  BY <2>1 DEF Outputs
  <2> QED  BY <2>1, <2>2, <2>3 DEF StoreType
<1>3. ControlType  BY DEF ControlType, Free
<1>4. PublisherType
  <2>1. Idle \in PublisherStates  BY DEF Idle, PublisherStates, Reads
  <2> QED  BY <2>1 DEF PublisherType
<1>5. ObjectType  BY DEF ObjectType
<1> QED  BY <1>1, <1>2, <1>3, <1>4, <1>5 DEF Types

LEMMA FileType ==
  ASSUME PublisherType, NEW p \in Publishers
  PROVE  File(p) \in Files
BY DEF PublisherType, PublisherStates, File, Files

(***************************************************************************)
(* Who changes what: the chain grows by itself, the store is the           *)
(* scanner's, and what a handler does shows in itself and the objects.     *)
(***************************************************************************)
Handles(p) == WaitForUnlocked(p) \/ Publishes(p) \/ UploadFails(p) \/ Throws(p) \/ PublisherDies(p)
Scanning == Tick \/ Scans \/ ScannerDies \/ Dawdle

LEMMA NextCases ==
  ASSUME [Next]_vars
  PROVE  Grow \/ Scanning \/ Lands \/ UNCHANGED vars \/ \E p \in Publishers : Handles(p)
BY DEF Next, Scanning, Handles

LEMMA ScanningFrame == Scanning => UNCHANGED <<chain, publisher, objects>>
BY DEF Scanning, Tick, Scans, Applies, ClearStaleLock, LockScanning, BurnHandles, AddMintData,
       AddOutputs, RemoveSpent, Commit, Record, BuildRoot, EndTick, ScannerDies, Dawdle, Ticks,
       objects

LEMMA ScanningStore == Scanning => Applies \/ BuildRoot \/ UNCHANGED store
BY DEF Scanning, Tick, Scans, ClearStaleLock, LockScanning, EndTick, ScannerDies, Dawdle, store

LEMMA HandlesFrame == \A p \in Publishers : Handles(p) => UNCHANGED <<chain, store, scanner, moved>>
BY DEF Handles, WaitForUnlocked, Publishes, ReadsStore, LockSnapshot, ReadMetrics, ReadNames,
       ReadOutputs, ReadMore, ReadMints, ReadRoot, Verify, Upload, Prune, Unlock, UploadFails,
       Throws, PublisherDies, Reading, store

LEMMA OtherFrame ==
  /\ Grow => UNCHANGED <<store, scanner, publisher, objects, lock, stale, moved, runs, faults>>
  /\ Lands => UNCHANGED <<chain, store, scanner, publisher, lock, stale, moved, runs, faults>>
BY DEF Grow, Lands, store, objects

LEMMA GrowType ==
  ASSUME ChainType, Grow
  PROVE  /\ chain' \in Seq([Names -> 0 .. MaxBlocks]) /\ Len(chain') = Len(chain) + 1
         /\ Len(chain') \in 1 .. MaxBlocks
         /\ \A k \in 1 .. Len(chain) : chain'[k] = chain[k]
         /\ chain'[Len(chain')] \in [Names -> 0 .. Len(chain')]
         /\ \A n \in Names : chain'[Len(chain')][n] \in {0, chain[Len(chain)][n], Len(chain')}
<1> DEFINE S == [Names -> 0 .. MaxBlocks]
<1>1. chain \in Seq(S) /\ Len(chain) \in 1 .. MaxBlocks /\ MaxBlocks \in Nat
  BY PublishAssumption DEF ChainType
<1>2. PICK outs \in [Names -> 0 .. Len(chain) + 1] :
         /\ \A n \in Names : outs[n] \in {0, chain[Len(chain)][n], Len(chain) + 1}
         /\ chain' = Append(chain, outs)
  BY DEF Grow
<1>3. Len(chain) + 1 \in 1 .. MaxBlocks
  BY <1>1 DEF Grow
<1>4. outs \in S
  <2>1. 0 .. Len(chain) + 1 \subseteq 0 .. MaxBlocks  BY <1>1, <1>3
  <2> QED  BY <2>1
<1> HIDE DEF S
<1>5. /\ chain' \in Seq(S) /\ Len(chain') = Len(chain) + 1
      /\ chain'[Len(chain) + 1] = outs /\ \A k \in 1 .. Len(chain) : chain'[k] = chain[k]
  BY <1>1, <1>2, <1>4
<1> QED  BY <1>2, <1>3, <1>5 DEF S

LEMMA ChainStep == Types /\ [Next]_vars => ChainType'
<1> SUFFICES ASSUME Types, [Next]_vars PROVE ChainType'  OBVIOUS
<1>0. ChainType /\ Len(chain) \in Nat /\ cursor \in Nat
  BY PublishAssumption DEF Types, ChainType
<1>1. CASE Grow
  BY <1>0, <1>1, GrowType, OtherFrame DEF ChainType, More, store
<1>2. CASE Scanning
  <2> USE DEF Ticks, store
  <2>1. chain' = chain  BY <1>2, ScanningFrame
  <2>2. CASE Commit
    BY <1>0, <2>1, <2>2 DEF Commit, ChainType, InBlock, More
  <2>3. CASE ~Commit
    <3>1. cursor' = cursor
      BY <1>2, <2>3 DEF Scanning, Tick, Scans, Applies, ClearStaleLock, LockScanning,
         BurnHandles, AddMintData, AddOutputs, RemoveSpent, Record, BuildRoot, EndTick,
         ScannerDies, Dawdle
    <3>2. scanner' \in InBlock => scanner \in InBlock \/ More
      BY <1>2, <2>3 DEF Scanning, Tick, Scans, Applies, ClearStaleLock, LockScanning,
         BurnHandles, AddMintData, AddOutputs, RemoveSpent, Record, BuildRoot, EndTick,
         ScannerDies, Dawdle, InBlock
    <3> QED  BY <1>0, <2>1, <3>1, <3>2 DEF ChainType, More
  <2> QED  BY <2>2, <2>3
<1>3. CASE Lands \/ UNCHANGED vars \/ \E p \in Publishers : Handles(p)
  <2>1. UNCHANGED <<chain, store, scanner>>
    BY <1>3, OtherFrame, HandlesFrame DEF vars
  <2> QED  BY <1>0, <2>1 DEF ChainType, More, store
<1> QED  BY <1>1, <1>2, <1>3, NextCases

LEMMA StoreStep == Types /\ [Next]_vars => StoreType'
<1> SUFFICES ASSUME Types, [Next]_vars PROVE StoreType'  OBVIOUS
<1>0. ChainType /\ StoreType /\ cursor \in 1 .. MaxBlocks /\ MaxBlocks \in Nat
  BY PublishAssumption DEF Types, ChainType
<1>1. CASE UNCHANGED store  BY <1>0, <1>1 DEF StoreType, store
<1>2. CASE Applies \/ BuildRoot
  <2> DEFINE k == cursor + 1
  <2>1. ASSUME k \in 1 .. MaxBlocks
        PROVE  /\ NamesAt(k) \subseteq Names /\ {o[1] : o \in Created(k)} \subseteq Names
               /\ {<<n, k>> : n \in Minted(k)} \subseteq Outputs
               /\ Created(k) \subseteq Outputs
    <3>1. OutputsAt(k) \subseteq Names \X (1 .. k)  BY DEF OutputsAt
    <3>2. NamesAt(k) \subseteq Names  BY DEF NamesAt
    <3>3. Created(k) \subseteq Names \X (1 .. k)  BY <3>1 DEF Created
    <3>4. Created(k) \subseteq Outputs  BY <2>1, <3>3, <1>0 DEF Outputs
    <3>5. Minted(k) \subseteq Names  BY <3>2 DEF Minted
    <3>6. \A o \in Created(k) : o[1] \in Names  BY <3>3
    <3> HIDE DEF k
    <3> QED  BY <2>1, <3>2, <3>4, <3>5, <3>6 DEF Outputs
  <2>2. scanner \in InBlock => k \in 1 .. MaxBlocks  BY <1>0 DEF ChainType, More
  <2> HIDE DEF k
  <2>3. CASE BurnHandles  BY <1>0, <2>3 DEF BurnHandles, StoreType
  <2>4. CASE AddMintData
    BY <1>0, <2>1, <2>2, <2>4 DEF AddMintData, BlockSlot, StoreType, InBlock, k
  <2>5. CASE AddOutputs
    <3>1. scanner \in InBlock  BY <2>5 DEF AddOutputs, InBlock
    <3>2. utxos' \subseteq Outputs /\ names' \subseteq Names /\ datum' \subseteq Names
      BY <1>0, <2>1, <2>2, <2>5, <3>1 DEF AddOutputs, StoreType, k
    <3> QED  BY <1>0, <2>5, <3>2 DEF AddOutputs, StoreType
  <2>6. CASE RemoveSpent  BY <1>0, <2>6 DEF RemoveSpent, StoreType
  <2>7. CASE Commit  BY <1>0, <2>7 DEF Commit, StoreType
  <2>8. CASE Record  BY <1>0, <2>8 DEF Record, StoreType
  <2>9. CASE BuildRoot  BY <1>0, <2>9 DEF BuildRoot, StoreType
  <2> QED  BY <1>2, <2>3, <2>4, <2>5, <2>6, <2>7, <2>8, <2>9 DEF Applies
<1> QED  BY <1>1, <1>2, NextCases, ScanningStore, HandlesFrame, OtherFrame DEF vars

LEMMA ControlStep == ControlType /\ [Next]_vars => ControlType'
<1> SUFFICES ASSUME ControlType, [Next]_vars PROVE ControlType'  OBVIOUS
<1>1. ASSUME NEW p \in Publishers, Handles(p)
      PROVE  /\ lock' = lock \/ lock' = "snapshot" \/ lock' = Free
             /\ stale' = stale \/ stale' = FALSE
             /\ scanner' = scanner /\ moved' = moved
             /\ runs' = runs \/ runs' = runs + 1
             /\ faults' = faults \/ faults' = faults + 1
  BY <1>1 DEF Handles, WaitForUnlocked, Publishes, ReadsStore, LockSnapshot, ReadMetrics, ReadNames,
         ReadOutputs, ReadMore, ReadMints, ReadRoot, Verify, Upload, Prune, Unlock, UploadFails,
         Throws, PublisherDies, Reading, Fault
<1>2. ASSUME Scanning
      PROVE  /\ lock' = lock \/ lock' = "scanning" \/ lock' = Free
             /\ stale' = stale \/ stale' = FALSE \/ stale' = TRUE
             /\ moved' = moved \/ moved' = FALSE \/ moved' = TRUE
             /\ \/ scanner' = scanner \/ scanner' = "off" \/ scanner' = "clear"
                \/ scanner' = "begin" \/ scanner' = "next" \/ scanner' = "mint"
                \/ scanner' = "outputs" \/ scanner' = "spend" \/ scanner' = "commit"
                \/ scanner' = "record" \/ scanner' = "unlock"
             /\ runs' = runs /\ (faults' = faults \/ faults' = faults + 1)
  BY <1>2 DEF Scanning, Tick, Scans, Applies, ClearStaleLock, LockScanning, BurnHandles, AddMintData,
         AddOutputs, RemoveSpent, Commit, Record, BuildRoot, EndTick, ScannerDies, Dawdle,
         Fault, Ticks
<1>3. CASE Grow \/ Lands \/ UNCHANGED vars  BY <1>3, OtherFrame DEF ControlType, vars
<1>4. CASE Scanning
  <2>1. stale' \in BOOLEAN /\ moved' \in BOOLEAN  BY <1>2, <1>4, Zenon DEF ControlType
  <2>2. runs' \in Nat /\ faults' \in Nat  BY <1>2, <1>4 DEF ControlType
  <2>3. lock' \in {Free, "scanning", "snapshot"}  BY <1>2, <1>4 DEF ControlType
  <2> QED  BY <1>2, <1>4, <2>1, <2>2, <2>3, Zenon DEF ControlType
<1>5. CASE \E p \in Publishers : Handles(p)
  <2>1. stale' \in BOOLEAN /\ moved' \in BOOLEAN  BY <1>1, <1>5, Zenon DEF ControlType
  <2>2. runs' \in Nat /\ faults' \in Nat
    <3>1. runs \in Nat /\ faults \in Nat  BY DEF ControlType
    <3>2. /\ runs' = runs \/ runs' = runs + 1
          /\ faults' = faults \/ faults' = faults + 1
      BY <1>1, <1>5
    <3> QED  BY <3>1, <3>2
  <2>3. lock' \in {Free, "scanning", "snapshot"}  BY <1>1, <1>5 DEF ControlType
  <2> QED  BY <1>1, <1>5, <2>1, <2>2, <2>3, Zenon DEF ControlType
<1> QED  BY <1>3, <1>4, <1>5, NextCases

LEMMA PublisherStep == Types /\ [Next]_vars => PublisherType'
<1> SUFFICES ASSUME Types, [Next]_vars PROVE PublisherType'  OBVIOUS
<1>0. PublisherType /\ StoreType /\ cursor \in 0 .. MaxBlocks
  BY PublishAssumption DEF Types, ChainType
<1>1. CASE UNCHANGED publisher  BY <1>0, <1>1 DEF PublisherType
<1>2. ASSUME NEW p \in Publishers, Handles(p)
      PROVE  PublisherType'
  <2>0. publisher[p] \in PublisherStates /\ publisher \in [Publishers -> PublisherStates]
    BY <1>0 DEF PublisherType
  <2>1. Idle \in PublisherStates /\ [Idle EXCEPT !.at = "set"] \in PublisherStates
    <3>1. Idle \in PublisherStates  BY PublishAssumption DEF Idle, PublisherStates, Reads
    <3> QED  BY <3>1 DEF PublisherStates, Reads
  <2>2. CASE WaitForUnlocked(p) \/ Unlock(p) \/ PublisherDies(p)
    BY <2>0, <2>1, <2>2 DEF WaitForUnlocked, Unlock, PublisherDies, PublisherType
  <2>3. CASE LockSnapshot(p) \/ Prune(p) \/ Throws(p)
    BY <2>0, <2>3 DEF LockSnapshot, Prune, Throws, Goes, PublisherType, PublisherStates, Reads
  <2>4. CASE ReadMetrics(p)
    BY <1>0, <2>0, <2>4 DEF ReadMetrics, PublisherType, PublisherStates, Reads
  <2>5. CASE ReadNames(p)
    <3>1. {b \in ledger : b <= publisher[p].slot} \in SUBSET (1 .. MaxBlocks)
      BY <1>0 DEF StoreType
    <3> QED  BY <1>0, <2>0, <2>5, <3>1
             DEF ReadNames, PublisherType, PublisherStates, Reads, StoreType
  <2>6. CASE ReadOutputs(p)
    <3>1. PICK page \in SUBSET utxos :
             publisher' = [publisher EXCEPT ![p].at = "more", ![p].got = Cut(p, page),
                                            ![p].left = utxos \ page]
      BY <2>6 DEF ReadOutputs
    <3>2. Cut(p, page) \in SUBSET Outputs /\ utxos \ page \in SUBSET Outputs
      BY <1>0 DEF StoreType, Cut
    <3> QED  BY <2>0, <3>1, <3>2 DEF PublisherType, PublisherStates, Reads
  <2>7. CASE ReadMore(p)
    <3>1. publisher[p].got \union Cut(p, Unread(p)) \in SUBSET Outputs
      BY <1>0, <2>0 DEF StoreType, Cut, Unread, PublisherStates
    <3> QED  BY <2>0, <2>7, <3>1 DEF ReadMore, PublisherType, PublisherStates, Reads
  <2>8. CASE ReadMints(p)
    <3>1. {m \in mints : m[2] <= publisher[p].slot} \in SUBSET Outputs
      BY <1>0 DEF StoreType
    <3> QED  BY <2>0, <2>8, <3>1 DEF ReadMints, PublisherType, PublisherStates, Reads
  <2>9. CASE ReadRoot(p)
    <3>1. (IF root = NoRoot THEN publisher[p].names ELSE root) \in (SUBSET Names) \union {NoRoot}
      BY <1>0, <2>0 DEF StoreType, PublisherStates
    <3> QED  BY <2>0, <2>9, <3>1 DEF ReadRoot, PublisherType, PublisherStates, Reads
  <2>10. CASE Verify(p)
    <3>1. Agrees(p) \in BOOLEAN  BY DEF Agrees
    <3> QED  BY <2>0, <2>10, <3>1 DEF Verify, PublisherType, PublisherStates, Reads
  <2>11. CASE Upload(p) \/ UploadFails(p)
    <3>1. PICK rest \in SUBSET Keys, to \in {"prune", "upload", "unlock"} :
             publisher' = [publisher EXCEPT ![p].awaited = rest, ![p].at = to]
      <4>1. publisher[p].awaited \in SUBSET Keys  BY <2>0 DEF PublisherStates
      <4>2. CASE Upload(p)
        <5>1. PICK key \in publisher[p].awaited :
                 publisher' = [publisher EXCEPT ![p].awaited = @ \ {key},
                       ![p].at = IF publisher[p].awaited = {key} THEN "prune" ELSE "upload"]
          BY <4>2 DEF Upload
        <5> QED  BY <4>1, <5>1
      <4>3. CASE UploadFails(p)
        <5>1. publisher' = [publisher EXCEPT ![p].at = "unlock", ![p].awaited = {}]
          BY <4>3 DEF UploadFails
        <5> QED  BY <5>1
      <4> QED  BY <2>11, <4>2, <4>3
    <3> QED  BY <2>0, <3>1 DEF PublisherType, PublisherStates, Reads
  <2> QED  BY <1>2, <2>2, <2>3, <2>4, <2>5, <2>6, <2>7, <2>8, <2>9, <2>10, <2>11
           DEF Handles, Publishes, ReadsStore
<1> QED  BY <1>1, <1>2, NextCases, ScanningFrame, OtherFrame DEF vars

LEMMA ObjectStep == Types /\ [Next]_vars => ObjectType'
<1> SUFFICES ASSUME Types, [Next]_vars PROVE ObjectType'  OBVIOUS
<1>0. ObjectType /\ PublisherType  BY DEF Types
<1>1. CASE UNCHANGED objects  BY <1>0, <1>1 DEF ObjectType, objects
<1>2. CASE Lands  BY <1>0, <1>2 DEF Lands, ObjectType, Put
<1>3. ASSUME NEW p \in Publishers, Handles(p)
      PROVE  ObjectType'
  <2>1. File(p) \in Files /\ publisher[p].awaited \subseteq Keys
    BY <1>0, FileType DEF PublisherType, PublisherStates
  <2>2. {<<key, File(p)>> : key \in publisher[p].awaited} \subseteq Keys \X Files
    BY <2>1
  <2>3. CASE UNCHANGED objects  BY <1>0, <2>3 DEF ObjectType, objects
  <2>4. CASE Upload(p)  BY <1>0, <2>1, <2>4 DEF Upload, Put, ObjectType
  <2>5. CASE UploadFails(p)
    <3>1. \A key \in Keys : {<<other, File(p)>> : other \in publisher[p].awaited \ {key}}
                              \subseteq Keys \X Files
      BY <2>1
    <3> QED  BY <1>0, <2>1, <2>5, <3>1 DEF UploadFails, ObjectType
  <2>6. CASE Prune(p)  BY <1>0, <2>6 DEF Prune, ObjectType
  <2>7. CASE PublisherDies(p)  BY <1>0, <2>2, <2>7 DEF PublisherDies, ObjectType
  <2> QED  BY <1>3, <2>3, <2>4, <2>5, <2>6, <2>7
           DEF Handles, Publishes, ReadsStore, WaitForUnlocked, LockSnapshot, ReadMetrics,
               ReadNames, ReadOutputs, ReadMore, ReadMints, ReadRoot, Verify, Unlock, Throws,
               Reading, objects
<1> QED  BY <1>1, <1>2, <1>3, NextCases, ScanningFrame, OtherFrame DEF vars

LEMMA TypesStep == Types /\ [Next]_vars => Types'
BY ChainStep, StoreStep, ControlStep, PublisherStep, ObjectStep DEF Types

(* Every variable keeps its type, whatever the interleaving. *)
THEOREM PublishTypeCorrect == Spec => []TypeOK
<1>1. Init => Types  BY TypeInit
<1>2. Types /\ [Next]_vars => Types'  BY TypesStep
<1>3. Types => TypeOK  BY TypesGiveTypeOK
<1> QED  BY <1>1, <1>2, <1>3, PTL DEF Spec
-----------------------------------------------------------------------------
(***************************************************************************)
(* What a file is good for.  A name that has an output from a block up to  *)
(* a later one has it in all between (Persists), so an output that the     *)
(* store no longer holds was spent by a block at most one past the cursor, *)
(* and one the store holds below a slot already passed was there at that   *)
(* slot.  StoreFits says how far the store may be from the cursor within a *)
(* block, or after a death in one.                                         *)
(***************************************************************************)
Outs(c, k) == {o \in Names \X (1 .. k) : c[k][o[1]] = o[2]}
New(c, k) == {o \in Outs(c, k) : o[2] = k}
Gone(c, o, slot) == \E k \in slot + 1 .. Len(c) : o \notin Outs(c, k)
HealsIn(c, slot, outs) ==
    outs \subseteq Outs(c, slot) /\ \A o \in Outs(c, slot) \ outs : Gone(c, o, slot)
MintFor(o, data) == \E m \in data : m[1] = o[1] /\ m[2] <= o[2]

ChainFits ==
    \A k \in 1 .. Len(chain) : \A n \in Names :
       /\ chain[k][n] \in 0 .. k
       /\ \A j \in 1 .. k : chain[k][n] \in 1 .. j => chain[j][n] = chain[k][n]
StoreFits ==
    /\ \A o \in utxos : o \in Outs(chain, cursor) \/ (More /\ o \in New(chain, cursor + 1))
    /\ \A o \in Outs(chain, cursor) : o \in utxos \/ (More /\ o \notin Outs(chain, cursor + 1))
    /\ scanner \in {"spend", "commit"} => New(chain, cursor + 1) \subseteq utxos
    /\ scanner = "commit" => utxos \subseteq Outs(chain, cursor + 1)
MintsFit ==
    /\ \A o \in utxos : MintFor(o, mints)
    /\ \A o \in Outs(chain, cursor) : MintFor(o, mints)
    /\ scanner \in {"outputs", "spend", "commit"} =>
          \A o \in New(chain, cursor + 1) : MintFor(o, mints)

(* A handler h, by how far its read has come. *)
ReadFits(h, c, at, data) ==
    /\ h.at \in {"names", "outputs", "more", "mints", "root", "datum", "upload"} =>
          h.slot \in 1 .. at
    /\ h.at \in {"outputs", "more", "mints", "root", "datum", "upload"} =>
          \A b \in h.ledger : b <= h.slot
    /\ h.at = "more" =>
          /\ h.got \subseteq Outs(c, h.slot)
          /\ \A o \in Outs(c, h.slot) : o \in h.got \union h.left \/ Gone(c, o, h.slot)
    /\ h.at \in {"more", "mints"} => \A o \in h.got : MintFor(o, data)
    /\ h.at \in {"mints", "root", "datum", "upload"} => HealsIn(c, h.slot, h.got)
    /\ h.at \in {"root", "datum", "upload"} =>
          /\ \A m \in h.mints : m[2] <= h.slot
          /\ \A o \in h.got : MintFor(o, h.mints)
    /\ h.awaited # {} => h.at = "upload"
Good(file, c) ==
    /\ file.slot \in 1 .. Len(c) /\ HealsIn(c, file.slot, file.utxos)
    /\ \A m \in file.mints : m[2] <= file.slot
    /\ \A b \in file.ledger : b <= file.slot
    /\ \A o \in file.utxos : MintFor(o, file.mints)
ReadsFit == \A p \in Publishers : ReadFits(publisher[p], chain, cursor, mints)
FilesFit ==
    /\ \A file \in fixed : Good(file, chain)
    /\ \A file \in archive : Good(file, chain)
    /\ \A upload \in late : Good(upload[2], chain)
Fits == Types /\ ChainFits /\ StoreFits /\ MintsFit /\ ReadsFit /\ FilesFit

(***************************************************************************)
(* The chain, and what outlives its growth.                                *)
(***************************************************************************)
Extends(c, d) == Len(c) <= Len(d) /\ \A k \in 1 .. Len(c) : d[k] = c[k]

LEMMA OutsGrow ==
  ASSUME NEW c, NEW d, Len(c) \in Nat, Len(d) \in Nat, Extends(c, d)
  PROVE  /\ \A k \in 1 .. Len(c) : Outs(d, k) = Outs(c, k)
         /\ \A slot \in Nat : \A o : Gone(c, o, slot) => Gone(d, o, slot)
<1>1. \A k \in 1 .. Len(c) : Outs(d, k) = Outs(c, k)  BY DEF Extends, Outs
<1>2. ASSUME NEW slot \in Nat, NEW o, Gone(c, o, slot) PROVE Gone(d, o, slot)
  <2>1. PICK k \in slot + 1 .. Len(c) : o \notin Outs(c, k)  BY <1>2 DEF Gone
  <2>2. k \in 1 .. Len(c) /\ k \in slot + 1 .. Len(d)  BY DEF Extends
  <2> QED  BY <1>1, <2>1, <2>2 DEF Gone
<1> QED  BY <1>1, <1>2

LEMMA HealsGrow ==
  ASSUME NEW c, NEW d, Len(c) \in Nat, Len(d) \in Nat, Extends(c, d),
         NEW slot \in 1 .. Len(c), NEW outs, HealsIn(c, slot, outs)
  PROVE  HealsIn(d, slot, outs)
<1>1. Outs(d, slot) = Outs(c, slot)  BY OutsGrow
<1>2. \A o : Gone(c, o, slot) => Gone(d, o, slot)  BY OutsGrow
<1> QED  BY <1>1, <1>2 DEF HealsIn

LEMMA GoodGrows ==
  ASSUME NEW c, NEW d, Len(c) \in Nat, Len(d) \in Nat, Extends(c, d), NEW file, Good(file, c)
  PROVE  Good(file, d)
<1>1. file.slot \in 1 .. Len(c) /\ file.slot \in 1 .. Len(d)  BY DEF Good, Extends
<1>2. HealsIn(d, file.slot, file.utxos)  BY <1>1, HealsGrow DEF Good
<1> QED  BY <1>1, <1>2 DEF Good

LEMMA ReadGrows ==
  ASSUME NEW c, NEW d, Len(c) \in Nat, Len(d) \in Nat, Extends(c, d),
         NEW x \in 1 .. Len(c), NEW y \in Nat, x <= y,
         NEW data, NEW more, data \subseteq more,
         NEW h, ReadFits(h, c, x, data)
  PROVE  ReadFits(h, d, y, more)
<1> USE DEF ReadFits
<1>1. h.at \in {"names", "outputs", "more", "mints", "root", "datum", "upload"} =>
         h.slot \in 1 .. y /\ h.slot \in 1 .. Len(c) /\ h.slot \in Nat
  OBVIOUS
<1>2. h.at = "more" =>
         /\ h.got \subseteq Outs(d, h.slot)
         /\ \A o \in Outs(d, h.slot) : o \in h.got \union h.left \/ Gone(d, o, h.slot)
  BY <1>1, OutsGrow
<1>3. h.at \in {"more", "mints"} => \A o \in h.got : MintFor(o, more)
  BY DEF MintFor
<1>4. h.at \in {"mints", "root", "datum", "upload"} => HealsIn(d, h.slot, h.got)
  BY <1>1, HealsGrow
<1> QED  BY <1>1, <1>2, <1>3, <1>4

LEMMA ChainExtends ==
  ASSUME Types, [Next]_vars
  PROVE  Extends(chain, chain') /\ Len(chain) \in Nat /\ Len(chain') \in Nat
<1>0. ChainType /\ Len(chain) \in Nat  BY DEF Types, ChainType
<1>1. CASE Grow  BY <1>0, <1>1, GrowType DEF Extends
<1>2. CASE UNCHANGED chain  BY <1>0, <1>2 DEF Extends
<1> QED  BY <1>1, <1>2, NextCases, ScanningFrame, HandlesFrame, OtherFrame DEF vars

LEMMA ChainFitsStep ==
  ASSUME Types, ChainFits, [Next]_vars
  PROVE  ChainFits'
<1>0. ChainType /\ Len(chain) \in Nat \ {0}  BY DEF Types, ChainType
<1>1. CASE Grow
  <2> DEFINE L == Len(chain)
  <2>1. /\ Len(chain') = L + 1 /\ \A k \in 1 .. L : chain'[k] = chain[k]
        /\ \A n \in Names : chain'[L + 1][n] \in {0, chain[L][n], L + 1}
    BY <1>0, <1>1, GrowType
  <2> SUFFICES ASSUME NEW k \in 1 .. L + 1, NEW n \in Names
               PROVE  /\ chain'[k][n] \in 0 .. k
                      /\ \A j \in 1 .. k : chain'[k][n] \in 1 .. j => chain'[j][n] = chain'[k][n]
    BY <2>1 DEF ChainFits
  <2>2. CASE k \in 1 .. L
    <3>1. \A j \in 1 .. k : chain'[j] = chain[j]  BY <2>1, <2>2
    <3> QED  BY <2>1, <2>2, <3>1 DEF ChainFits
  <2>3. CASE k = L + 1
    <3>1. chain[L][n] \in 0 .. L /\ L \in 1 .. L  BY <1>0 DEF ChainFits
    <3>2. \A j \in 1 .. L : chain[L][n] \in 1 .. j => chain[j][n] = chain[L][n]
      BY <3>1 DEF ChainFits
    <3>3. chain'[k][n] \in {0, chain[L][n], L + 1}  BY <2>1, <2>3
    <3>4. \A j \in 1 .. L : chain'[j][n] = chain[j][n]  BY <2>1
    <3> HIDE DEF L
    <3>5. L \in Nat \ {0}  BY <1>0 DEF L
    <3>6. ASSUME NEW j \in 1 .. k, chain'[k][n] \in 1 .. j
          PROVE  chain'[j][n] = chain'[k][n]
      <4>1. CASE j = k  BY <4>1
      <4>2. CASE j \in 1 .. L  BY <3>1, <3>2, <3>3, <3>4, <3>5, <3>6, <4>2
      <4> QED  BY <4>1, <4>2, <2>3, <3>5
    <3> QED  BY <2>3, <3>1, <3>3, <3>5, <3>6
  <2> QED  BY <2>2, <2>3, <1>0
<1>2. CASE UNCHANGED chain  BY <1>2 DEF ChainFits
<1> QED  BY <1>1, <1>2, NextCases, ScanningFrame, HandlesFrame, OtherFrame DEF vars

LEMMA Persists ==
  ASSUME ChainFits, NEW k \in 1 .. Len(chain), Len(chain) \in Nat, NEW o \in Outs(chain, k),
         NEW j \in 1 .. k, o[2] <= j
  PROVE  o \in Outs(chain, j)
<1>1. o \in Names \X (1 .. k) /\ chain[k][o[1]] = o[2]  BY DEF Outs
<1>2. o[1] \in Names /\ o[2] \in 1 .. j  BY <1>1
<1>3. chain[j][o[1]] = o[2]  BY <1>1, <1>2 DEF ChainFits
<1>4. o \in Names \X (1 .. j)  BY <1>1, <1>2
<1> QED  BY <1>3, <1>4 DEF Outs

LEMMA Missing ==
  ASSUME Types, StoreFits, NEW slot \in 1 .. cursor, NEW o \in Outs(chain, slot), o \notin utxos
  PROVE  Gone(chain, o, slot)
<1>0. cursor \in 1 .. Len(chain) /\ Len(chain) \in Nat  BY DEF Types, ChainType
<1>1. CASE o \in Outs(chain, cursor)
  BY <1>0, <1>1 DEF StoreFits, Gone, More
<1>2. CASE o \notin Outs(chain, cursor)
  <2>1. cursor \in slot + 1 .. Len(chain)  BY <1>0, <1>2
  <2> QED  BY <1>2, <2>1 DEF Gone
<1> QED  BY <1>1, <1>2

LEMMA Earlier ==
  ASSUME Types, ChainFits, StoreFits, NEW slot \in 1 .. cursor, NEW o \in utxos, o[2] <= slot
  PROVE  o \in Outs(chain, slot)
<1>0. cursor \in 1 .. Len(chain) /\ Len(chain) \in Nat  BY DEF Types, ChainType
<1>1. o \notin New(chain, cursor + 1)
  <2> SUFFICES ASSUME o \in New(chain, cursor + 1) PROVE FALSE  OBVIOUS
  <2>1. o[2] = cursor + 1  BY DEF New
  <2> QED  BY <1>0, <2>1
<1>2. o \in Outs(chain, cursor)  BY <1>1 DEF StoreFits
<1> QED  BY <1>0, <1>2, Persists

LEMMA Renamed ==
  \A k : OutputsAt(k) = Outs(chain, k) /\ Created(k) = New(chain, k)
BY DEF OutputsAt, Created, Outs, New

(***************************************************************************)
(* A step of the scanner, and the growth of the chain under it.            *)
(***************************************************************************)
LEMMA GrowKeepsStore ==
  ASSUME Types, ChainFits, StoreFits, MintsFit, Grow
  PROVE  StoreFits' /\ MintsFit'
<1>0. /\ ChainType /\ Len(chain) \in Nat \ {0} /\ cursor \in 1 .. Len(chain) /\ cursor \in Nat
      /\ Len(chain') = Len(chain) + 1
      /\ \A k \in 1 .. Len(chain) : chain'[k] = chain[k]
  BY GrowType DEF Types, ChainType
<1>1. UNCHANGED <<cursor, utxos, mints, scanner>>  BY OtherFrame DEF store
<1>2. \A k \in 1 .. Len(chain) : Outs(chain', k) = Outs(chain, k) /\ New(chain', k) = New(chain, k)
  BY <1>0 DEF Outs, New
<1>3. scanner \in InBlock => cursor + 1 \in 1 .. Len(chain)
  BY <1>0 DEF ChainType, More
<1>4. More => cursor + 1 \in 1 .. Len(chain)  BY <1>0 DEF More
<1>5. More => More'  BY <1>0, <1>1 DEF More
<1>6. StoreFits'
  <2>1. \A o \in utxos' : o \in Outs(chain', cursor') \/ (More' /\ o \in New(chain', cursor' + 1))
    BY <1>0, <1>1, <1>2, <1>4, <1>5 DEF StoreFits
  <2>2. \A o \in Outs(chain', cursor') :
           o \in utxos' \/ (More' /\ o \notin Outs(chain', cursor' + 1))
    BY <1>0, <1>1, <1>2, <1>4, <1>5 DEF StoreFits
  <2>3. scanner' \in {"spend", "commit"} => New(chain', cursor' + 1) \subseteq utxos'
    BY <1>0, <1>1, <1>2, <1>3 DEF StoreFits, InBlock
  <2>4. scanner' = "commit" => utxos' \subseteq Outs(chain', cursor' + 1)
    BY <1>0, <1>1, <1>2, <1>3 DEF StoreFits, InBlock
  <2> QED  BY <2>1, <2>2, <2>3, <2>4 DEF StoreFits
<1>7. MintsFit'
  BY <1>0, <1>1, <1>2, <1>3 DEF MintsFit, InBlock
<1> QED  BY <1>6, <1>7

LEMMA ScanKeepsStore ==
  ASSUME Types, ChainFits, StoreFits, MintsFit, Scanning
  PROVE  StoreFits' /\ MintsFit' /\ mints \subseteq mints' /\ cursor <= cursor'
<1>0. /\ ChainType /\ Len(chain) \in Nat /\ cursor \in 1 .. Len(chain) /\ cursor \in Nat
      /\ chain' = chain
  BY ScanningFrame DEF Types, ChainType
<1>1. scanner \in InBlock => More /\ cursor + 1 \in 1 .. Len(chain)
  BY <1>0 DEF ChainType, More
<1> DEFINE k == cursor + 1
<1>2. \A o \in Outs(chain, k) : More => o \in New(chain, k) \/ o \in Outs(chain, cursor)
  <2> SUFFICES ASSUME NEW o \in Outs(chain, k), More, o \notin New(chain, k)
               PROVE  o \in Outs(chain, cursor)
    OBVIOUS
  <2>1. o \in Names \X (1 .. k) /\ o[2] # k  BY DEF Outs, New
  <2>2. o[2] \in 1 .. k  BY <2>1
  <2>3. o[2] <= cursor  BY <1>0, <2>1, <2>2
  <2>4. k \in 1 .. Len(chain) /\ cursor \in 1 .. k  BY <1>0 DEF More
  <2> QED  BY <1>0, <2>3, <2>4, Persists
<1>3. CASE AddMintData
  <2> USE <1>0, <1>1, <1>3 DEF AddMintData, Ticks, InBlock, BlockSlot
  <2>1. mints' = mints \union {<<n, k>> : n \in Minted(k)} /\ mints \subseteq mints'  OBVIOUS
  <2>2. StoreFits'  BY DEF StoreFits, More
  <2>3. ASSUME NEW o \in New(chain, k) PROVE MintFor(o, mints')
    <3>1. o \in Outs(chain, k) /\ o[2] = k  BY DEF New
    <3>2. o \in Names \X (1 .. k) /\ chain[k][o[1]] = k  BY <3>1 DEF Outs
    <3>3. o[1] \in NamesAt(k)  BY <3>2 DEF NamesAt
    <3>4. CASE o[1] \in Minted(k)
      <4>1. <<o[1], k>> \in mints'  BY <2>1, <3>4
      <4> QED  BY <3>1, <4>1 DEF MintFor
    <3>5. CASE o[1] \notin Minted(k)
      <4>1. chain[cursor][o[1]] # 0  BY <3>3, <3>5 DEF Minted
      <4> DEFINE older == <<o[1], chain[cursor][o[1]]>>
      <4>2. chain[cursor][o[1]] \in 1 .. cursor  BY <3>2, <4>1 DEF ChainFits
      <4>3. older \in Outs(chain, cursor)  BY <3>2, <4>2 DEF Outs
      <4>4. PICK m \in mints : m[1] = older[1] /\ m[2] <= older[2]
        BY <4>3 DEF MintsFit, MintFor
      <4>5. m[1] = o[1] /\ m[2] <= chain[cursor][o[1]]  BY <4>4
      <4>6. m[2] \in Nat
        <5>1. mints \subseteq Names \X (1 .. MaxBlocks)  BY DEF Types, StoreType, Outputs
        <5> QED  BY <5>1
      <4>7. m[2] <= k  BY <4>2, <4>5, <4>6
      <4> QED  BY <2>1, <3>1, <4>5, <4>7 DEF MintFor
    <3> QED  BY <3>4, <3>5
  <2>4. UNCHANGED <<utxos, cursor>>  OBVIOUS
  <2>5. MintsFit'
    <3> HIDE <1>3
    <3> USE <2>1, <2>3, <2>4 DEF MintsFit
    <3>1. \A o : MintFor(o, mints) => MintFor(o, mints')  BY DEF MintFor
    <3> QED  BY <3>1
  <2> QED  BY <2>1, <2>2, <2>4, <2>5
<1>4. CASE AddOutputs
  <2> USE <1>0, <1>1, <1>4 DEF AddOutputs, Ticks, InBlock
  <2>1. utxos' = utxos \union New(chain, k) /\ mints' = mints /\ cursor' = cursor /\ scanner' = "spend"
    BY Renamed
  <2>2. StoreFits'  BY <2>1 DEF StoreFits, More
  <2>3. MintsFit'  BY <2>1 DEF MintsFit
  <2> QED  BY <2>1, <2>2, <2>3
<1>5. CASE RemoveSpent
  <2> USE <1>0, <1>1, <1>5 DEF RemoveSpent, Ticks, InBlock
  <2>1. /\ utxos' = utxos \ (Outs(chain, cursor) \ Outs(chain, k))
        /\ mints' = mints /\ cursor' = cursor /\ scanner' = "commit"
    BY Renamed
  <2>2. New(chain, k) \subseteq Outs(chain, k)  BY DEF New
  <2>3. utxos' \subseteq Outs(chain, k)  BY <2>1, <2>2 DEF StoreFits
  <2>4. New(chain, k) \subseteq utxos'  BY <2>1, <2>2 DEF StoreFits
  <2>5. \A o \in Outs(chain, cursor) : o \in utxos' \/ o \notin Outs(chain, k)
    BY <2>1 DEF StoreFits
  <2>6. \A o \in utxos' : o \in Outs(chain, cursor) \/ o \in New(chain, k)
    BY <2>1 DEF StoreFits
  <2>7. More'  BY <2>1 DEF More
  <2>8. StoreFits'  BY <2>1, <2>3, <2>4, <2>5, <2>6, <2>7 DEF StoreFits
  <2>9. MintsFit'  BY <2>1 DEF MintsFit
  <2> QED  BY <2>1, <2>8, <2>9
<1>6. CASE Commit
  <2> USE <1>0, <1>1, <1>6 DEF Commit, Ticks, InBlock
  <2>1. cursor' = k /\ utxos' = utxos /\ mints' = mints /\ scanner' = "record"  OBVIOUS
  <2>2. utxos \subseteq Outs(chain, k)  BY DEF StoreFits
  <2>3. Outs(chain, k) \subseteq utxos
    <3> SUFFICES ASSUME NEW o \in Outs(chain, k) PROVE o \in utxos  OBVIOUS
    <3>1. CASE o \in New(chain, k)  BY <3>1 DEF StoreFits
    <3>2. CASE o \in Outs(chain, cursor)  BY <3>2 DEF StoreFits
    <3> QED  BY <1>2, <3>1, <3>2
  <2>4. StoreFits'  BY <2>1, <2>2, <2>3 DEF StoreFits
  <2>5. MintsFit'  BY <2>1, <2>3 DEF MintsFit
  <2> QED  BY <2>1, <2>4, <2>5
<1>7. CASE ~(AddMintData \/ AddOutputs \/ RemoveSpent \/ Commit)
  <2>1. UNCHANGED <<utxos, mints, cursor>>
    BY <1>7 DEF Scanning, Tick, Scans, Applies, ClearStaleLock, LockScanning,
       BurnHandles, Record, BuildRoot, EndTick, ScannerDies, Dawdle, store
  <2>2. scanner' = scanner \/ scanner' \notin {"outputs", "spend", "commit"}
    BY <1>7 DEF Scanning, Tick, Scans, Applies, ClearStaleLock, LockScanning, Ticks,
       BurnHandles, Record, BuildRoot, EndTick, ScannerDies, Dawdle
  <2>3. More' = More  BY <1>0, <2>1 DEF More
  <2>4. StoreFits'  BY <1>0, <2>1, <2>2, <2>3 DEF StoreFits
  <2>5. MintsFit'  BY <1>0, <2>1, <2>2 DEF MintsFit
  <2> QED  BY <1>0, <2>1, <2>4, <2>5
<1> QED  BY <1>3, <1>4, <1>5, <1>6, <1>7

LEMMA StoreFitsStep ==
  ASSUME Types, ChainFits, StoreFits, MintsFit, [Next]_vars
  PROVE  StoreFits' /\ MintsFit' /\ mints \subseteq mints' /\ cursor <= cursor'
<1>0. cursor \in Nat  BY DEF Types, ChainType
<1>1. CASE Grow  BY <1>0, <1>1, GrowKeepsStore, OtherFrame DEF store
<1>2. CASE Scanning  BY <1>2, ScanKeepsStore
<1>3. CASE UNCHANGED <<chain, store, scanner>>
  BY <1>0, <1>3 DEF StoreFits, MintsFit, More, store
<1> QED  BY <1>1, <1>2, <1>3, NextCases, HandlesFrame, OtherFrame DEF vars

(***************************************************************************)
(* A step of a handler: what it reads fits the slot it read first.         *)
(***************************************************************************)
LEMMA ReadsFitStep ==
  ASSUME Fits, [Next]_vars
  PROVE  ReadsFit'
<1>0. /\ PublisherType /\ StoreType /\ cursor \in 1 .. Len(chain) /\ Len(chain) \in Nat
      /\ cursor \in Nat /\ cursor' \in Nat
  <2>1. Types'  BY TypesStep DEF Fits
  <2> QED  BY <2>1 DEF Fits, Types, ChainType
<1>1. /\ Extends(chain, chain') /\ Len(chain') \in Nat
      /\ mints \subseteq mints' /\ cursor <= cursor'
  BY ChainExtends, StoreFitsStep DEF Fits
<1> SUFFICES ASSUME NEW q \in Publishers
             PROVE  ReadFits(publisher'[q], chain', cursor', mints')
  BY DEF ReadsFit
<1>2. ReadFits(publisher[q], chain, cursor, mints)  BY DEF Fits, ReadsFit
<1>3. CASE publisher'[q] = publisher[q]  BY <1>0, <1>1, <1>2, <1>3, ReadGrows
<1>4. ASSUME NEW p \in Publishers, Handles(p), publisher'[q] # publisher[q]
      PROVE  ReadFits(publisher'[q], chain', cursor', mints')
  <2> DEFINE h == publisher[q]
  <2>0. /\ UNCHANGED <<chain, cursor, mints, utxos>> /\ h \in PublisherStates
        /\ publisher \in [Publishers -> PublisherStates]
    BY <1>0, <1>4, HandlesFrame DEF PublisherType, store
  <2>1. q = p
    <3> SUFFICES ASSUME q # p PROVE FALSE  OBVIOUS
    <3>1. publisher'[q] = publisher[q]
      BY <1>4, <2>0 DEF Handles, WaitForUnlocked, Publishes, ReadsStore, LockSnapshot,
         ReadMetrics, ReadNames, ReadOutputs, ReadMore, ReadMints, ReadRoot, Verify, Upload,
         Prune, Unlock, UploadFails, Throws, PublisherDies, Goes
    <3> QED  BY <1>4, <3>1
  <2>2. SUFFICES ReadFits(publisher'[q], chain, cursor, mints)  BY <2>0
  <2>3. CASE WaitForUnlocked(q) \/ Unlock(q) \/ PublisherDies(q)
    BY <2>0, <2>3 DEF WaitForUnlocked, Unlock, PublisherDies, Idle, ReadFits
  <2>4. CASE LockSnapshot(q) \/ Prune(q) \/ Throws(q) \/ UploadFails(q)
    <3>1. \/ publisher'[q] = [h EXCEPT !.at = "metrics"] /\ h.at = "set"
          \/ publisher'[q] = [h EXCEPT !.at = "unlock"] /\ h.at # "upload"
          \/ publisher'[q] = [h EXCEPT !.at = "unlock", !.awaited = {}]
      BY <2>0, <2>4 DEF LockSnapshot, Prune, Throws, UploadFails, Goes, At
    <3> QED  BY <1>2, <2>0, <3>1 DEF ReadFits, PublisherStates
  <2>5. CASE ReadMetrics(q)
    <3>1. publisher'[q] = [h EXCEPT !.at = "names", !.slot = cursor] /\ h.at = "metrics"
      BY <2>0, <2>5 DEF ReadMetrics, At
    <3> QED  BY <1>0, <1>2, <2>0, <3>1 DEF ReadFits, PublisherStates
  <2>6. CASE ReadNames(q)
    <3>1. publisher'[q] = [h EXCEPT !.at = "outputs", !.names = names,
                                    !.ledger = {b \in ledger : b <= h.slot}] /\ h.at = "names"
      BY <2>0, <2>6 DEF ReadNames, At
    <3> QED  BY <1>2, <2>0, <3>1 DEF ReadFits, PublisherStates
  <2>7. CASE ReadOutputs(q)
    <3>1. PICK page \in SUBSET utxos :
             publisher'[q] = [h EXCEPT !.at = "more", !.got = Cut(q, page), !.left = utxos \ page]
      BY <2>0, <2>7 DEF ReadOutputs
    <3>2. h.at = "outputs"  BY <2>7 DEF ReadOutputs, At
    <3>3. h.slot \in 1 .. cursor  BY <1>2, <3>2 DEF ReadFits
    <3>4. Cut(q, page) \subseteq Outs(chain, h.slot)
      BY <3>3, Earlier DEF Cut, Fits
    <3>5. \A o \in Outs(chain, h.slot) : o \in Cut(q, page) \union (utxos \ page) \/ Gone(chain, o, h.slot)
      <4> SUFFICES ASSUME NEW o \in Outs(chain, h.slot), o \notin utxos \ page, o \in utxos
                   PROVE  o \in Cut(q, page)
        BY <3>3, Missing DEF Fits
      <4>1. o[2] <= h.slot
        <5>1. o \in Names \X (1 .. h.slot)  BY DEF Outs
        <5> QED  BY <3>3, <5>1
      <4> QED  BY <4>1 DEF Cut
    <3>6. \A o \in Cut(q, page) : MintFor(o, mints)  BY DEF Cut, Fits, MintsFit
    <3> QED  BY <1>2, <2>0, <3>1, <3>2, <3>3, <3>4, <3>5, <3>6 DEF ReadFits, PublisherStates
  <2>8. CASE ReadMore(q)
    <3> DEFINE all == h.got \union Cut(q, Unread(q))
    <3>1. publisher'[q] = [h EXCEPT !.at = "mints", !.left = {}, !.got = all] /\ h.at = "more"
      BY <2>0, <2>8 DEF ReadMore, At
    <3>2. h.slot \in 1 .. cursor  BY <1>2, <3>1 DEF ReadFits
    <3>3. Cut(q, Unread(q)) \subseteq Outs(chain, h.slot)
      BY <3>2, Earlier DEF Cut, Unread, Fits
    <3>4. ASSUME NEW o \in Outs(chain, h.slot), o \notin all PROVE Gone(chain, o, h.slot)
      <4>1. o \in h.left \/ Gone(chain, o, h.slot)  BY <1>2, <3>1, <3>4 DEF ReadFits
      <4>2. o[2] <= h.slot
        <5>1. o \in Names \X (1 .. h.slot)  BY DEF Outs
        <5> QED  BY <3>2, <5>1
      <4>3. CASE o \in utxos  BY <3>4, <4>1, <4>2, <4>3 DEF Cut, Unread
      <4>4. CASE o \notin utxos  BY <3>2, <4>4, Missing DEF Fits
      <4> QED  BY <4>3, <4>4
    <3>5. HealsIn(chain, h.slot, all)
      BY <1>2, <3>1, <3>3, <3>4 DEF HealsIn, ReadFits
    <3>6. \A o \in all : MintFor(o, mints)
      BY <1>2, <3>1 DEF Cut, Unread, Fits, MintsFit, ReadFits
    <3> HIDE DEF all
    <3> QED  BY <1>2, <2>0, <3>1, <3>2, <3>5, <3>6 DEF ReadFits, PublisherStates
  <2>9. CASE ReadMints(q)
    <3> DEFINE kept == {m \in mints : m[2] <= h.slot}
    <3>1. publisher'[q] = [h EXCEPT !.at = "root", !.mints = kept] /\ h.at = "mints"
      BY <2>0, <2>9 DEF ReadMints, At
    <3>2. h.slot \in 1 .. cursor /\ HealsIn(chain, h.slot, h.got)  BY <1>2, <3>1 DEF ReadFits
    <3>3. ASSUME NEW o \in h.got PROVE MintFor(o, kept)
      <4>1. PICK m \in mints : m[1] = o[1] /\ m[2] <= o[2]  BY <1>2, <3>1 DEF ReadFits, MintFor
      <4>2. o \in Names \X (1 .. h.slot)  BY <3>2 DEF HealsIn, Outs
      <4>3. m \in Names \X (1 .. MaxBlocks)  BY <1>0 DEF StoreType, Outputs
      <4>4. o[2] \in 1 .. h.slot /\ m[2] \in Nat  BY <4>2, <4>3
      <4>5. m[2] <= h.slot  BY <3>2, <4>1, <4>4
      <4> QED  BY <4>1, <4>5 DEF MintFor
    <3>4. \A m \in kept : m[2] <= h.slot  OBVIOUS
    <3> HIDE DEF kept
    <3> QED  BY <1>2, <2>0, <3>1, <3>2, <3>3, <3>4 DEF ReadFits, PublisherStates
  <2>10. CASE ReadRoot(q)
    <3>1. PICK r : publisher'[q] = [h EXCEPT !.at = "datum", !.root = r] /\ h.at = "root"
      BY <2>0, <2>10 DEF ReadRoot, At
    <3> QED  BY <1>2, <2>0, <3>1 DEF ReadFits, PublisherStates
  <2>11. CASE Verify(q)
    <3>1. PICK v : publisher'[q] = [h EXCEPT !.at = "upload", !.awaited = Keys, !.verified = v]
                   /\ h.at = "datum"
      BY <2>0, <2>11 DEF Verify, At
    <3> QED  BY <1>2, <2>0, <3>1 DEF ReadFits, PublisherStates
  <2>12. CASE Upload(q)
    <3>1. PICK key \in h.awaited :
             publisher'[q] = [h EXCEPT !.awaited = @ \ {key},
                              !.at = IF h.awaited = {key} THEN "prune" ELSE "upload"]
      BY <2>0, <2>12 DEF Upload
    <3>2. h.at = "upload"  BY <2>12 DEF Upload, At
    <3>3. CASE h.awaited = {key}
      <4>1. publisher'[q] = [h EXCEPT !.awaited = {}, !.at = "prune"]  BY <3>1, <3>3
      <4> QED  BY <1>2, <2>0, <3>2, <4>1 DEF ReadFits, PublisherStates
    <3>4. CASE h.awaited # {key}
      <4>1. PICK rest : publisher'[q] = [h EXCEPT !.awaited = rest, !.at = "upload"]
        BY <3>1, <3>4
      <4> QED  BY <1>2, <2>0, <3>2, <4>1 DEF ReadFits, PublisherStates
    <3> QED  BY <3>3, <3>4
  <2> QED  BY <1>4, <2>1, <2>3, <2>4, <2>5, <2>6, <2>7, <2>8, <2>9, <2>10, <2>11, <2>12
           DEF Handles, Publishes, ReadsStore
<1> QED  BY <1>3, <1>4, NextCases, ScanningFrame, OtherFrame DEF vars

(***************************************************************************)
(* The files.                                                              *)
(***************************************************************************)
LEMMA FileGood ==
  ASSUME Fits, NEW p \in Publishers, publisher[p].at = "upload"
  PROVE  Good(File(p), chain)
<1>0. /\ cursor \in 1 .. Len(chain) /\ Len(chain) \in Nat
      /\ ReadFits(publisher[p], chain, cursor, mints)
  BY DEF Fits, ReadsFit, Types, ChainType
<1>1. publisher[p].slot \in 1 .. Len(chain)  BY <1>0 DEF ReadFits
<1> QED  BY <1>0, <1>1 DEF ReadFits, Good, File

LEMMA FilesFitStep ==
  ASSUME Fits, [Next]_vars
  PROVE  FilesFit'
<1>0. Extends(chain, chain') /\ Len(chain) \in Nat /\ Len(chain') \in Nat
  BY ChainExtends DEF Fits
<1>1. \A file : Good(file, chain) => Good(file, chain')  BY <1>0, GoodGrows
<1>2. CASE UNCHANGED objects  BY <1>1, <1>2 DEF Fits, FilesFit, objects
<1>3. CASE Lands
  <2>1. PICK upload \in late : Put(upload[1], upload[2]) /\ late' = late \ {upload}
    BY <1>3 DEF Lands
  <2>2. Good(upload[2], chain')  BY <1>1, <2>1 DEF Fits, FilesFit
  <2> QED  BY <1>1, <2>1, <2>2 DEF Fits, FilesFit, Put
<1>4. ASSUME NEW p \in Publishers, Handles(p)
      PROVE  FilesFit'
  <2>0. ReadFits(publisher[p], chain, cursor, mints)  BY DEF Fits, ReadsFit
  <2>1. publisher[p].awaited # {} => Good(File(p), chain')
    <3> SUFFICES ASSUME publisher[p].awaited # {} PROVE Good(File(p), chain')  OBVIOUS
    <3>1. publisher[p].at = "upload"  BY <2>0 DEF ReadFits
    <3> QED  BY <1>1, <3>1, FileGood
  <2>2. CASE UNCHANGED objects  BY <1>2, <2>2
  <2>3. CASE Upload(p)
    <3>1. PICK key \in publisher[p].awaited : Put(key, File(p)) /\ late' = late
      BY <2>3 DEF Upload
    <3>2. Good(File(p), chain')  BY <2>1, <3>1
    <3> QED  BY <1>1, <3>1, <3>2 DEF Fits, FilesFit, Put
  <2>4. CASE UploadFails(p)
    <3>1. PICK key \in publisher[p].awaited :
             late' = late \union {<<other, File(p)>> : other \in publisher[p].awaited \ {key}}
      BY <2>4 DEF UploadFails
    <3>2. fixed' = fixed /\ archive' = archive  BY <2>4 DEF UploadFails
    <3> QED  BY <1>1, <2>1, <3>1, <3>2 DEF Fits, FilesFit
  <2>5. CASE Prune(p)
    <3>1. archive' \subseteq archive /\ fixed' = fixed /\ late' = late  BY <2>5 DEF Prune
    <3> QED  BY <1>1, <3>1 DEF Fits, FilesFit
  <2>6. CASE PublisherDies(p)
    <3>1. /\ late' = late \union {<<key, File(p)>> : key \in publisher[p].awaited}
          /\ fixed' = fixed /\ archive' = archive
      BY <2>6 DEF PublisherDies
    <3> QED  BY <1>1, <2>1, <3>1 DEF Fits, FilesFit
  <2> QED  BY <1>4, <2>2, <2>3, <2>4, <2>5, <2>6
           DEF Handles, Publishes, ReadsStore, WaitForUnlocked, LockSnapshot, ReadMetrics,
               ReadNames, ReadOutputs, ReadMore, ReadMints, ReadRoot, Verify, Unlock, Throws,
               Reading, objects
<1> QED  BY <1>2, <1>3, <1>4, NextCases, ScanningFrame, OtherFrame DEF vars

LEMMA FitsInit == Init => Fits
<1> SUFFICES ASSUME Init PROVE Fits  OBVIOUS
<1>0. /\ chain = <<Genesis>> /\ Len(chain) = 1 /\ chain[1] = Genesis /\ cursor = 1
      /\ Genesis \in [Names -> {0, 1}]
  BY PublishAssumption DEF Init
<1>1. ChainFits
  <2> SUFFICES ASSUME NEW n \in Names, NEW j \in 1 .. 1
               PROVE  /\ chain[1][n] \in 0 .. 1
                      /\ chain[1][n] \in 1 .. j => chain[j][n] = chain[1][n]
    BY <1>0 DEF ChainFits
  <2>1. j = 1  OBVIOUS
  <2>2. chain[1][n] \in {0, 1}  BY <1>0
  <2> QED  BY <2>1, <2>2
<1>2. StoreFits
  <2>1. utxos = Outs(chain, cursor) /\ scanner = "off"  BY Renamed DEF Init
  <2> QED  BY <2>1 DEF StoreFits
<1>3. MintsFit
  <2>1. utxos = Outs(chain, 1) /\ mints = {<<n, 1>> : n \in NamesAt(1)} /\ scanner = "off"
    BY Renamed DEF Init
  <2>2. ASSUME NEW o \in Outs(chain, 1) PROVE MintFor(o, mints)
    <3>1. o \in Names \X (1 .. 1) /\ chain[1][o[1]] = o[2]  BY DEF Outs
    <3>2. o[2] = 1 /\ o[1] \in NamesAt(1)  BY <3>1 DEF NamesAt
    <3>3. <<o[1], 1>> \in mints  BY <2>1, <3>2
    <3> QED  BY <3>2, <3>3 DEF MintFor
  <2> QED  BY <1>0, <2>1, <2>2 DEF MintsFit
<1>4. ReadsFit  BY DEF Init, ReadsFit, ReadFits, Idle
<1>5. FilesFit  BY DEF Init, FilesFit
<1> QED  BY <1>1, <1>2, <1>3, <1>4, <1>5, TypeInit DEF Fits

LEMMA FitsStep == Fits /\ [Next]_vars => Fits'
<1> SUFFICES ASSUME Fits, [Next]_vars PROVE Fits'  OBVIOUS
<1>1. Types'  BY TypesStep DEF Fits
<1>2. ChainFits' /\ StoreFits' /\ MintsFit'  BY ChainFitsStep, StoreFitsStep DEF Fits
<1>3. ReadsFit' /\ FilesFit'  BY ReadsFitStep, FilesFitStep
<1> QED  BY <1>1, <1>2, <1>3 DEF Fits

LEMMA SpecFits == Spec => []Fits
BY FitsInit, FitsStep, PTL DEF Spec

(* Any published file, imported and scanned on, gives the chain's state,   *)
(* whichever calls of a scanner or of other handlers its read met.         *)
THEOREM PublishedHealsCorrect == Spec => []PublishedHeals
<1>1. Fits => PublishedHeals
  BY Renamed DEF Fits, FilesFit, Good, PublishedHeals, Published, Heals, HealsIn, Gone
<1> QED  BY <1>1, SpecFits, PTL

(* Any published file that was verified passes the importer's validation,  *)
(* and any file carries the minting data its outputs need.                 *)
THEOREM PublishedImportsCorrect == Spec => []PublishedImports
<1>1. Fits => PublishedImports
  <2> SUFFICES ASSUME Fits, NEW file \in Published
               PROVE  /\ WithinSlot(file)
                      /\ \A o \in file.utxos : \E m \in file.mints : m[1] = o[1] /\ m[2] <= o[2]
    BY DEF PublishedImports, Validates
  <2>1. Good(file, chain)  BY DEF Fits, FilesFit, Published
  <2>2. file.slot \in Nat  BY <2>1 DEF Good
  <2>3. \A o \in file.utxos : o[2] <= file.slot
    <3> SUFFICES ASSUME NEW o \in file.utxos PROVE o[2] <= file.slot  OBVIOUS
    <3>1. o \in Names \X (1 .. file.slot)  BY <2>1 DEF Good, HealsIn, Outs
    <3> QED  BY <2>2, <3>1
  <2>4. WithinSlot(file)  BY <2>1, <2>3 DEF Good, WithinSlot
  <2> QED  BY <2>1, <2>4 DEF Good, MintFor
<1> QED  BY <1>1, SpecFits, PTL
=============================================================================
