---------------------------- MODULE HandleIndex ----------------------------
(***************************************************************************)
(* The handle index of api.handle.me and the forward scan that maintains   *)
(* it: processScannerBlock (lambdas/scanner.app.ts) applied, block after   *)
(* block, to the indexes HandlesRepository keeps in Valkey.                *)
(*                                                                         *)
(* The store runs a group of commands queued by `pipeline` as one atomic   *)
(* batch, so each pipeline is one action here.  Between two pipelines of   *)
(* one block the lambda may die; the next invocation finds the cursor      *)
(* where the last complete block left it and applies the block again.      *)
(* Inside a pipeline every read but SCARD is queued too and returns        *)
(* nothing, and SCARD sees the store as it was before the batch: the       *)
(* definitions below use the unprimed (pre-batch) sets exactly where the   *)
(* code does.                                                              *)
(*                                                                         *)
(* A scan has one writer here; what two invocations may do to each other   *)
(* is a question of the scanner lease and not of this module.              *)
(***************************************************************************)
EXTENDS Integers, Sequences, FiniteSets

CONSTANTS
    Name,        \* handle names
    Addr,        \* payment addresses
    Holder,      \* holder keys: stake address, or the address itself
    HolderOf,    \* buildHolderInfo: the holder key of every address
    Root,        \* root handles that have subhandles
    RootOf,      \* name.split('@')[1], or NoRoot for a handle without '@'
    Asset,       \* the tokens <<name, label>> the chain may hold
    NoHandle, NoAddr, NoRoot, NoUtxo, NoDatum,
    Orphans,     \* may a companion token outlive the main token of its name?
    MaxSlot,     \* bound: blocks with handle transactions
    MaxTxs,      \* bound: handle transactions in one block
    MaxInputs,   \* bound: handle outputs one transaction spends
    MaxCrashes   \* bound: invocations that die inside a block

Main == {"222", "000"}          \* 222 stands for the unlabelled legacy token too
Tracked == {"001"}              \* REGISTRY_LABEL_PREFIXES
Labels == {"222", "000", "001", "100"}

AnyAddr == Addr \union {NoAddr}

VARIABLES
    \* the chain (external)
    ledger,      \* live outputs that carry handle tokens
    block,       \* transactions of the block after the cursor
    nextId,      \* the next output id
    \* the scanner
    pc,          \* the next pipeline of processScannerBlock
    todo,        \* surviving outputs of the block still to index
    crashes,
    \* metrics and the scanned-blocks ledger
    currentSlot, \* metrics.currentSlot: the cursor
    scanned,
    \* the indexes
    handle,      \* HANDLE
    holderSet,   \* HOLDER:<holder>
    holderRoot,  \* HOLDER, the set of holder keys holderCount() counts
    holderCount, \* HOLDER_COUNT scores; 0 is an absent member
    addrSet,     \* ADDRESS:<address> (PAYMENT_KEY_HASH is kept the same way)
    subSet,      \* SUBHANDLE:<root>
    subRoot,     \* SUBHANDLE, the set getRootHandleNames() returns
    registry,    \* the derived asset-label hash the MPT root is built from
    utxos,       \* UTXO and UTXO_SLOT
    mints        \* names that have a MINT entry

chain == <<ledger, nextId>>
derived == <<holderSet, holderRoot, holderCount, addrSet, subSet, subRoot>>
index == <<handle, derived, registry, utxos, mints>>
vars == <<chain, block, pc, todo, crashes, currentSlot, scanned, index>>

UTxO == [id : Nat, addr : Addr, assets : SUBSET Asset,
         datum : Addr \union {NoDatum}, minted : SUBSET Name, slot : Nat]

Tx == [inputs : SUBSET UTxO, outs : SUBSET UTxO, burned : SUBSET Asset]

Handle == [addr : AnyAddr, utxo : Nat \union {NoUtxo}, ref : Nat \union {NoUtxo},
           amount : Nat, labels : SUBSET Tracked, slot : Nat]

ASSUME HandleIndexAssumption ==
    /\ HolderOf \in [AnyAddr -> Holder]
    /\ RootOf \in [Name -> Root \union {NoRoot}]
    /\ Asset \subseteq Name \X Labels
    /\ \A n \in Name : ~({<<n, "222">>, <<n, "000">>} \subseteq Asset)
    /\ IsFiniteSet(Name)
    /\ NoAddr \notin Addr /\ NoRoot \notin Root
    /\ NoDatum \notin Addr
    /\ NoUtxo \notin Nat
    /\ NoHandle \notin Handle
    /\ \A a \in Addr : HolderOf[a] # HolderOf[NoAddr]
    /\ Orphans \in BOOLEAN
    /\ {MaxSlot, MaxTxs, MaxInputs, MaxCrashes} \subseteq Nat

Steps == {"idle", "burn", "labels", "mint", "outputs", "spend", "commit", "record"}

TypeOK ==
    /\ ledger \subseteq UTxO
    /\ block \in Seq(Tx)
    /\ nextId \in Nat
    /\ pc \in Steps
    /\ todo \subseteq UTxO
    /\ crashes \in Nat
    /\ currentSlot \in Nat
    /\ scanned \subseteq Nat
    /\ handle \in [Name -> Handle \union {NoHandle}]
    /\ holderSet \in [Holder -> SUBSET Name]
    /\ holderRoot \subseteq Holder
    /\ holderCount \in [Holder -> Nat]
    /\ addrSet \in [AnyAddr -> SUBSET Name]
    /\ subSet \in [Root -> SUBSET Name]
    /\ subRoot \subseteq Root
    /\ registry \in [Name -> SUBSET Tracked]
    /\ utxos \subseteq Nat
    /\ mints \subseteq Name

Init ==
    /\ ledger = {} /\ block = <<>> /\ nextId = 1
    /\ pc = "idle" /\ todo = {} /\ crashes = 0
    /\ currentSlot = 0 /\ scanned = {}
    /\ handle = [n \in Name |-> NoHandle]
    /\ holderSet = [h \in Holder |-> {}]
    /\ holderRoot = {}
    /\ holderCount = [h \in Holder |-> 0]
    /\ addrSet = [a \in AnyAddr |-> {}]
    /\ subSet = [r \in Root |-> {}]
    /\ subRoot = {}
    /\ registry = [n \in Name |-> {}]
    /\ utxos = {}
    /\ mints = {}

-----------------------------------------------------------------------------
(***************************************************************************)
(* The chain.  A transaction spends handle outputs, burns and mints handle *)
(* tokens and puts what is left in at most two outputs.  Every token is an *)
(* NFT.  Unless Orphans, a 100 or 001 token does not outlive the 222 or    *)
(* 000 of its name.  A reference token is held by a script and so never    *)
(* shares an output with its 222, and the datum of a 000 output describes  *)
(* one subhandle: the output carries no other name.                        *)
(***************************************************************************)
Assets(us) == UNION {u.assets : u \in us}
NamesOf(as) == {a[1] : a \in as}
HasMain(n, as) == \E l \in Main : <<n, l>> \in as

Packed(as) ==
    /\ \A n \in Name : ~({<<n, "100">>, <<n, "222">>} \subseteq as)
    /\ \A n \in Name : <<n, "000">> \in as => NamesOf(as) = {n}

Datums(as, addr) ==
    IF \E n \in Name : <<n, "000">> \in as THEN Addr \union {NoDatum}
    ELSE IF \E n \in Name : <<n, "100">> \in as \/ <<n, "001">> \in as
         THEN {addr, NoDatum}
         ELSE {NoDatum}

Output(id, as, addr, datum, minted) ==
    [id |-> id, addr |-> addr, assets |-> as, datum |-> datum,
     minted |-> {n \in Name : HasMain(n, as \intersect minted)},
     slot |-> currentSlot + 1]

Carried(ins, burned, minted) == (Assets(ins) \ burned) \union minted

Outputs(first, rest, a1, a2, d1, d2, minted) ==
    {u \in {Output(nextId, first, a1, d1, minted), Output(nextId + 1, rest, a2, d2, minted)} :
        u.assets # {}}

Submit(ins, burned, outs) ==
    /\ ledger' = (ledger \ ins) \union outs
    /\ block' = Append(block, [inputs |-> ins, outs |-> outs, burned |-> burned])

AppendTx ==
    /\ pc = "idle" /\ currentSlot < MaxSlot /\ Len(block) < MaxTxs
    /\ \E ins \in SUBSET ledger :
       /\ Cardinality(ins) <= MaxInputs
       /\ \E burned \in SUBSET Assets(ins), minted \in SUBSET (Asset \ Assets(ledger)) :
          /\ ins # {} \/ minted # {}
          /\ LET live == Carried(ledger, burned, minted)
             IN Orphans \/ \A a \in live : HasMain(a[1], live)
          /\ \E first \in SUBSET Carried(ins, burned, minted) :
             \E rest \in {Carried(ins, burned, minted) \ first} :
             /\ first = {} => rest = {}
             /\ Packed(first) /\ Packed(rest)
             /\ \E a1, a2 \in Addr :
                /\ rest = {} => a2 = a1
                /\ \E d1 \in Datums(first, a1), d2 \in Datums(rest, a2) :
                      Submit(ins, burned, Outputs(first, rest, a1, a2, d1, d2, minted))
    /\ nextId' = nextId + 2
    /\ UNCHANGED <<pc, todo, crashes, currentSlot, scanned, index>>

Txs == {block[i] : i \in DOMAIN block}
BlockOuts == UNION {t.outs : t \in Txs}
Spent == {u.id : u \in UNION {t.inputs : t \in Txs}}
BurnedIn(labels) == {a[1] : a \in {b \in UNION {t.burned : t \in Txs} : b[2] \in labels}}

-----------------------------------------------------------------------------
(***************************************************************************)
(* Reading the indexes.                                                    *)
(***************************************************************************)
Stored(n) == handle[n] # NoHandle
HolderOfHandle(h) == HolderOf[h.addr]

(* removeKeyFromMetaIndex in a pipeline: the key leaves the root set when  *)
(* the set it names had at most one member before the batch.               *)
DropsKey(set, key) == Cardinality(set[key]) <= 1

StartBlock ==
    /\ pc = "idle" /\ block # <<>>
    /\ pc' = "burn"
    /\ UNCHANGED <<chain, block, todo, crashes, currentSlot, scanned, index>>

-----------------------------------------------------------------------------
(***************************************************************************)
(* The burn pipeline: removeHandle for every stored name whose 222 or 000  *)
(* the block burns.  A handle of amount 2 or more is saved with one less.  *)
(***************************************************************************)
Gone == {n \in BurnedIn(Main) : Stored(n) /\ handle[n].amount - 1 <= 0}
Fewer == {n \in BurnedIn(Main) : Stored(n) /\ handle[n].amount - 1 > 0}

(* Mutant: the deferred SMEMBERS, always empty inside a pipeline, is        *)
(* believed.                                                               *)
LeftBySmembers(h) == 0

(* What the burn leaves of a holder: SCARD before the batch less the       *)
(* removals already queued for that holder.                                *)
LeftAfterBurn(h) == Cardinality(holderSet[h]) - Cardinality({n \in Gone : HolderOfHandle(handle[n]) = h})

SubHandlesAfterBurn == [r \in Root |-> subSet[r] \ {n \in Gone : RootOf[n] = r}]

(* Mutant: a burn forgets the derived label hash. *)
RegistryKeptByBurn == registry

RegistryAfterBurn == [n \in Name |-> IF n \in Gone THEN {} ELSE registry[n]]

BurnHandles ==
    /\ pc = "burn"
    /\ handle' = [n \in Name |-> IF n \in Gone THEN NoHandle
                                 ELSE IF n \in Fewer THEN [handle[n] EXCEPT !.amount = @ - 1]
                                 ELSE handle[n]]
    /\ LET hit == {HolderOfHandle(handle[n]) : n \in Gone}
       IN /\ holderSet' = [h \in Holder |->
                IF h \in hit /\ LeftAfterBurn(h) <= 0 THEN {}
                ELSE holderSet[h] \ {n \in Gone : HolderOfHandle(handle[n]) = h}]
          /\ holderRoot' = holderRoot \ {h \in hit : DropsKey(holderSet, h)}
          /\ holderCount' = [h \in Holder |->
                IF h \notin hit THEN holderCount[h]
                ELSE IF LeftAfterBurn(h) > 0 THEN LeftAfterBurn(h) ELSE 0]
    /\ addrSet' = [a \in AnyAddr |-> addrSet[a] \ {n \in Gone : handle[n].addr = a}]
    /\ subSet' = SubHandlesAfterBurn
    /\ subRoot' = subRoot \ {r \in Root : (\E n \in Gone : RootOf[n] = r) /\ DropsKey(subSet, r)}
    /\ registry' = RegistryAfterBurn
    /\ pc' = "labels"
    /\ UNCHANGED <<chain, block, todo, crashes, currentSlot, scanned, utxos, mints>>

(***************************************************************************)
(* The label-burn pipeline.  removeHandleLabel reads the handle with       *)
(* HGETALL inside the pipeline, is answered `undefined` and returns: the   *)
(* pipeline queues reads and writes nothing.                               *)
(***************************************************************************)
BurnLabels ==
    /\ pc = "labels"
    /\ pc' = "mint"
    /\ UNCHANGED <<chain, block, todo, crashes, currentSlot, scanned, index>>

(* addMintDataFromUTxOs over every output of the block, then the outputs   *)
(* the block itself does not spend are taken up for indexing.              *)
MintedInBlock == UNION {u.minted : u \in BlockOuts}

(* Mutant: every output of the block is indexed, spent in it or not. *)
AddMintDataUnfiltered ==
    /\ pc = "mint"
    /\ mints' = mints \union MintedInBlock
    /\ todo' = BlockOuts
    /\ pc' = "outputs"
    /\ UNCHANGED <<chain, block, crashes, currentSlot, scanned, handle, derived, registry, utxos>>

AddMintData ==
    /\ pc = "mint"
    /\ mints' = mints \union MintedInBlock
    /\ todo' = {u \in BlockOuts : u.id \notin Spent}
    /\ pc' = "outputs"
    /\ UNCHANGED <<chain, block, crashes, currentSlot, scanned, handle, derived, registry, utxos>>

-----------------------------------------------------------------------------
(***************************************************************************)
(* updateHandleIndexes for one output: the record of each name after each  *)
(* label, in the order the ledger lists them (000, 001, 100, 222).         *)
(***************************************************************************)
Built(u) == [addr |-> u.addr, utxo |-> NoUtxo, ref |-> NoUtxo,
             amount |-> 1, labels |-> {}, slot |-> u.slot]

Read(h, u) == IF h = NoHandle THEN Built(u) ELSE h

DoubleMint(h, n, u) ==
    n \in u.minted /\ h # NoHandle /\ h.utxo # NoUtxo /\ h.utxo # u.id

After222(h, n, u) ==
    IF <<n, "222">> \notin u.assets THEN h
    ELSE LET e == Read(h, u)
         IN IF u.slot >= e.slot \/ e.utxo = NoUtxo
            THEN [e EXCEPT !.addr = u.addr, !.utxo = u.id, !.slot = u.slot,
                           !.amount = IF DoubleMint(h, n, u) THEN @ + 1 ELSE @]
            ELSE e

After000(h, n, u) ==
    IF <<n, "000">> \notin u.assets THEN h
    ELSE LET e == Read(h, u)
         IN IF u.slot >= e.slot
            THEN [e EXCEPT !.addr = IF u.datum = NoDatum THEN @ ELSE u.datum,
                           !.utxo = u.id, !.ref = u.id, !.slot = u.slot]
            ELSE e

(* A 001 without a datum keeps its slot and settings but is still recorded *)
(* in the label set.                                                       *)
After001(h, n, u) ==
    IF <<n, "001">> \notin u.assets THEN h
    ELSE LET e == Read(h, u)
         IN [e EXCEPT !.labels = @ \union {"001"},
                      !.slot = IF u.slot >= @ /\ u.datum # NoDatum THEN u.slot ELSE @]

(* Mutant: a later reference output does not move reference_utxo. *)
After100First(h, n, u) ==
    IF <<n, "100">> \notin u.assets \/ (h # NoHandle /\ h.ref # NoUtxo) THEN h
    ELSE IF u.datum = NoDatum THEN h
    ELSE [Read(h, u) EXCEPT !.ref = u.id]

(* A reference token without a datum is skipped before anything is saved.  *)
After100(h, n, u) ==
    IF <<n, "100">> \notin u.assets THEN h
    ELSE LET e == Read(h, u)
         IN IF u.slot < e.slot THEN e
            ELSE IF u.datum = NoDatum THEN h
            ELSE [e EXCEPT !.ref = u.id,
                           !.addr = IF h = NoHandle THEN NoAddr ELSE @]

Indexed(n, u) == After222(After100(After001(After000(handle[n], n, u), n, u), n, u), n, u)

(* Names that updateHandleIndexes saves.                                   *)
Saved(u) == {n \in NamesOf(u.assets) :
                \/ \E l \in Main \union Tracked : <<n, l>> \in u.assets
                \/ Indexed(n, u) # NoHandle /\ u.datum # NoDatum
                \/ Stored(n) /\ u.slot < handle[n].slot}

(* Mutant: the MINT index is never consulted. *)
LacksMintDataOfBlock(u) == \E n \in NamesOf(u.assets) : n \notin MintedInBlock

(* The minting data updateHandleIndexes is given: the map of this block's  *)
(* mints alone when the output holds a token minted by its transaction,    *)
(* the MINT index otherwise.                                               *)
LacksMintData(u) ==
    \E n \in NamesOf(u.assets) :
        n \notin IF u.minted # {} THEN MintedInBlock ELSE mints

(* The records after the output, and the names that join and leave a       *)
(* holder by it.                                                           *)
After(u) == [n \in Name |-> IF n \in Saved(u) THEN Indexed(n, u) ELSE handle[n]]

Joins(u, h) == {n \in Saved(u) : HolderOfHandle(Indexed(n, u)) = h}

Leaves(u, h) == {n \in Saved(u) : /\ Stored(n) /\ HolderOfHandle(handle[n]) = h
                                  /\ HolderOfHandle(Indexed(n, u)) # h}

AddressesAfter(u) ==
    [a \in AnyAddr |-> (addrSet[a] \ {n \in Saved(u) : Stored(n) /\ handle[n].addr = a})
                          \union {n \in Saved(u) : Indexed(n, u).addr = a}]

HolderAfter(u, h) == (holderSet[h] \union Joins(u, h)) \ Leaves(u, h)

(* The holder sets buildIndexInfoFromUTxO reads before the pipeline: those *)
(* of the output's address and of the handles as stored.  updateHolder     *)
(* takes any other holder for an empty one when it scores HOLDER_COUNT.    *)
Seeded(u) ==
    {HolderOf[u.addr]} \union
        {HolderOfHandle(handle[n]) : n \in {m \in NamesOf(u.assets) :
                                              Stored(m) /\ handle[m].addr # NoAddr}}

CountAfter(u, h) ==
    IF Joins(u, h) = {} /\ Leaves(u, h) = {} THEN holderCount[h]
    ELSE IF h \in Seeded(u) THEN Cardinality(HolderAfter(u, h))
    ELSE IF Joins(u, h) # {} THEN Cardinality(Joins(u, h))
    ELSE Cardinality(holderSet[h] \ Leaves(u, h))

(* save writes the label hash only when the labels differ from before.     *)
Relabelled(u) ==
    {n \in Saved(u) : Indexed(n, u).labels # IF Stored(n) THEN handle[n].labels ELSE {}}

IndexOutput(u) ==
    /\ handle' = After(u)
    /\ holderSet' = [h \in Holder |-> HolderAfter(u, h)]
    /\ holderRoot' = (holderRoot \ {h \in Holder : Leaves(u, h) # {} /\ DropsKey(holderSet, h)})
                         \union {h \in Holder : Joins(u, h) # {}}
    /\ holderCount' = [h \in Holder |-> CountAfter(u, h)]
    /\ addrSet' = AddressesAfter(u)
    /\ subSet' = [r \in Root |-> subSet[r] \union {n \in Saved(u) : RootOf[n] = r}]
    /\ subRoot' = subRoot \union {r \in Root : \E n \in Saved(u) : RootOf[n] = r}
    /\ registry' = [n \in Name |-> IF n \in Relabelled(u) THEN Indexed(n, u).labels ELSE registry[n]]
    /\ utxos' = utxos \union {u.id}
    /\ UNCHANGED mints

(* Outputs are sorted so that those with a 222 token come first.           *)
Has222(u) == \E n \in Name : <<n, "222">> \in u.assets

NextOut(u) == u \in todo /\ (Has222(u) \/ \A v \in todo : ~Has222(v))

AddOutput ==
    /\ pc = "outputs"
    /\ \E u \in todo :
        /\ NextOut(u) /\ ~LacksMintData(u)
        /\ IndexOutput(u)
        /\ todo' = todo \ {u}
    /\ UNCHANGED <<chain, block, pc, crashes, currentSlot, scanned>>

(* "No minting data found": the pipeline is abandoned, scan returns false  *)
(* and the next invocation starts from the cursor again.                   *)
MintDataMissing ==
    /\ pc = "outputs"
    /\ \E u \in todo : NextOut(u) /\ LacksMintData(u)
    /\ pc' = "burn" /\ todo' = {}
    /\ UNCHANGED <<chain, block, crashes, currentSlot, scanned, index>>

OutputsDone ==
    /\ pc = "outputs" /\ todo = {}
    /\ pc' = "spend"
    /\ UNCHANGED <<chain, block, todo, crashes, currentSlot, scanned, index>>

-----------------------------------------------------------------------------
(* Mutant: the spent outputs stay in the store. *)
RemoveSpentNothing ==
    /\ pc = "spend"
    /\ pc' = "commit"
    /\ UNCHANGED <<chain, block, todo, crashes, currentSlot, scanned, index>>

RemoveSpent ==
    /\ pc = "spend"
    /\ utxos' = utxos \ Spent
    /\ pc' = "commit"
    /\ UNCHANGED <<chain, block, todo, crashes, currentSlot, scanned, handle, derived,
                   registry, mints>>

CommitCursor ==
    /\ pc = "commit"
    /\ currentSlot' = currentSlot + 1
    /\ block' = <<>>
    /\ pc' = "record"
    /\ UNCHANGED <<chain, todo, crashes, scanned, index>>

RecordScanned ==
    /\ pc = "record"
    /\ scanned' = scanned \union {currentSlot}
    /\ pc' = "idle"
    /\ UNCHANGED <<chain, block, todo, crashes, currentSlot, index>>

(* The invocation dies between two store calls.  The cursor decides where  *)
(* the next one starts: the same block from its first step, or, once the   *)
(* cursor has moved, the next block.                                       *)
Crash ==
    /\ pc # "idle" /\ crashes < MaxCrashes
    /\ crashes' = crashes + 1
    /\ pc' = IF pc = "record" THEN "idle" ELSE "burn"
    /\ todo' = {}
    /\ UNCHANGED <<chain, block, currentSlot, scanned, index>>

(* The bound on the chain is reached and everything is committed.          *)
Finished ==
    /\ pc = "idle" /\ block = <<>> /\ currentSlot = MaxSlot
    /\ UNCHANGED vars

ScanStep ==
    \/ StartBlock \/ BurnHandles \/ BurnLabels \/ AddMintData
    \/ AddOutput \/ MintDataMissing \/ OutputsDone
    \/ RemoveSpent \/ CommitCursor \/ RecordScanned

Next == AppendTx \/ ScanStep \/ Crash \/ Finished

Spec == Init /\ [][Next]_vars

(* The scanner is invoked by a schedule for as long as it is deployed, and *)
(* an invocation that is not killed takes its next step.  Nothing is       *)
(* assumed of the chain or of crashes.                                     *)
FairSpec == Spec /\ WF_vars(ScanStep)

-----------------------------------------------------------------------------
(***************************************************************************)
(* What readers rely on between any two pipelines: every index agrees with *)
(* the handle records, because save, updateHolder and removeHandle queue   *)
(* their writes in one batch.                                              *)
(***************************************************************************)

(* HOLDER:<holder> lists exactly the handles whose record names the holder: *)
(* a burn or a move of one handle never empties or misses the reverse list *)
(* of another (the guard in _removeHandleFromHolder).                      *)
HolderSetsMatch ==
    \A h \in Holder : holderSet[h] = {n \in Name : Stored(n) /\ HolderOfHandle(handle[n]) = h}

(* HOLDER_COUNT scores every holder an address names with the size of its  *)
(* reverse list and has no member for a holder without handles, whatever   *)
(* the removals and additions one pipeline queues (updateHolder and        *)
(* _removeHandleFromHolder).                                               *)
HolderCountMatch ==
    \A h \in Holder \ {HolderOf[NoAddr]} : holderCount[h] = Cardinality(holderSet[h])

(* ADDRESS:<address> lists exactly the handles that resolve to it: save    *)
(* removes the old address of a handle it moves.                           *)
AddressSetsMatch ==
    \A a \in AnyAddr : addrSet[a] = {n \in Name : Stored(n) /\ handle[n].addr = a}

(* SUBHANDLE:<root> lists exactly the stored subhandles of the root (save  *)
(* adds, removeHandle removes).                                            *)
SubHandleSetsMatch ==
    \A r \in Root : subSet[r] = {n \in Name : Stored(n) /\ RootOf[n] = r}

(* No holder with a handle is missing from the HOLDER root set, nor a root *)
(* handle with a subhandle from the SUBHANDLE root set: the pre-batch      *)
(* SCARD of removeKeyFromMetaIndex never drops a key that is still in use. *)
RootsCover ==
    /\ \A h \in Holder : holderSet[h] # {} => h \in holderRoot
    /\ \A r \in Root : subSet[r] # {} => r \in subRoot

(* The derived indexes that are cut from the records, taken together.      *)
IndexesMatch ==
    /\ HolderSetsMatch
    /\ HolderCountMatch
    /\ AddressSetsMatch
    /\ SubHandleSetsMatch
    /\ RootsCover

(* The derived label hash, from which every MPT root is built, holds for   *)
(* each name the label set of its record, and nothing for a name without   *)
(* one (save writes it only when the set changes, removeHandle clears it). *)
RegistryMirrorsHandle ==
    \A n \in Name : registry[n] = IF Stored(n) THEN handle[n].labels ELSE {}

(* No handle record points to an output the UTXO index no longer has, at   *)
(* any point of a block, of its replay after a crash, or between blocks:   *)
(* processScannerBlock removes spent outputs only after it has re-pointed  *)
(* the handles they carried.                                               *)
NoDanglingUtxo ==
    \A n \in Name : Stored(n) /\ handle[n].utxo # NoUtxo => handle[n].utxo \in utxos

-----------------------------------------------------------------------------
(***************************************************************************)
(* What a committed block leaves behind, replays included.                 *)
(***************************************************************************)
Committed == pc = "idle" /\ block = <<>>

Live(n, label) == {u \in ledger : <<n, label>> \in u.assets}

(* Once the cursor has passed a block, a name has a record exactly when    *)
(* its main token is on the chain, and the record names the output and the *)
(* address that hold it and counts it once, whether the block was applied  *)
(* in one go or again from its first step after a crash in any other.      *)
HandlesMatchLedger ==
    Committed => \A n \in Name :
        /\ Stored(n) <=> Live(n, "222") \union Live(n, "000") # {}
        /\ \A u \in Live(n, "222") :
              handle[n].utxo = u.id /\ handle[n].addr = u.addr /\ handle[n].amount = 1
        /\ \A u \in Live(n, "000") :
              /\ handle[n].utxo = u.id /\ handle[n].amount = 1
              /\ u.datum # NoDatum => handle[n].addr = u.datum

(* Once the cursor has passed a block, the UTXO index holds the outputs    *)
(* that carry handles on the chain and no other.                           *)
UtxosMatchLedger == Committed => utxos = {u.id : u \in ledger}

(* Once the cursor has passed a block, a reference token that carries a    *)
(* datum is the one its handle record refers to, and a settings token is   *)
(* in the label set of its handle.                                         *)
CompanionsMatchLedger ==
    Committed => \A n \in Name :
        /\ \A u \in Live(n, "100") : u.datum # NoDatum => handle[n].ref = u.id
        /\ Live(n, "001") # {} => "001" \in handle[n].labels

(* An output the block does not spend that carries a token its transaction *)
(* mints next to one it does not.                                          *)
MixedOutput ==
    \E u \in BlockOuts :
        /\ u.id \notin Spent /\ u.minted # {}
        /\ \E n \in NamesOf(u.assets) : \A v \in BlockOuts : n \notin v.minted

(* A block of handle transactions is committed in the end, whatever        *)
(* invocations die on the way, unless it holds an output the minting data  *)
(* lookup rejects.                                                         *)
BlockCommits == pc # "idle" ~> Committed \/ MixedOutput

-----------------------------------------------------------------------------
(***************************************************************************)
(* What the comments of the code claim and the code does not do.           *)
(***************************************************************************)

(* A label whose token is burnt leaves the derived label hash, "so the     *)
(* derived registry hash + indexes stay consistent" (removeHandleLabel).   *)
RegistryMatchesLedger ==
    Committed => \A n \in Name : registry[n] = {l \in Tracked : Live(n, l) # {}}

(* "mintingData from the index should never be undefined"                  *)
(* (updateHandleIndexes).                                                  *)
MintingDataNeverUndefined == pc = "outputs" => \A u \in todo : NextOut(u) => ~LacksMintData(u)

=============================================================================
