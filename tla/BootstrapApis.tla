---------------------------- MODULE BootstrapApis ----------------------------
(***************************************************************************)
(* scripts/bootstrap-from-apis.ts: a snapshot built from two providers'    *)
(* REST answers instead of a scan.  It reads both tips and the root on the *)
(* chain, lists the assets page by page, compares the root of their names, *)
(* has four pools of workers ask for each asset's output, lists the mints  *)
(* and their transactions, and writes a file at the lower of the two tips. *)
(*                                                                         *)
(* The chain goes on meanwhile, and each provider follows it at its own    *)
(* pace: every answer is of the block the provider has come to by then.    *)
(* The history of the chain is chosen at the start, and a provider moves   *)
(* along it: chain[k][a] is the block of the output that holds asset a     *)
(* after block k, 0 for none.  A transaction is named by its block.        *)
(***************************************************************************)
EXTENDS Integers, Sequences, Functions, FiniteSetsExt

CONSTANTS
    Order,           \* the assets, as the providers sort them
    NameOf,          \* the handle an asset is of
    Indexed,         \* those whose names are the handle set: label 222, 000, legacy
    KoiosOnly,       \* those Blockfrost has no holders of: label 000, 001
    Registry,        \* those that are part of a name's value in the root: 001 - 004
    PageSize, ParallelPages, BatchSize,
    KoiosWorkers, BlockfrostWorkers,
    MaxBlocks,       \* length of the chain
    FirstTip,        \* where both providers are when the script starts
    Histories        \* the chains there may be

Assets == Range(Order)
Providers == {"koios", "blockfrost"}
Blocks == 1 .. MaxBlocks

(* An asset is minted, moved or burnt by a block, or left where it is. *)
Follows(c, a) ==
    /\ c[1][a] \in {0, 1}
    /\ \A k \in 2 .. MaxBlocks : c[k][a] \in {0, c[k - 1][a], k}

ASSUME BootstrapAssumption ==
    /\ Order \in Seq(Assets) /\ IsInjective(Order) /\ DOMAIN NameOf = Assets
    /\ Indexed \subseteq Assets /\ KoiosOnly \subseteq Assets /\ Registry \subseteq Assets
    /\ {PageSize, ParallelPages, BatchSize, MaxBlocks} \subseteq Nat \ {0}
    /\ KoiosWorkers \intersect BlockfrostWorkers = {} /\ FirstTip \in Blocks
    /\ \A c \in Histories : DOMAIN c = Blocks /\ \A a \in Assets : Follows(c, a)

VARIABLES
    chain, height,                        \* height: the block a provider has come to
    step,
    awaited, tip, root, rootAt,           \* the start
    offset, pending, short, from, rows,   \* the assets listed
    shared, koiosOnly, requests, records, \* the outputs asked for
    mintRows, multi, mintEvents,          \* the mints
    file

world == <<chain, height>>
start == <<awaited, tip, root, rootAt>>
pages == <<offset, pending, short, from, rows>>
queues == <<shared, koiosOnly, requests, records>>
mints == <<mintRows, multi, mintEvents>>
bootstrapVars == <<world, step, start, pages, queues, mints, file>>

-----------------------------------------------------------------------------
(* The chain and the providers. *)
Held(k) == {a \in Assets : chain[k][a] # 0}
OutputsAt(k) == {<<a, chain[k][a]>> : a \in Held(k)}
MintsOf(a, k) == {j \in 1 .. k : chain[j][a] = j /\ (j > 1 => chain[j - 1][a] = 0)}
(* The positions of the assets ever minted, and of one among them. *)
Listed(k) == {i \in DOMAIN Order : MintsOf(Order[i], k) # {}}
Place(i, k) == Cardinality({j \in Listed(k) : j <= i})

(* The value at a name's key is its registry labels. *)
RootAt(k) == [names |-> {NameOf[a] : a \in Held(k) \intersect Indexed},
              labelled |-> {NameOf[a] : a \in Held(k) \intersect Registry}]
NoRoot == [names |-> {}, labelled |-> {"none"}]

BootstrapInit ==
    /\ chain \in Histories /\ height = [p \in Providers |-> FirstTip]
    /\ step = "tips" /\ awaited = {"koios", "blockfrost", "root"}
    /\ tip = [p \in Providers |-> 0] /\ root = NoRoot /\ rootAt = 0
    /\ offset = 0 /\ pending = {} /\ short = FALSE /\ from = 0 /\ rows = {}
    /\ shared = {} /\ koiosOnly = {} /\ requests = {} /\ records = {}
    /\ mintRows = {} /\ multi = {} /\ mintEvents = {} /\ file = {}

Follow(p) ==
    /\ height[p] < MaxBlocks /\ height' = [height EXCEPT ![p] = @ + 1]
    /\ UNCHANGED <<chain, step, start, pages, queues, mints, file>>

-----------------------------------------------------------------------------
(* Phase 1: three calls at once, and the datum from Blockfrost when Koios  *)
(* has none.                                                               *)
ReadTip(p) ==
    /\ step = "tips" /\ p \in awaited
    /\ awaited' = awaited \ {p} /\ tip' = [tip EXCEPT ![p] = height[p]]
    /\ UNCHANGED <<world, step, root, rootAt, pages, queues, mints, file>>
TakeRoot(p) == root' = RootAt(height[p]) /\ rootAt' = height[p]
ProbeRoot ==
    /\ step = "tips" /\ "root" \in awaited
    /\ awaited' = awaited \ {"root"}
    /\ TakeRoot("koios") \/ UNCHANGED <<root, rootAt>>
    /\ UNCHANGED <<world, step, tip, pages, queues, mints, file>>
RootFromBlockfrost ==
    /\ step = "tips" /\ awaited = {} /\ root = NoRoot /\ TakeRoot("blockfrost")
    /\ UNCHANGED <<world, step, awaited, tip, pages, queues, mints, file>>
Newest == IF tip["koios"] > tip["blockfrost"] THEN tip["koios"] ELSE tip["blockfrost"]  \* a mutant
TStart == IF tip["koios"] <= tip["blockfrost"] THEN tip["koios"] ELSE tip["blockfrost"]

(* Phases 2 and 2b: the first page, then rounds of pages side by side,     *)
(* until one of them is not full.                                          *)
FirstPage == pending' = {0} /\ offset' = PageSize /\ short' = FALSE
StartListing ==
    /\ step = "tips" /\ awaited = {} /\ root # NoRoot
    /\ step' = "list" /\ FirstPage /\ from' = height["koios"]
    /\ UNCHANGED <<world, start, rows, queues, mints, file>>
Page(o) == LET k == height["koios"]
           IN  {Order[i] : i \in {j \in Listed(k) : Place(j, k) \in o + 1 .. o + PageSize}}
LastPage(o) == Cardinality(Listed(height["koios"])) < o + PageSize
EverMinted(page) == page                  \* a mutant: burnt assets are kept
Keep(page) == page \intersect Held(height["koios"])
PageRead(o) == pending' = pending \ {o} /\ short' = (short \/ LastPage(o))
ReadPage(o) ==
    /\ step = "list" /\ o \in pending /\ PageRead(o)
    /\ rows' = rows \union Keep(Page(o))
    /\ UNCHANGED <<world, step, start, offset, from, queues, mints, file>>
MintRow(a) == [asset |-> a, mint |-> Min(MintsOf(a, height["koios"])),
               many |-> Cardinality(MintsOf(a, height["koios"])) > 1]
ReadMintPage(o) ==
    /\ step = "mints" /\ o \in pending /\ PageRead(o)
    /\ mintRows' = mintRows \union {MintRow(a) : a \in Page(o)}
    /\ UNCHANGED <<world, step, start, offset, from, rows, queues, multi, mintEvents, file>>
SameAgain == offset                       \* a mutant: the offset does not move
Advanced == offset + ParallelPages * PageSize
NextPages ==
    /\ step \in {"list", "mints"} /\ pending = {} /\ ~short
    /\ pending' = {offset + i * PageSize : i \in 0 .. ParallelPages - 1}
    /\ offset' = Advanced
    /\ UNCHANGED <<world, step, start, short, from, rows, queues, mints, file>>

(* Phase 3: the root of the names alone. *)
Names == {NameOf[a] : a \in rows \intersect Indexed}
ComputedRoot == [names |-> Names, labelled |-> {}]
Matches == ComputedRoot = root
Compare ==
    /\ step = "list" /\ pending = {} /\ short
    /\ step' = IF Matches THEN "outputs" ELSE "mismatch"
    /\ shared' = IF Matches THEN rows \ KoiosOnly ELSE {}
    /\ koiosOnly' = IF Matches THEN rows \intersect KoiosOnly ELSE {}
    /\ UNCHANGED <<world, start, pages, requests, records, mints, file>>

-----------------------------------------------------------------------------
(* Phase 4: workers of the pools take from the shared queue, and those of  *)
(* Koios from the other one after it.                                      *)
Free(w) == \A r \in requests : r.by # w
Takes(queue, size) ==
    {items \in SUBSET queue : Cardinality(items) = Min({size, Cardinality(queue)})}
Ask(w, items) == requests' = requests \union {[by |-> w, items |-> items, held |-> 0]}
TakeShared(w) ==
    /\ step = "outputs" /\ Free(w) /\ shared # {}
    /\ \E items \in Takes(shared, IF w \in KoiosWorkers THEN BatchSize ELSE 1) :
          Ask(w, items) /\ shared' = shared \ items
    /\ UNCHANGED <<world, step, start, pages, koiosOnly, records, mints, file>>
TakeKoiosOnly(w) ==
    /\ step = "outputs" /\ Free(w) /\ shared = {} /\ koiosOnly # {} /\ w \in KoiosWorkers
    /\ \E items \in Takes(koiosOnly, BatchSize) :
          Ask(w, items) /\ koiosOnly' = koiosOnly \ items
    /\ UNCHANGED <<world, step, start, pages, shared, records, mints, file>>

Replied(r, got) == requests' = requests \ {r} /\ records' = records \union got
Asking(r) == UNCHANGED <<world, step, start, pages, shared, koiosOnly, mints, file>>
KoiosAnswers(r) ==
    /\ r.by \in KoiosWorkers
    /\ Replied(r, {o \in OutputsAt(height["koios"]) : o[1] \in r.items})
    /\ Asking(r)
(* Too large a body: the two halves are asked for side by side. *)
Halves(items) == {half \in SUBSET items : Cardinality(half) = (Cardinality(items) + 1) \div 2}
OneHalf(r, half) == {[r EXCEPT !.items = half]}     \* a mutant: the rest is not asked for
Split(r, half) == {[r EXCEPT !.items = half], [r EXCEPT !.items = r.items \ half]}
TooLarge(r) ==
    /\ r.by \in KoiosWorkers /\ Cardinality(r.items) > 1
    /\ \E half \in Halves(r.items) : requests' = (requests \ {r}) \union Split(r, half)
    /\ UNCHANGED records /\ Asking(r)
(* The address that holds the asset, and then its output there: nothing    *)
(* when the asset is unknown or burnt, or has moved to another address.    *)
Holder(r) ==
    /\ r.by \in BlockfrostWorkers /\ r.held = 0
    /\ \E a \in r.items :
          IF a \in Held(height["blockfrost"])
          THEN /\ requests' = (requests \ {r})
                                \union {[r EXCEPT !.held = chain[height["blockfrost"]][a]]}
               /\ UNCHANGED records
          ELSE Replied(r, {})
    /\ Asking(r)
AtHolder(r) ==
    /\ r.by \in BlockfrostWorkers /\ r.held # 0
    /\ LET there == {o \in OutputsAt(height["blockfrost"]) : o[1] \in r.items}
       IN  \/ Replied(r, there)
           \/ r.held \notin {o[2] : o \in there} /\ Replied(r, {})
    /\ Asking(r)

-----------------------------------------------------------------------------
(* Phases 2b and 2c: every mint of an indexed asset of the set. *)
StartMints ==
    /\ step = "outputs" /\ shared = {} /\ koiosOnly = {} /\ requests = {}
    /\ step' = "mints" /\ FirstPage
    /\ UNCHANGED <<world, start, from, rows, queues, mints, file>>
StartHistory ==
    /\ step = "mints" /\ pending = {} /\ short /\ step' = "history"
    /\ LET kept == {r \in mintRows : r.asset \in Indexed /\ NameOf[r.asset] \in Names}
       IN  /\ mintEvents' = {<<r.asset, r.mint>> : r \in kept}
           /\ multi' = {r.asset : r \in {m \in kept : m.many}}
    /\ UNCHANGED <<world, start, pages, queues, mintRows, file>>
ReadHistory(a) ==
    /\ step = "history" /\ a \in multi /\ multi' = multi \ {a}
    /\ mintEvents' = mintEvents \union {<<a, k>> : k \in MintsOf(a, height["koios"])}
    /\ UNCHANGED <<world, step, start, pages, queues, mintRows, file>>

(* Phases 4c and 5: Koios's rows of the transactions, those it knows and   *)
(* perhaps not all of them; an output without a row is in the file without *)
(* its block, a mint without one is not in it.                             *)
Transactions == {o[2] : o \in records \union mintEvents}
TxInfo == SUBSET {k \in Transactions : k <= height["koios"]}
Utxo(o, known) ==
    [asset |-> o[1], output |-> o[2], slot |-> IF o[2] \in known THEN o[2] ELSE 0]
MintingData(known) == {e \in mintEvents : e[2] \in known}
SnapshotFile(known) ==
    [slot |-> TStart, utxos |-> {Utxo(o, known) : o \in records}, mints |-> MintingData(known)]
Write ==
    /\ step = "history" /\ multi = {} /\ step' = "written"
    /\ \E known \in TxInfo : file' = {SnapshotFile(known)}
    /\ UNCHANGED <<world, start, pages, queues, mints>>

(* A call that keeps failing after its retries ends the script. *)
Ended == step \in {"mismatch", "written", "failed"}
Fails ==
    /\ ~Ended /\ step' = "failed"
    /\ UNCHANGED <<world, start, pages, queues, mints, file>>

-----------------------------------------------------------------------------
Starts == ProbeRoot \/ RootFromBlockfrost \/ StartListing \/ \E p \in Providers : ReadTip(p)
Lists == NextPages \/ Compare \/ \E o \in pending : ReadPage(o) \/ ReadMintPage(o)
Asks == \E w \in KoiosWorkers \union BlockfrostWorkers : TakeShared(w) \/ TakeKoiosOnly(w)
Answers == \E r \in requests : KoiosAnswers(r) \/ Holder(r) \/ AtHolder(r)
Finishes == StartMints \/ StartHistory \/ Write \/ \E a \in multi : ReadHistory(a)
Script == Starts \/ Lists \/ Asks \/ Answers \/ Finishes
BootstrapNext ==
    \/ \E p \in Providers : Follow(p)
    \/ Script \/ Fails \/ \E r \in requests : TooLarge(r)

(* Every call is answered or given up. *)
BootstrapSpec == BootstrapInit /\ [][BootstrapNext]_bootstrapVars /\ WF_bootstrapVars(Script)

-----------------------------------------------------------------------------
Outputs == Assets \X Blocks
Roots == [names : SUBSET Range(NameOf), labelled : SUBSET (Range(NameOf) \union {"none"})]
BootstrapTypeOK ==
    /\ chain \in Histories /\ height \in [Providers -> Blocks]
    /\ step \in {"tips", "list", "outputs", "mints", "history", "written", "mismatch", "failed"}
    /\ awaited \subseteq {"koios", "blockfrost", "root"} /\ tip \in [Providers -> 0 .. MaxBlocks]
    /\ root \in Roots /\ rootAt \in 0 .. MaxBlocks
    /\ offset \in 0 .. PageSize * (1 + ParallelPages * (Len(Order) + 1)) /\ short \in BOOLEAN
    /\ pending \subseteq 0 .. offset /\ from \in 0 .. MaxBlocks /\ rows \subseteq Assets
    /\ shared \subseteq rows /\ koiosOnly \subseteq rows /\ records \subseteq Outputs
    /\ requests \subseteq [by : KoiosWorkers \union BlockfrostWorkers, items : SUBSET rows,
                           held : 0 .. MaxBlocks]
    /\ mintRows \subseteq [asset : Assets, mint : Blocks, many : BOOLEAN]
    /\ multi \subseteq Assets /\ mintEvents \subseteq Outputs
    /\ file \subseteq [slot : Blocks, mints : SUBSET Outputs,
                       utxos : SUBSET [asset : Assets, output : Blocks, slot : 0 .. MaxBlocks]]

(* What the importer's validation asks for (utils/verifiedSnapshot.ts). *)
Accepted(f) ==
    /\ \A u \in f.utxos : u.slot \in 1 .. f.slot
    /\ \A e \in f.mints : e[2] <= f.slot
Later(f, a) == \E k \in f.slot + 1 .. MaxBlocks : chain[k][a] # chain[f.slot][a]
Heals(f) ==
    LET listed == {<<u.asset, u.output>> : u \in f.utxos}
    IN  /\ listed \subseteq OutputsAt(f.slot)
        /\ \A o \in OutputsAt(f.slot) : o[1] \in rows => o \in listed \/ Later(f, o[1])

(***************************************************************************)
(* A file that an importer accepts, scanned on from its slot, gives the    *)
(* output of every asset that was listed: whichever provider was behind,   *)
(* whatever moved while it was asked for, and however often a batch was    *)
(* split.                                                                  *)
(***************************************************************************)
EnumeratedHeals == \A f \in file : Accepted(f) => Heals(f)

(***************************************************************************)
(* Where the chain stood still from the reading of the root to the last    *)
(* page, the script goes on to the outputs exactly if no registry label is *)
(* held: no page is missed and no burnt asset counted, so the names it     *)
(* computes the root of (buildRoot) are the chain's, but the value it puts *)
(* at each is the empty one.                                               *)
(***************************************************************************)
RootDecides ==
    step \in {"outputs", "mismatch"} /\ rootAt = from /\ from = height["koios"] =>
        (step = "outputs" <=> Held(rootAt) \intersect Registry = {})

(* What docs/spec/runtime-entrypoints.md says ("the computed set did not   *)
(* match"): the script gives up only if the chain moved on between the     *)
(* reading of the root and the last page.                                  *)
MismatchMeansMoved ==
    step = "mismatch" => ~(rootAt = from /\ from = height["koios"])

(***************************************************************************)
(* The script comes to an end: the pages do, and so do the batches.        *)
(***************************************************************************)
RunEnds == <>Ended
=============================================================================
