---------------------------- MODULE ChainFollow ----------------------------
(***************************************************************************)
(* How the scanner follows a chain that grows and reorganises             *)
(* (lambdas/scanner.app.ts): the forward scan by block lists, and the      *)
(* reconciliation of processRollback, which compares the stored outputs    *)
(* with the canonical chain, repairs the handles that differ and moves the *)
(* cursor back onto the chain.                                             *)
(*                                                                         *)
(* The blocks form a tree given as a constant; the canonical chain is the  *)
(* one that ends at `tip`.  A block carries at most one transaction, which *)
(* mints, moves or burns one handle, and two forks may carry the same one. *)
(* An action is what runs between two awaits, so the chain may change      *)
(* between any two; the writes of a repair are separated, too, since the   *)
(* process may die there.  Fetches that fail and answers that fall short   *)
(* are counted in `faults`.                                                *)
(***************************************************************************)
EXTENDS Integers, Sequences, FiniteSetsExt

CONSTANTS
    Blocks,          \* numbers above 0, a parent below its children
    Root,            \* the block of the imported snapshot, without handles
    Parent, Slot, Height,
    Chain,           \* the blocks up to one
    Tx,              \* the transaction of a block, NoTx where it has none
    TxIds, Handles, Op, HandleOf,
    Input,           \* the output a transaction spends
    MaxBlocks,       \* SCANNER_MAX_BLOCKS_PER_INVOCATION
    ChunkSize,       \* SCANNER_BLOCK_PREFETCH_CHUNK_SIZE
    Shallow,         \* DEFAULT_ROLLBACK_OFFSET
    Deep,            \* the window of a stale head or of a Demeter rollback
    RollbackSlots,   \* ROLLBACK_20_SLOT_WINDOW
    MaxFaults

None == 0
NoTx == "none"

ASSUME ChainAssumption ==
    /\ Blocks \subseteq Nat \ {None} /\ Root \in Blocks /\ NoTx \notin TxIds
    /\ Height \in [Blocks -> Nat] /\ Slot \in [Blocks -> Nat] /\ Chain[Root] = {Root}
    /\ \A b \in Blocks \ {Root} :
          /\ Parent[b] \in Blocks /\ Parent[b] < b /\ Slot[Parent[b]] < Slot[b]
          /\ Height[b] = Height[Parent[b]] + 1 /\ Chain[b] = Chain[Parent[b]] \union {b}
    /\ Tx \in [Blocks -> TxIds \union {NoTx}] /\ Tx[Root] = NoTx
    /\ MaxBlocks \in Nat \ {0} /\ ChunkSize \in Nat \ {0}

VARIABLES
    tip,        \* the last canonical block
    cursor,     \* currentBlockHash and currentSlot
    lastSlot,   \* the slot of the tip last seen
    utxo,       \* per transaction: the block its output is stored with
    record,     \* per handle: the block whose transaction holds it
    mint,       \* blocks with stored minting data
    ledger,     \* the scanned-blocks ledger
    job,        \* the invocation at work
    faults,
    \* history
    standing,   \* blocks whose effects the store has taken in
    disturbed   \* handles that a reconciliation could not put right

store == <<utxo, record, mint, ledger>>
vars == <<tip, cursor, lastSlot, utxo, record, mint, ledger, job, faults, standing, disturbed>>

(* The chain. *)
Touched(S) == {HandleOf[Tx[b]] : b \in {c \in S : Tx[c] # NoTx}}
Of(h, S) == {b \in S : Tx[b] # NoTx /\ HandleOf[Tx[b]] = h}
Lowest(S) == Min(S)          \* of blocks on one chain
Highest(S) == Max(S)
Holds(b) == IF Op[Tx[b]] = "burn" THEN None ELSE b
Owner(b, h) == IF Of(h, Chain[b]) = {} THEN None ELSE Holds(Highest(Of(h, Chain[b])))
TxAt(b) == IF b = None THEN NoTx ELSE Tx[b]

Canonical == Chain[tip]

(* A chain holds a transaction once.  It spends the output that holds its   *)
(* handle, a mint none: of a handle nobody holds.                           *)
ASSUME LedgerAssumption ==
    /\ Op \in [TxIds -> {"mint", "move", "burn"}] /\ HandleOf \in [TxIds -> Handles]
    /\ Input \in [TxIds -> TxIds \union {NoTx}]
    /\ \A b \in Blocks : \A c, d \in Chain[b] : Tx[c] = Tx[d] /\ Tx[c] # NoTx => c = d
    /\ \A b \in Blocks \ {Root} : Tx[b] # NoTx =>
          /\ Input[Tx[b]] = TxAt(Owner(Parent[b], HandleOf[Tx[b]]))
          /\ Input[Tx[b]] = NoTx <=> Op[Tx[b]] = "mint"

(***************************************************************************)
(* The invocation: the blocks listed and not yet applied, how many of them *)
(* are left of the present chunk, and which of those were told in full;    *)
(* for the reconciliation its window, the outputs found orphaned, the      *)
(* candidates, the transactions asset_utxos listed, and the handles to     *)
(* repair with the outputs told of those transactions.                     *)
(***************************************************************************)
Idle == [at |-> "idle", todo |-> <<>>, chunk |-> 0, told |-> {}, window |-> {}, offset |-> 0,
         orphans |-> {}, candidates |-> {}, repair |-> {}, short |-> FALSE, promised |-> {},
         listed |-> [h \in Handles |-> NoTx], canonical |-> [h \in Handles |-> None]]
At(step) == [job EXCEPT !.at = step]

Init ==
    /\ tip = Root /\ cursor = Root /\ lastSlot = Slot[Root]
    /\ utxo = [t \in TxIds |-> None] /\ record = [h \in Handles |-> None]
    /\ mint = {} /\ ledger = {}
    /\ job = Idle /\ faults = 0
    /\ standing = {Root} /\ disturbed = {}

(* The chain grows, or another fork becomes longer. *)
Advance ==
    /\ \E b \in Blocks : Height[b] > Height[tip] /\ tip' = b
    /\ UNCHANGED <<cursor, lastSlot, store, job, faults, standing, disturbed>>

Fault == faults < MaxFaults /\ faults' = faults + 1

(* The caught-up test before checkRollback at the end of an invocation. *)
CheckOrRest(seen) ==
    job' = IF seen - Slot[cursor] > RollbackSlots THEN Idle
           ELSE [Idle EXCEPT !.at = "window", !.offset = Shallow]

(***************************************************************************)
(* scan: the blocks after the cursor, [] when it is not canonical, and     *)
(* then the tip.  A tip ahead of a cursor with nothing after it means an   *)
(* orphaned cursor: reconcile with the deep window.                        *)
(***************************************************************************)
Listed ==
    IF cursor \notin Canonical THEN <<>>
    ELSE [i \in 1 .. Height[tip] - Height[cursor] |->
            CHOOSE b \in Canonical : Height[b] = Height[cursor] + i]
List ==
    /\ job.at = "idle" /\ Listed # <<>>
    /\ LET taken == SubSeq(Listed, 1, IF Len(Listed) < MaxBlocks THEN Len(Listed) ELSE MaxBlocks)
       IN  \/ /\ lastSlot' = Slot[tip] /\ UNCHANGED faults
              /\ job' = [Idle EXCEPT !.at = "fetch", !.todo = taken]
           \/ /\ Fault           \* no tip
              /\ lastSlot' = IF lastSlot > Slot[taken[Len(taken)]] THEN lastSlot ELSE Slot[taken[Len(taken)]]
              /\ job' = [Idle EXCEPT !.at = "fetch", !.todo = taken]
    /\ UNCHANGED <<tip, cursor, store, standing, disturbed>>
StaleHeadOffsetShallow == Shallow       \* a mutant
StaleHeadOffset == Deep
ListNothing ==
    /\ job.at = "idle" /\ Listed = <<>>
    /\ \/ /\ lastSlot' = Slot[tip] /\ UNCHANGED faults
          /\ \/ /\ Slot[tip] > Slot[cursor]
                /\ job' = [Idle EXCEPT !.at = "window", !.offset = StaleHeadOffset]
             \/ Slot[tip] <= Slot[cursor] /\ CheckOrRest(lastSlot')
       \/ /\ Fault               \* no tip
          /\ lastSlot' = IF lastSlot > Slot[cursor] THEN lastSlot ELSE Slot[cursor]
          /\ CheckOrRest(lastSlot')
    /\ UNCHANGED <<tip, cursor, store, standing, disturbed>>

(***************************************************************************)
(* The transactions of the next chunk, of which some may not be told: a    *)
(* block is covered when as many were told as its tx_count, each with its  *)
(* block.  A block that was orphaned since the list was read is unknown    *)
(* to the providers.                                                       *)
(***************************************************************************)
InChunk == IF Len(job.todo) < ChunkSize THEN Len(job.todo) ELSE ChunkSize
Chunk == {job.todo[i] : i \in 1 .. InChunk}
Told(b) == b \in Canonical \/ Tx[b] = NoTx
Fetch ==
    /\ job.at = "fetch" /\ job.todo # <<>>
    /\ \E short \in {{}} \union {{b} : b \in Chunk} :
        /\ IF short = {} THEN UNCHANGED faults ELSE Fault
        /\ job' = [job EXCEPT !.at = "apply", !.chunk = InChunk,
                              !.told = {b \in Chunk \ short : Told(b)}]
    /\ UNCHANGED <<tip, cursor, lastSlot, store, standing, disturbed>>

(***************************************************************************)
(* processScannerBlock: a handle that was not minted here needs stored     *)
(* minting data; the record follows unless it stands at a later slot.      *)
(***************************************************************************)
MintsOf(h) == Of(h, mint)
Writes(h, b) == record[h] = None \/ Slot[b] >= Slot[record[h]]
Spends(b) == {Input[Tx[b]]} \ {NoTx}
NoMintData(b) == Tx[b] # NoTx /\ Op[Tx[b]] = "move" /\ MintsOf(HandleOf[Tx[b]]) = {}

Effects(b) ==
    IF Tx[b] = NoTx THEN UNCHANGED <<utxo, record, mint>>
    ELSE LET t == Tx[b]  h == HandleOf[t] IN
        /\ mint' = mint \union (IF Op[t] = "mint" THEN {b} ELSE {})
        /\ utxo' = [u \in TxIds |-> IF u \in Spends(b) THEN None
                                    ELSE IF u = t /\ Op[t] # "burn" THEN b ELSE utxo[u]]
        /\ record' = [record EXCEPT ![h] =
                        IF Op[t] = "burn" THEN None ELSE IF Writes(h, b) THEN b ELSE @]

(* History: a block that writes its handle's record leaves nothing there of *)
(* what other forks had written.                                            *)
Overwrites(b) == Tx[b] # NoTx /\ (Op[Tx[b]] = "burn" \/ Writes(HandleOf[Tx[b]], b))
Superseded(b) == IF Overwrites(b) THEN Of(HandleOf[Tx[b]], standing \ Chain[b]) ELSE {}

(* The first block of the chunk, with the transactions that were told. *)
CoveredAlways(b) == TRUE         \* a mutant: without the coverage test
Covered(b) == b \in job.told
Apply ==
    /\ job.at = "apply" /\ job.chunk > 0 /\ Covered(Head(job.todo))
    /\ LET b == Head(job.todo)
       IN  \/ NoMintData(b) /\ job' = Idle /\ UNCHANGED <<utxo, record, mint, standing, disturbed>>
           \/ /\ ~NoMintData(b) /\ job' = At("commit")
              /\ IF b \in job.told THEN Effects(b) ELSE UNCHANGED <<utxo, record, mint>>
              /\ standing' = (standing \ Superseded(b)) \union {b}
              /\ disturbed' = disturbed \ (IF Overwrites(b) THEN Touched({b}) ELSE {})
    /\ UNCHANGED <<tip, cursor, lastSlot, ledger, faults>>
Commit ==
    /\ job.at = "commit"
    /\ cursor' = Head(job.todo)
    /\ ledger' = ledger \union {Head(job.todo)}
    /\ job' = [job EXCEPT !.at = "apply", !.todo = Tail(@), !.chunk = @ - 1]
    /\ UNCHANGED <<tip, lastSlot, utxo, record, mint, faults, standing, disturbed>>
NextChunk ==
    /\ job.at = "apply" /\ job.chunk = 0 /\ job.todo # <<>>
    /\ job' = At("fetch")
    /\ UNCHANGED <<tip, cursor, lastSlot, store, faults, standing, disturbed>>
(* The end of the list, or a pause before a block that is not covered. *)
EndScan ==
    /\ job.at = "apply"
    /\ job.todo = <<>> \/ (job.chunk > 0 /\ ~Covered(Head(job.todo)))
    /\ CheckOrRest(lastSlot)
    /\ UNCHANGED <<tip, cursor, lastSlot, store, faults, standing, disturbed>>

(***************************************************************************)
(* processRollback.  The window is the last `offset` canonical blocks; the *)
(* cursor's new place, once all is well, is the last of them not after it. *)
(***************************************************************************)
Window(offset) == {b \in Canonical : Height[b] > Height[tip] - offset}
Provided(window) == {b \in window : Slot[b] <= Slot[cursor]}
RecoveredHead(window) == Highest(Provided(window))
StoredFrom(window) == {t \in TxIds : utxo[t] # None /\ Slot[utxo[t]] >= Slot[Lowest(window)]}
Orphaned(window) == {t \in StoredFrom(window) : utxo[t] \notin window}
AnchorOrphaned(window) == cursor \notin window
Unseen(window) == Provided(window) \ ledger

(***************************************************************************)
(* History.  The head moves to the last block provided, on the chain that  *)
(* ends at the window's last block: what the store has of other forks is   *)
(* left, and blocks it never took in may be jumped.                        *)
(***************************************************************************)
Left(window) == standing \ Chain[Highest(window)]
Jumped(window) == Chain[RecoveredHead(window)] \ standing
Kept(window) == (standing \ Left(window)) \union Chain[RecoveredHead(window)]
Snap(window, promised) ==
    /\ cursor' = RecoveredHead(window)
    /\ lastSlot' = Slot[Highest(window)]
    /\ job' = Idle
    /\ standing' = Kept(window) \union promised
    /\ disturbed' = (disturbed \union Touched(Left(window)) \union Touched(Jumped(window))) \ Touched(promised)

(***************************************************************************)
(* What a reconciliation that ends promises to put right, by the stored    *)
(* and the canonical state and by what was answered in full, of whatever   *)
(* handle.  A handle of an orphaned output in the window, or one that      *)
(* another transaction holds by now and a block that was missed and told   *)
(* in full touched, that has a record and was told a canonical output      *)
(* older neither than it nor than what the cursor passes over.             *)
(***************************************************************************)
Promised(window, short, told) ==
    {told[p] : p \in {h \in Handles :
        LET r == record[h]  o == told[h] IN
        /\ r # None /\ o # None /\ Slot[o] >= Slot[r]
        /\ \A b \in Of(h, Kept(window)) : Slot[o] >= Slot[b]
        /\ \/ r \notin window /\ utxo[Tx[r]] = r /\ Slot[r] >= Slot[Lowest(window)]
           \/ /\ ~short /\ cursor \in window /\ Tx[o] # Tx[r]
              /\ h \in Touched(Provided(window) \ ledger)}}

ReadWindow ==
    /\ job.at = "window"
    /\ LET w == Window(job.offset) IN
       IF Provided(w) = {}
       THEN job' = Idle /\ UNCHANGED <<cursor, lastSlot, standing, disturbed>>
       ELSE IF StoredFrom(w) = {}
       THEN Snap(w, {})
       ELSE /\ job' = [job EXCEPT !.window = w, !.orphans = Orphaned(w),
                                  !.candidates = {HandleOf[t] : t \in Orphaned(w)},
                                  !.at = IF ~AnchorOrphaned(w) /\ Unseen(w) # {} THEN "probe" ELSE "ask"]
            /\ UNCHANGED <<cursor, lastSlot, standing, disturbed>>
    /\ UNCHANGED <<tip, store, faults>>

(* The handles of canonical blocks never scanned; a short answer is not noticed. *)
Probe ==
    /\ job.at = "probe"
    /\ \E told \in {Unseen(job.window)} \union {Unseen(job.window) \ {b} : b \in Unseen(job.window)} :
        /\ IF told = Unseen(job.window) THEN UNCHANGED faults ELSE Fault
        /\ job' = [job EXCEPT !.at = "ask",
                              !.short = {b \in told : Told(b)} # Unseen(job.window),
                              !.candidates = @ \union Touched({b \in told : Told(b)})]
    /\ UNCHANGED <<tip, cursor, lastSlot, store, standing, disturbed>>

(***************************************************************************)
(* asset_utxos: the transactions that hold the candidates with a record by *)
(* now.  A null answer, or one without the rows of some, is taken as it    *)
(* is: those handles do not drift, and no canonical output of theirs is    *)
(* fetched.  (`listed` has what was to be answered of the others, too, of  *)
(* which only the promise knows.)                                          *)
(***************************************************************************)
Asked == {h \in job.candidates : record[h] # None}
OrphanedHandles == {HandleOf[t] : t \in job.orphans}
Drifted(listed) == {h \in Asked : listed[h] \notin {NoTx, TxAt(record[h])}}
AskUtxos ==
    /\ job.at = "ask"
    /\ \E short \in SUBSET Asked :
        LET listed == [h \in Handles |-> IF h \in short THEN NoTx ELSE TxAt(Owner(tip, h))]
            repair == OrphanedHandles \union Drifted(listed)
        IN  /\ IF short = {} THEN UNCHANGED faults ELSE Fault
            /\ IF repair = {}
               THEN Snap(job.window, {})
               ELSE /\ job' = [job EXCEPT !.at = "tell", !.repair = repair, !.listed = listed]
                    /\ UNCHANGED <<cursor, lastSlot, standing, disturbed>>
    /\ UNCHANGED <<tip, store>>

(***************************************************************************)
(* tx_info: the outputs of the transactions listed, in the blocks they are *)
(* in by now.  A transaction no longer on the chain, or left out, is not   *)
(* missed here: unlike the forward scan the repair does not compare what   *)
(* came with what it asked for.                                            *)
(***************************************************************************)
Holding(t) == {b \in Canonical : t # NoTx /\ Tx[b] = t}
BlockOf(t) == IF Holding(t) = {} THEN None ELSE CHOOSE b \in Holding(t) : TRUE
AskTxs ==
    /\ job.at = "tell"
    /\ \E short \in SUBSET {h \in Asked \intersect job.repair : job.listed[h] # NoTx} :
        LET told == [h \in Handles |-> IF h \in short THEN None ELSE BlockOf(job.listed[h])]
        IN  /\ IF short = {} THEN UNCHANGED faults ELSE Fault
            /\ job' = [job EXCEPT !.at = "remove",
                                  !.canonical = [h \in Handles |-> IF h \in Asked THEN told[h] ELSE None],
                                  !.promised = Promised(job.window, job.short, told)]
    /\ UNCHANGED <<tip, cursor, lastSlot, store, standing, disturbed>>

(* The repair: stale outputs and minting data go, the canonical ones come. *)
Stale == job.orphans \union {TxAt(record[h]) : h \in {d \in job.repair \ OrphanedHandles : record[d] # None}}
RollbackStart == CHOOSE s \in {Slot[utxo[t]] : t \in job.orphans} :
                    \A t \in job.orphans : s <= Slot[utxo[t]]
StaleMintsOfAll ==             \* a mutant: of whatever handle
    IF job.orphans = {} THEN {} ELSE {b \in mint : Slot[b] >= RollbackStart}
StaleMints == IF job.orphans = {} THEN {}
              ELSE {b \in mint : HandleOf[Tx[b]] \in job.repair /\ Slot[b] >= RollbackStart}
RemoveStale ==
    /\ job.at = "remove"
    /\ mint' = mint \ StaleMints
    /\ utxo' = [t \in TxIds |-> IF t \in Stale THEN None ELSE utxo[t]]
    /\ job' = At("add")
    /\ disturbed' = disturbed \union job.repair
    /\ UNCHANGED <<tip, cursor, lastSlot, record, ledger, faults, standing>>

Found == {job.canonical[h] : h \in job.repair} \ {None}
AddCanonical ==
    /\ job.at = "add"
    /\ utxo' = [t \in TxIds |-> IF \E b \in Found : Tx[b] = t THEN CHOOSE b \in Found : Tx[b] = t ELSE utxo[t]]
    /\ mint' = mint \union {b \in Found : Op[Tx[b]] = "mint"}
    /\ job' = At("reindex")
    /\ standing' = standing \union Found
    /\ UNCHANGED <<tip, cursor, lastSlot, record, ledger, faults, disturbed>>

(* The records, all or none, and the head. *)
Reindex ==
    /\ job.at = "reindex"
    /\ \A b \in Found : MintsOf(HandleOf[Tx[b]]) # {}
    /\ record' = [h \in Handles |->
                    IF job.canonical[h] \in Found /\ h \in job.repair /\ Writes(h, job.canonical[h])
                    THEN job.canonical[h] ELSE record[h]]
    /\ Snap(job.window, job.promised)
    /\ UNCHANGED <<tip, utxo, mint, ledger, faults>>
ReindexThrows ==
    /\ job.at = "reindex"
    /\ \E b \in Found : MintsOf(HandleOf[Tx[b]]) = {}
    /\ job' = Idle
    /\ UNCHANGED <<tip, cursor, lastSlot, store, faults, standing, disturbed>>

(* The process dies, its time is over, or a fetch fails for good. *)
Stop ==
    /\ job.at # "idle" /\ Fault
    /\ job' = Idle
    /\ UNCHANGED <<tip, cursor, lastSlot, store, standing, disturbed>>

Work == \/ List \/ ListNothing \/ Fetch \/ Apply \/ Commit \/ NextChunk \/ EndScan
        \/ ReadWindow \/ Probe \/ AskUtxos \/ AskTxs \/ RemoveStale \/ AddCanonical \/ Reindex \/ ReindexThrows
Next == Work \/ Advance \/ Stop
Spec == Init /\ [][Next]_vars /\ WF_vars(Work)

-----------------------------------------------------------------------------

(* No work under way, the cursor at the tip, and nothing orphaned taken in since. *)
AtRest == job.at = "idle" /\ cursor = tip /\ standing \subseteq Canonical

(***************************************************************************)
(* At rest every record is that of the canonical owner, and its output is  *)
(* stored, however the chain switched between the reads of a scan or of a  *)
(* reconciliation and wherever the process died: but for the handles of    *)
(* blocks the cursor was set back from or across that processRollback has  *)
(* no repair for (an orphaned burn or first mint, a canonical output older *)
(* than the orphaned one, a block that was jumped), whose repair was cut   *)
(* short, or of which an answer of the reconciliation was null or short.   *)
(* Short answers of the forward scan leave no handle behind.               *)
(***************************************************************************)
RecordsFollowChain ==
    AtRest => \A h \in Handles \ disturbed :
        /\ TxAt(record[h]) = TxAt(Owner(tip, h))
        /\ record[h] # None => utxo[TxAt(record[h])] # None

(***************************************************************************)
(* A repair takes no minting data away that a later block needs: a handle  *)
(* with a record has some, always, unless its own repair failed or was not *)
(* answered in full.                                                       *)
(***************************************************************************)
MintDataKept == \A h \in Handles \ disturbed : record[h] # None => MintsOf(h) # {}

(***************************************************************************)
(* The cursor reaches the tip again after the last change of the chain,    *)
(* unless a handle lost its minting data to a repair that could not be     *)
(* completed: then processScannerBlock throws at its next move.            *)
(***************************************************************************)
Stalled == \E h \in disturbed : MintsOf(h) = {}
ReachesTheTip == <>[](cursor = tip \/ Stalled)

(***************************************************************************)
(* "Forward-scan from the snapped canonical predecessor will naturally     *)
(* re-apply any handle activity in the window": every block up to the      *)
(* cursor was scanned.  Not so: the cursor is set to the last canonical    *)
(* block before the slot of the orphaned anchor, which may lie after the   *)
(* fork, and the probe for missed blocks is skipped just then.             *)
(***************************************************************************)
NothingJumped == Chain[cursor] \subseteq ledger \union {Root}
=============================================================================
