---------------------------- MODULE BlockStream ----------------------------
(***************************************************************************)
(* The two sources that push blocks to the index: Demeter's WatchTx, read  *)
(* by the scheduled scanner (services/demeter, scanWithDemeter), and the   *)
(* Ogmios socket of a container (services/ogmios).                         *)
(*                                                                         *)
(* WatchTx tells one event per matching transaction and one for a block    *)
(* without any, and says nowhere that a block is complete: the scanner     *)
(* keeps a block back until the next one begins, and dies, is timed out or *)
(* is told of an undo in between.  Ogmios sends whole blocks to a process  *)
(* that keeps the socket, logs an error and goes on.                       *)
(*                                                                         *)
(* The blocks form a tree given as a constant; the canonical chain ends at *)
(* `tip`.  The wrong answers of a provider, the deadlines and the crashes  *)
(* are counted in `faults`.                                                *)
(***************************************************************************)
EXTENDS Integers, FiniteSets, SequencesExt

CONSTANTS
    Sources,           \* SCANNER_CHAIN_SOURCE and the Ogmios container
    Blocks,            \* numbers above 0, a parent below its children
    Root,              \* where the index starts, without handles
    Parent, Slot, Height,
    Chain,             \* the blocks up to one
    Txs,               \* the handle transactions of a block, in order
    TxIds, Handles, Op, HandleOf,
    Input,             \* the output a transaction spends
    Failed,            \* transactions whose script failed
    Bad,               \* transactions the provider's client cannot convert
    MaxResume,         \* DEMETER_MAX_RESUME_SLOTS
    Window,            \* the nextBlock requests kept outstanding
    SkipsFirst,        \* may WatchTx leave out the block after the intersection?
    MaxFaults

None == 0
NoTx == "none"

ASSUME StreamAssumption ==
    /\ Sources \subseteq {"demeter", "ogmios"} /\ NoTx \notin TxIds
    /\ Blocks \subseteq Nat \ {None} /\ Root \in Blocks /\ Txs[Root] = <<>>
    /\ \A b \in Blocks \ {Root} :
          /\ Parent[b] \in Blocks /\ Parent[b] < b
          /\ Height[b] = Height[Parent[b]] + 1 /\ Chain[b] = Chain[Parent[b]] \union {b}
    /\ Parent[Root] = None /\ Chain[Root] = {Root} /\ Txs \in [Blocks -> Seq(TxIds)]
    /\ Slot \in [Blocks -> Nat] /\ Height \in [Blocks -> Nat]
    /\ \A b \in Blocks : /\ Chain[b] \subseteq Blocks /\ {b, Root} \subseteq Chain[b]
                        /\ \A c \in Chain[b] : Slot[c] <= Slot[b]
    /\ Window \in Nat \ {0} /\ MaxFaults \in Nat /\ SkipsFirst \in BOOLEAN

VARIABLES
    source,
    tip,        \* the last canonical block
    cursor,     \* currentBlockHash and currentSlot
    store,      \* the records, outputs and minting data
    job,        \* Demeter: the invocation at work
    socket,     \* Ogmios: the connection
    faults,
    \* history
    strayed,    \* Ogmios is past something it does not put right
    disturbed   \* handles of blocks that the cursor was set back from or across

vars == <<source, tip, cursor, store, job, socket, faults, strayed, disturbed>>

(* Who holds a handle on the chain that ends at a block: what the last      *)
(* transaction there that touched it left, a failed one left nothing.       *)
Touching(b, h, n) == {i \in 1 .. n : Txs[b][i] \notin Failed /\ HandleOf[Txs[b][i]] = h}
Left(t) == IF Op[t] = "burn" THEN NoTx ELSE t
HolderAfter(before, b, h, n) ==
    IF Touching(b, h, n) = {} THEN before[h] ELSE Left(Txs[b][Max(Touching(b, h, n))])
Ledger[b \in Blocks] ==
    [h \in Handles |-> IF b = Root THEN NoTx
                       ELSE HolderAfter(Ledger[Parent[b]], b, h, Len(Txs[b]))]
Minted(b) == {h \in Handles : \E c \in Chain[b], t \in TxIds \ Failed :
                 t \in ToSet(Txs[c]) /\ HandleOf[t] = h /\ Op[t] = "mint"}

(* A chain holds a transaction once.  One that does not fail spends the     *)
(* output that holds its handle, and a mint none: of a handle nobody holds. *)
ASSUME LedgerAssumption ==
    /\ Op \in [TxIds -> {"mint", "move", "burn"}] /\ HandleOf \in [TxIds -> Handles]
    /\ Input \in [TxIds -> TxIds \union {NoTx}]
    /\ \A b \in Blocks : \A c, d \in Chain[b] : \A i \in DOMAIN Txs[c], j \in DOMAIN Txs[d] :
          Txs[c][i] = Txs[d][j] => c = d /\ i = j
    /\ \A b \in Blocks \ {Root} : \A i \in DOMAIN Txs[b] :
          LET t == Txs[b][i] IN
          t \notin Failed =>
              /\ Input[t] = HolderAfter(Ledger[Parent[b]], b, HandleOf[t], i - 1)
              /\ Input[t] = NoTx <=> Op[t] = "mint"
Canonical == Chain[tip]
Fault == faults < MaxFaults /\ faults' = faults + 1

(* The store as it is when nothing after block b was ever seen. *)
StoreAt(b) == [record |-> Ledger[b], mint |-> Minted(b),
               utxo |-> {Ledger[b][h] : h \in Handles} \ {NoTx}]

-----------------------------------------------------------------------------
(***************************************************************************)
(* processScannerBlock: the net effect of a block.  Burns come first, an   *)
(* output made and spent in the block is not indexed, minting data is      *)
(* taken from all outputs.  The records in `ahead` stand at a later slot,  *)
(* where a repair took them from, and are not written.                     *)
(***************************************************************************)
Converted(told) == told \ Failed
Made(txs) == {t \in txs : Op[t] # "burn"}
Spent(txs) == {Input[t] : t \in txs}
Outlasting(txs) == Made(txs)      \* a mutant: also what the block itself spends
Surviving(txs) == Made(txs) \ Spent(txs)
MintedBy(txs) == {HandleOf[t] : t \in {u \in txs : Op[u] = "mint"}}
BurntBy(txs) == {HandleOf[t] : t \in {u \in txs : Op[u] = "burn"}}

NoMintData(txs) == ~({HandleOf[t] : t \in Surviving(txs)} \subseteq store.mint \union MintedBy(txs))
NetEffect(txs, ahead) ==
    [record |-> [h \in Handles |->
                    IF h \notin ahead /\ \E t \in Surviving(txs) : HandleOf[t] = h
                    THEN CHOOSE t \in Surviving(txs) : HandleOf[t] = h
                    ELSE IF h \in BurntBy(txs) THEN NoTx ELSE store.record[h]],
     mint |-> store.mint \union MintedBy(txs),
     utxo |-> (store.utxo \union Surviving(txs)) \ Spent(txs)]
TakeIn(txs) == \E ahead \in SUBSET disturbed : store' = NetEffect(txs, ahead)

(***************************************************************************)
(* The Ogmios processBlock: minting data first, then transaction by        *)
(* transaction the burns, the outputs and the spent inputs, of a failed    *)
(* transaction too.                                                        *)
(***************************************************************************)
OneByOne(s, t) ==
    [s EXCEPT !.record[HandleOf[t]] = IF Op[t] = "burn" THEN NoTx ELSE t,
              !.utxo = (@ \union Made({t})) \ Spent({t})]
InOrder(txs) ==
    LET after[n \in 0 .. Len(txs)] ==
          IF n = 0 THEN [store EXCEPT !.mint = @ \union MintedBy(ToSet(txs))]
          ELSE OneByOne(after[n - 1], txs[n])
    IN  after[Len(txs)]
Unindexed(txs) ==
    ~({HandleOf[t] : t \in Made(ToSet(txs))} \subseteq store.mint \union MintedBy(ToSet(txs)))

-----------------------------------------------------------------------------
(***************************************************************************)
(* Demeter.  `sent` is the last block the server told of and how many of   *)
(* its transactions; `pending` is the block held back, with the            *)
(* transactions received of it.                                            *)
(***************************************************************************)
Idle == [at |-> "idle", start |-> None, target |-> None,
         sent |-> None, part |-> 0, pending |-> None, got |-> {}]
At(step) == [job EXCEPT !.at = step]
Closed == [open |-> "off", asked |-> 0, pos |-> None]

Init ==
    /\ source \in Sources
    /\ tip = Root /\ cursor = Root /\ store = StoreAt(Root)
    /\ job = Idle /\ socket = Closed
    /\ faults = 0 /\ strayed = FALSE /\ disturbed = {}

(* The chain grows, or another fork becomes longer. *)
Advance ==
    /\ \E b \in Blocks : Height[b] > Height[tip] /\ tip' = b
    /\ UNCHANGED <<source, cursor, store, job, socket, faults, strayed, disturbed>>

(* scan: far behind, the blocks are listed instead (ChainFollow). *)
FarBehind == Slot[tip] - Slot[cursor] > MaxResume
CatchUp ==
    /\ source = "demeter" /\ job.at = "idle" /\ FarBehind /\ cursor \in Canonical
    /\ \E b \in Canonical :
          /\ Parent[b] = cursor /\ cursor' = b
          /\ ~NoMintData(Converted(ToSet(Txs[b])))
          /\ TakeIn(Converted(ToSet(Txs[b])))
    /\ UNCHANGED <<source, tip, job, socket, faults, strayed, disturbed>>
CatchUpOrphaned ==
    /\ source = "demeter" /\ job.at = "idle" /\ FarBehind /\ cursor \notin Canonical
    /\ job' = [Idle EXCEPT !.at = "rollback"]
    /\ UNCHANGED <<source, tip, cursor, store, socket, faults, strayed, disturbed>>

(* scanDemeterBlocks: the tip, and a stream from the cursor if it is not the *)
(* tip; a gap that could not be asked for counts as none.                   *)
Watch ==
    /\ source = "demeter" /\ job.at = "idle" /\ cursor # tip
    /\ IF FarBehind THEN Fault ELSE UNCHANGED faults
    /\ job' = [Idle EXCEPT !.at = "watch", !.start = cursor, !.target = tip,
                           !.sent = cursor, !.part = Len(Txs[cursor])]
    /\ UNCHANGED <<source, tip, cursor, store, socket, strayed, disturbed>>

(***************************************************************************)
(* consumeCompleteDemeterBlocks: one event, of block b and transaction t,  *)
(* or of no transaction (idle).                                            *)
(***************************************************************************)
InAnyOrder(b) == Height[b] > Height[job.pending]       \* a mutant: a later block will do
Contiguous(b) == Height[b] = Height[job.pending] + 1
AtBoundary(b) == Slot[b] > Slot[job.target] \/ b = job.target
OtherTip(b) == Slot[b] = Slot[job.target] /\ b # job.target
Unreadable(t) == t \in Bad
Held(b, t) == [job EXCEPT !.pending = b, !.got = {t} \ {NoTx}, !.sent = b,
                          !.part = IF t = NoTx THEN 0 ELSE 1]

SameBlock(b, t) ==
    /\ b = job.pending
    /\ job' = IF Unreadable(t) THEN At("failed")
              ELSE [job EXCEPT !.got = @ \union ({t} \ {NoTx}), !.part = IF t = NoTx THEN @ ELSE @ + 1]
    /\ UNCHANGED <<cursor, store>>

(* onBlock for the block held back. *)
Completed ==
    \/ job.pending = None /\ UNCHANGED <<cursor, store>>
    \/ /\ job.pending # None
       /\ TakeIn(Converted(job.got))
       /\ cursor' = job.pending
Refused(b) == job.pending # None /\ (~Contiguous(b) \/ NoMintData(Converted(job.got)))
NewBlock(b, t) ==
    /\ b # job.pending
    /\ \/ Refused(b) /\ job' = At("failed") /\ UNCHANGED <<cursor, store>>
       \/ /\ ~Refused(b) /\ Completed
          /\ job' = IF AtBoundary(b) THEN Idle
                    ELSE IF OtherTip(b) \/ Unreadable(t) THEN At("failed")
                    ELSE Held(b, t)

(* What the server tells next: the rest of the block, or the next block. *)
Receive(b, t) == SameBlock(b, t) \/ NewBlock(b, t)
FirstOf(b) == IF Txs[b] = <<>> THEN NoTx ELSE Txs[b][1]
Event ==
    /\ job.at = "watch" /\ job.sent \in Canonical
    /\ IF job.part < Len(Txs[job.sent])
       THEN Receive(job.sent, Txs[job.sent][job.part + 1])
       ELSE \E b \in Canonical : Parent[b] = job.sent /\ Receive(b, FirstOf(b))
    /\ UNCHANGED <<source, tip, socket, faults, strayed, disturbed>>
(* The same event again, or a block left out. *)
Repeated ==
    /\ job.at = "watch" /\ job.pending # None /\ job.sent = job.pending /\ Fault
    /\ \E t \in job.got \union (IF job.got = {} THEN {NoTx} ELSE {}) :
          job' = [job EXCEPT !.got = @ \union ({t} \ {NoTx})]
    /\ UNCHANGED <<source, tip, cursor, store, socket, strayed, disturbed>>
Skipping ==
    /\ job.at = "watch" /\ job.sent \in Canonical /\ Fault
    /\ SkipsFirst \/ job.pending # None
    /\ \E b \in Canonical : Height[b] = Height[job.sent] + 2 /\ Receive(b, FirstOf(b))
    /\ UNCHANGED <<source, tip, socket, strayed, disturbed>>

(* undo of what was told; an intersection that is not canonical is cancelled. *)
Undo ==
    /\ job.at = "watch" /\ job.sent \notin Canonical /\ job.sent # job.start
    /\ job' = At("rollback")
    /\ UNCHANGED <<source, tip, cursor, store, socket, faults, strayed, disturbed>>
Cancelled ==
    /\ job.at = "watch" /\ job.sent \notin Canonical /\ job.sent = job.start
    /\ job' = At("failed")
    /\ UNCHANGED <<source, tip, cursor, store, socket, faults, strayed, disturbed>>
(* The stream ends early or breaks; the deadline; the end of the process. *)
Broken ==
    /\ job.at = "watch" /\ Fault
    /\ job' \in {At("failed"), Idle}
    /\ UNCHANGED <<source, tip, cursor, store, socket, strayed, disturbed>>

(* The failure of the stream: is the block it started from an orphan? *)
NeverOrphaned == FALSE              \* a mutant: the error is only reported
OrphanedStart == job.start \notin Canonical
Classify ==
    /\ job.at = "failed"
    /\ job' = IF OrphanedStart THEN At("rollback") ELSE Idle
    /\ UNCHANGED <<source, tip, cursor, store, socket, faults, strayed, disturbed>>
ClassifyFails ==
    /\ job.at = "failed" /\ Fault /\ job' = Idle
    /\ UNCHANGED <<source, tip, cursor, store, socket, strayed, disturbed>>

(***************************************************************************)
(* processRollback with the deep window, of which ChainFollow has the      *)
(* detail.  The cursor goes to the last canonical block that is not after  *)
(* it, or stays where the repair fails on its way.  The handles of the     *)
(* blocks it leaves or passes over, and of those of earlier rollbacks, are *)
(* repaired as far as the answers go: of each what was stored may go or    *)
(* stay, and what the chain has of it by now, of whatever later block, may *)
(* come as an output alone, or as its record too.                          *)
(***************************************************************************)
TouchedIn(S) == {h \in Handles : \E c \in S : Touching(c, h, Len(Txs[c])) # {}}
Between(b) == (Chain[cursor] \ Chain[b]) \union (Chain[b] \ Chain[cursor])
Answers(h) == {Ledger[c][h] : c \in {d \in Blocks : d = tip \/ Height[d] > Height[tip]}} \union {NoTx}
Repair(some) ==
    \E told \in [some -> UNION {Answers(h) : h \in some}] :
        /\ \A h \in some : told[h] \in Answers(h)
        /\ \E written \in SUBSET {h \in some : told[h] # NoTx},
              stale \in SUBSET {t \in store.utxo : HandleOf[t] \in some},
              lost \in SUBSET (store.mint \intersect some) :
              store' = [record |-> [h \in Handles |-> IF h \in written THEN told[h] ELSE store.record[h]],
                        mint |-> (store.mint \ lost) \union
                                   {h \in some : told[h] # NoTx /\ Op[told[h]] = "mint"},
                        utxo |-> (store.utxo \ stale) \union ({told[h] : h \in some} \ {NoTx})]
Rollback ==
    /\ job.at = "rollback"
    /\ \E b \in Canonical :
        /\ Slot[b] <= Slot[cursor]
        /\ \A c \in Canonical : Slot[c] <= Slot[cursor] => Slot[c] <= Slot[b]
        /\ disturbed' = disturbed \union TouchedIn(Between(b))
        /\ Repair(disturbed')
        /\ \/ cursor' = b /\ UNCHANGED faults
           \/ Fault /\ UNCHANGED cursor
    /\ job' = Idle
    /\ UNCHANGED <<source, tip, socket, strayed>>

-----------------------------------------------------------------------------
(***************************************************************************)
(* Ogmios.  `pos` is where the server's stream stands, `asked` the number  *)
(* of nextBlock requests not answered yet.                                 *)
(***************************************************************************)

(* initialize and _resume: findIntersection from the cursor.  The answer is *)
(* not looked at: refused, the stream stands at its origin.                 *)
Connect ==
    /\ source = "ogmios" /\ socket.open = "off"
    /\ socket' = [open |-> "on", asked |-> Window + 1,
                  pos |-> IF cursor \in Canonical THEN cursor ELSE Root]
    /\ strayed' = (strayed \/ cursor \notin Canonical)
    /\ UNCHANGED <<source, tip, cursor, store, job, faults, disturbed>>

(* Every message, whatever it was, is followed by one more request. *)
AnsweredAndAsked == socket.asked + 1     \* a mutant: one more from the handler of a block, too
Answered == socket.asked
Unsupported(b) == ToSet(Txs[b]) \intersect Bad # {}
RollForward ==
    /\ socket.open = "on" /\ socket.asked > 0 /\ socket.pos \in Canonical
    /\ \E b \in Canonical :
        /\ Parent[b] = socket.pos
        /\ socket' = [socket EXCEPT !.pos = b, !.asked = Answered]
        /\ IF Unsupported(b) \/ Unindexed(Txs[b])
           THEN strayed' = TRUE /\ UNCHANGED <<cursor, store>>
           ELSE /\ cursor' = b /\ store' = InOrder(Txs[b])
                /\ strayed' = (strayed \/ ToSet(Txs[b]) \intersect Failed # {})
    /\ UNCHANGED <<source, tip, job, faults, disturbed>>
(* Only logged. *)
Common == Canonical \intersect Chain[socket.pos]
RollBackward ==
    /\ socket.open = "on" /\ socket.asked > 0 /\ socket.pos \notin Canonical
    /\ \E b \in Common : /\ \A c \in Common : Height[c] <= Height[b]
                         /\ socket' = [socket EXCEPT !.pos = b, !.asked = Answered]
    /\ strayed' = TRUE
    /\ UNCHANGED <<source, tip, cursor, store, job, faults, disturbed>>
(* A frame that cannot be parsed ends the process, which the host restarts. *)
Malformed ==
    /\ socket.open = "on" /\ socket.pos \in Canonical \ {tip} /\ Fault
    /\ socket' = Closed
    /\ UNCHANGED <<source, tip, cursor, store, job, strayed, disturbed>>
Exit ==
    /\ socket.open # "off" /\ Fault /\ socket' = Closed
    /\ UNCHANGED <<source, tip, cursor, store, job, strayed, disturbed>>
(* The socket closes: nothing listens for it, and nothing reconnects. *)
Lost ==
    /\ socket.open = "on" /\ Fault /\ socket' = [socket EXCEPT !.open = "lost"]
    /\ UNCHANGED <<source, tip, cursor, store, job, strayed, disturbed>>

-----------------------------------------------------------------------------
DemeterWork == CatchUp \/ CatchUpOrphaned \/ Watch \/ Event \/ Undo \/ Cancelled \/ Classify \/ Rollback
OgmiosWork == Connect \/ RollForward \/ RollBackward
Next == \/ DemeterWork \/ Repeated \/ Skipping \/ Broken \/ ClassifyFails
        \/ OgmiosWork \/ Malformed \/ Exit \/ Lost
        \/ Advance
Spec == Init /\ [][Next]_vars /\ WF_vars(DemeterWork) /\ WF_vars(OgmiosWork)

-----------------------------------------------------------------------------
TypeOK ==
    /\ source \in Sources /\ tip \in Blocks /\ cursor \in Blocks
    /\ store.record \in [Handles -> TxIds \union {NoTx}]
    /\ store.utxo \subseteq TxIds /\ store.mint \subseteq Handles
    /\ job.at \in {"idle", "watch", "failed", "rollback"}
    /\ job.pending \in Blocks \union {None} /\ job.got \subseteq TxIds
    /\ socket.open \in {"off", "on", "lost"} /\ socket.asked \in 0 .. Window + 1
    /\ faults \in 0 .. MaxFaults /\ strayed \in BOOLEAN /\ disturbed \subseteq Handles

(***************************************************************************)
(* The store is that of the cursor's block: a block is in it whole or not  *)
(* at all, whatever was repeated, left out or cut off, and the net effect  *)
(* of the scanner and the transaction-by-transaction effect of Ogmios      *)
(* agree with the ledger, also for a handle made and burnt in one block.   *)
(* For Ogmios this ends at the first rollback, error or failed             *)
(* transaction, which it does not put right; for Demeter it ends for the   *)
(* handles of the blocks a rollback left or passed over, and for them only.*)
(***************************************************************************)
Share(s, h) == [record |-> s.record[h], mint |-> s.mint \intersect {h}, utxo |-> {t \in s.utxo : HandleOf[t] = h}]
StoreFollowsCursor ==
    ~strayed => \A h \in Handles \ disturbed : Share(store, h) = Share(StoreAt(cursor), h)

(***************************************************************************)
(* Both sources follow the chain block by block (BlockFollower).  What     *)
(* Demeter last handled is the cursor; Ogmios goes on from its stream.     *)
(***************************************************************************)
Handled == IF socket.open = "off" THEN cursor ELSE socket.pos
Follower == INSTANCE BlockFollower WITH at <- Handled
FollowsBlocks == Follower!Spec

(***************************************************************************)
(* Once the chain and the providers stay as they are the scanner gets to   *)
(* the block before the tip it was told, unless it cannot read the next    *)
(* block or a repair left a handle without minting data, from an orphaned  *)
(* cursor too; Ogmios gets to the tip unless its socket was lost.          *)
(***************************************************************************)
Stuck == \/ \E b \in Canonical : Parent[b] = cursor /\ ToSet(Txs[b]) \intersect Bad # {}
         \/ \E h \in disturbed : h \notin store.mint
CatchesUp ==
    <>[](\/ source = "demeter" /\ (cursor \in {tip, Parent[tip]} \/ Stuck)
         \/ source = "ogmios" /\ (socket.open = "lost" \/ socket.pos = tip))
=============================================================================
