\* Eleven blocks with two forks over two handles; two faults: an invocation
\* that dies, a block list or a transaction cut short.
SPECIFICATION Spec
CONSTANTS
    Blocks <- MCBlocks
    Root = 1
    Parent <- MCParent
    Slot <- MCSlot
    Height <- MCHeight
    Chain <- MCChain
    Tx <- MCTx
    TxIds <- MCTxIds
    Handles = {"a", "b"}
    Op <- MCOp
    HandleOf <- MCHandleOf
    Input <- MCInput
    MaxBlocks = 3
    ChunkSize = 2
    Shallow = 2
    Deep = 9
    RollbackSlots = 2
    MaxFaults = 2
INVARIANTS
    RecordsFollowChain
    MintDataKept
PROPERTIES
    ReachesTheTip
