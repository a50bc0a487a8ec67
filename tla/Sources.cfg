\* Demeter and Ogmios on a chain that forks.
SPECIFICATION Spec
CONSTANTS
    Sources = {"demeter", "ogmios"}
    Blocks <- MCBlocks
    Root = 1
    Parent <- MCParent
    Slot <- MCSlot
    Height <- MCHeight
    Chain <- MCChain
    Txs <- MCTxs
    TxIds <- MCTxIds
    Handles = {"a", "b"}
    Op <- MCOp
    HandleOf <- MCHandleOf
    Input <- MCInput
    Failed = {"failB"}
    Bad = {"badB"}
    MaxResume = 5
    Window = 2
    SkipsFirst = FALSE
    MaxFaults = 3

    
PROPERTIES
    FollowsBlocks
    CatchesUp
CHECK_DEADLOCK FALSE
