--------------------------- MODULE ChainFollowMC ---------------------------
(* A tree of blocks for TLC: the fork 5-6-7 leaves the fork 3-4 after the   *)
(* block that mints, and 8-9 makes the first one the longer one again.      *)
EXTENDS ChainFollow

MCBlocks == 1 .. 11
MCParent == <<0, 1, 2, 3, 2, 5, 6, 4, 8, 7, 9>>
MCSlot == <<1, 2, 3, 5, 4, 6, 7, 8, 9, 10, 11>>
RECURSIVE MCHeightOf(_), MCChainOf(_)
MCHeightOf(b) == IF b = 1 THEN 0 ELSE MCHeightOf(MCParent[b]) + 1
MCChainOf(b) == IF b = 1 THEN {1} ELSE MCChainOf(MCParent[b]) \union {b}
MCHeight == [b \in MCBlocks |-> MCHeightOf(b)]
MCChain == [b \in MCBlocks |-> MCChainOf(b)]
MCTx == <<"none", "mintA", "moveA", "mintB", "moveA2", "mintB", "none", "moveB", "none",
           "burnA", "moveA3">>
MCTxIds == {"mintA", "moveA", "moveA2", "moveA3", "burnA", "mintB", "moveB"}
MCOp == [t \in MCTxIds |-> CASE t \in {"mintA", "mintB"} -> "mint"
                             [] t = "burnA" -> "burn" [] OTHER -> "move"]
MCHandleOf == [t \in MCTxIds |-> IF t \in {"mintB", "moveB"} THEN "b" ELSE "a"]
MCInput == [t \in MCTxIds |-> CASE t \in {"mintA", "mintB"} -> "none"
                                [] t \in {"moveA", "moveA2"} -> "mintA" [] t = "moveA3" -> "moveA"
                                [] t = "burnA" -> "moveA2" [] t = "moveB" -> "mintB"]
=============================================================================
