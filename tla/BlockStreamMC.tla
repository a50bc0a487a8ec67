--------------------------- MODULE BlockStreamMC ---------------------------
(* A tree of blocks for TLC: 3-6-8-9-10 and 4-5-7 fork after the block that    *)
(* mints; 5 and 6 have one slot.                                            *)
EXTENDS BlockStream

MCBlocks == 1 .. 10
MCParent == <<0, 1, 2, 2, 4, 3, 5, 6, 8, 9>>
MCSlot == <<1, 2, 4, 3, 5, 5, 6, 7, 8, 10>>
RECURSIVE MCHeightOf(_), MCChainOf(_)
MCHeightOf(b) == IF b = 1 THEN 0 ELSE MCHeightOf(MCParent[b]) + 1
MCChainOf(b) == IF b = 1 THEN {1} ELSE MCChainOf(MCParent[b]) \union {b}
MCHeight == [b \in MCBlocks |-> MCHeightOf(b)]
MCChain == [b \in MCBlocks |-> MCChainOf(b)]
MCTxs == <<<<>>, <<"mintA", "mintB">>, <<"moveA", "burnA">>, <<"moveA2", "failB">>, <<>>,
           <<"moveB", "moveB2">>, <<"badB">>, <<>>, <<"burnB">>, <<>>>>
MCTxIds == {"mintA", "mintB", "moveA", "burnA", "moveA2", "failB", "moveB", "moveB2", "badB", "burnB"}
MCOp == [t \in MCTxIds |-> CASE t \in {"mintA", "mintB"} -> "mint"
                             [] t \in {"burnA", "burnB"} -> "burn" [] OTHER -> "move"]
MCHandleOf == [t \in MCTxIds |-> IF t \in {"mintA", "moveA", "burnA", "moveA2"} THEN "a" ELSE "b"]
MCInput == [t \in MCTxIds |-> CASE t \in {"mintA", "mintB"} -> "none"
                                [] t \in {"moveA", "moveA2"} -> "mintA" [] t = "burnA" -> "moveA"
                                [] t \in {"failB", "moveB", "badB"} -> "mintB"
                                [] t = "moveB2" -> "moveB" [] t = "burnB" -> "moveB2"]
=============================================================================
