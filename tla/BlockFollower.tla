--------------------------- MODULE BlockFollower ---------------------------
(***************************************************************************)
(* What every source of blocks promises the index, whatever provider it    *)
(* listens to: blocks are handled one after another along the chain, none  *)
(* is left out between two, and the saved cursor is only ever moved to a   *)
(* block that was just taken in, or set back.                              *)
(***************************************************************************)
EXTENDS Integers

CONSTANTS Blocks, Root, Parent, Slot

VARIABLES
    at,        \* the block last handled
    cursor     \* currentBlockHash, what a restart resumes from

vars == <<at, cursor>>

Init == at = Root /\ cursor = Root

(* A block is taken in whole and the cursor follows. *)
Take(b) == Parent[b] = at /\ at' = b /\ cursor' = b
(* A block that cannot be taken in is passed over, and the cursor does not name it. *)
Miss(b) == Parent[b] = at /\ at' = b /\ UNCHANGED cursor
(* The chain was switched: to a block that is not later, with the cursor or without. *)
Back(b) == Slot[b] <= Slot[at] /\ at' = b /\ cursor' \in {cursor, b}
(* A new process, a new connection. *)
Resume == at' = cursor /\ UNCHANGED cursor

Next == \/ \E b \in Blocks : Take(b) \/ Miss(b) \/ Back(b)
        \/ Resume
Spec == Init /\ [][Next]_vars
=============================================================================
