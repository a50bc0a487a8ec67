--------------------------- MODULE BootstrapApisMC ---------------------------
EXTENDS BootstrapApis

(* A virtual handle, a handle, and its settings and reference tokens. *)
MCOrder == <<"v", "l", "r", "h">>
MCNames == [v |-> "v", l |-> "h", r |-> "h", h |-> "h"]

(* The handle may do all there is in three blocks, be burnt and minted again *)
(* too; the others are there or not at first, and change in the last block,   *)
(* but for the settings token.                                               *)
MCHistories ==
    LET assets == {"v", "l", "r", "h"}
    IN  {c \in [1 .. 3 -> [assets -> 0 .. 3]] :
            /\ \A a \in assets : c[1][a] \in {0, 1} /\ \A k \in 2 .. 3 : c[k][a] \in {0, c[k - 1][a], k}
            /\ c[2].v = c[1].v /\ c[2].r = c[1].r /\ c[2].l = c[1].l /\ c[3].l = c[1].l}
=============================================================================
