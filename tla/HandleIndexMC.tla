--------------------------- MODULE HandleIndexMC ---------------------------
(* Small instances of HandleIndex for TLC. *)
EXTENDS HandleIndex, TLC

CONSTANTS n1, n2, n3, r, a1, a2, a3, s, x

(* a1 and a2 are two payment addresses of one stake key s; a3 has none.    *)
(* The empty address is a holder key of its own.                           *)
MCHolderOf == [a \in AnyAddr |-> IF a \in {a1, a2} THEN s ELSE IF a = a3 THEN x ELSE NoAddr]

(* Every handle is a subhandle of one root. *)
MCRootOf == [n \in Name |-> r]

(* Two owner tokens.                                                       *)
TwoHandles == {<<n1, "222">>, <<n2, "222">>}

(* An owner token with its reference and settings tokens, and a virtual    *)
(* subhandle.                                                              *)
Companions == {<<n1, "222">>, <<n1, "100">>, <<n1, "001">>, <<n3, "000">>}

(* An owner token with its settings token.                                 *)
Settings == {<<n1, "222">>, <<n1, "001">>}

(* An owner token and a virtual subhandle.                                 *)
OwnerAndVirtual == {<<n1, "222">>, <<n3, "000">>}

(* The two owner tokens are alike in every definition.                     *)
Symmetric == Permutations({n1, n2})

=============================================================================
