-------------------------- MODULE HandleQueriesMC --------------------------
(***************************************************************************)
(* Three handles and two wallets.  Handle 1 is a plain name, 2 an OG, 3 a  *)
(* number; 1 and 3 are equally long.                                       *)
(***************************************************************************)
EXTENDS HandleQueries

MCName == 1..3
MCWallet == 1..2
MCLength == <<2, 3, 2>>
MCOg == <<0, 1, 0>>
MCBorn == <<1, 0, 0>>

(* A term that is part of two names, and one of a label no name has.       *)
MCInText == <<{1, 2}, {}>>
MCInHex == <<{3}, {1, 2}>>
MCInBytes == <<{3}, {}>>

At(w, s, c) == [wallet |-> w, slot |-> s, chosen |-> c]

(* All in one wallet, split, chosen or not, one missing.                   *)
MCStores == {
    <<At(1, 0, FALSE), At(1, 2, FALSE), At(1, 3, FALSE)>>,
    <<At(1, 0, FALSE), At(2, 1, FALSE), At(1, 3, FALSE)>>,
    <<At(1, 1, TRUE), At(1, 1, FALSE), At(2, 0, FALSE)>>,
    <<At(2, 1, FALSE), None, At(2, 2, FALSE)>>}

Ask(kind) == [kind |-> kind, length |-> 0, wallet |-> None, by |-> None, sort |-> "asc",
              page |-> 1, slot |-> NoSlot, term |-> None, name |-> 1]

MCRequest ==
    {[Ask("search") EXCEPT !.length = k, !.wallet = w, !.sort = o, !.page = p] :
        k \in {0, 2, 4}, w \in {None, 1}, o \in {"asc", "desc"}, p \in 1..2}
    \union
    {[Ask("search") EXCEPT !.by = 2, !.length = k, !.sort = "desc"] : k \in {0, 2, 3}}
    \union
    {[Ask("search") EXCEPT !.slot = s, !.sort = o, !.wallet = w] :
        s \in {0, 1, 3}, o \in {"asc", "desc"}, w \in {None, 1}}
    \union {[Ask("holders") EXCEPT !.sort = o, !.page = p] : o \in {"asc", "desc"}, p \in 1..2}
    \union {[Ask("search") EXCEPT !.term = t, !.wallet = w] : t \in 1..2, w \in {None, 1}}
    \union {[Ask("holder") EXCEPT !.wallet = w] : w \in MCWallet}
    \union {[Ask("handle") EXCEPT !.name = n] : n \in MCName}
=============================================================================
