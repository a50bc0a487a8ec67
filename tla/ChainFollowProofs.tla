-------------------------- MODULE ChainFollowProofs --------------------------
(***************************************************************************)
(* The records follow the canonical chain, and no minting data is lost     *)
(* that is needed, for every tree of blocks that keeps the rules of the    *)
(* ledger, every way the chain switches on it, and any number of faults.   *)
(***************************************************************************)
EXTENDS ChainFollow, WellFoundedInduction, TLAPS

Steps == {"idle", "fetch", "apply", "commit", "window", "probe", "ask", "tell", "remove", "add", "reindex"}
JobType == [at : Steps, todo : Seq(Blocks), chunk : Nat, told : SUBSET Blocks,
            window : SUBSET Blocks, offset : {0, Shallow, Deep},
            orphans : SUBSET TxIds, candidates : SUBSET Handles, repair : SUBSET Handles,
            short : BOOLEAN, promised : SUBSET Blocks,
            listed : [Handles -> TxIds \union {NoTx}], canonical : [Handles -> Blocks \union {None}]]

(* A record names a block whose transaction left the handle to someone. *)
Gives(b, h) == b \in Of(h, Blocks) /\ Op[Tx[b]] # "burn"
TypeInv ==
    /\ tip \in Blocks /\ cursor \in Blocks
    /\ utxo \in [TxIds -> Blocks \union {None}]
    /\ record \in [Handles -> Blocks \union {None}]
    /\ \A h \in Handles : record[h] # None => Gives(record[h], h)
    /\ mint \subseteq Blocks /\ standing \subseteq Blocks /\ disturbed \subseteq Handles
    /\ job \in JobType

(* The blocks listed are a line that begins at the cursor, whose chain the  *)
(* store has taken in.                                                      *)
Lined(todo, c) ==
    \A i \in 1 .. Len(todo) :
        todo[i] # Root /\ Parent[todo[i]] = IF i = 1 THEN c ELSE todo[i - 1]
ScanInv ==
    /\ Chain[cursor] \subseteq standing
    /\ job.at \in {"fetch", "apply", "commit"} => Lined(job.todo, cursor)
    /\ job.chunk <= Len(job.todo)
    /\ job.at = "commit" => job.chunk > 0 /\ Head(job.todo) \in standing

(* The record and the output of a handle are those the latest block left    *)
(* that the store has taken in, as far as these blocks are on one chain.    *)
Latest(m, S) == m \in S /\ \A s \in S : Slot[s] <= Slot[m]
Shows(m, r, u) ==
    /\ TxAt(r) = TxAt(Holds(m))
    /\ Holds(m) # None => u[Tx[m]] # None /\ Slot[r] <= Slot[m]
Stands(S, r, u) ==
    IF S = {} THEN r = None ELSE \E m \in S : Latest(m, S) /\ Shows(m, r, u)
OnOneChain(S) == \E x \in Blocks : S \subseteq Chain[x]
StandsInv ==
    \A h \in Handles \ disturbed :
        OnOneChain(Of(h, standing)) => Stands(Of(h, standing), record[h], utxo)

(* A reconciliation knows its window and what is orphaned in it, and unless *)
(* an answer was short the handles of the blocks that were missed.          *)
Reconciling == job.at \in {"probe", "ask", "tell", "remove", "add", "reindex"}
WindowInv ==
    /\ Reconciling =>
          /\ Provided(job.window) # {}
          /\ \E x \in Blocks : job.window \subseteq Chain[x]
    /\ job.at \in {"probe", "ask", "tell"} =>
          job.orphans = Orphaned(job.window) /\ OrphanedHandles \subseteq job.candidates
    /\ job.at \in {"ask", "tell"} /\ ~job.short /\ cursor \in job.window =>
          Touched(Unseen(job.window)) \subseteq job.candidates
    /\ job.at = "tell" => /\ job.repair = OrphanedHandles \union Drifted(job.listed)
                          /\ \A h \in Handles : job.listed[h] # NoTx =>
                                HandleOf[job.listed[h]] = h /\ Op[job.listed[h]] # "burn"

(* A repair owns the outputs it removes and the blocks it adds, and what it *)
(* promises is later than all it keeps of the handle.                       *)
Repairing == job.at \in {"remove", "add", "reindex"}
Keeps(o) ==
    LET h == HandleOf[Tx[o]] IN
    /\ Tx[o] # NoTx /\ h \in job.repair /\ job.canonical[h] = o
    /\ record[h] # None /\ Slot[record[h]] <= Slot[o]
    /\ \A b \in Of(h, Kept(job.window)) : Slot[b] <= Slot[o]
PlanInv ==
    /\ Repairing =>
          /\ \A t \in job.orphans : HandleOf[t] \in job.repair
          /\ \A h \in job.repair : job.canonical[h] # None => Gives(job.canonical[h], h)
          /\ \A o \in job.promised : Keeps(o)
    /\ job.at \in {"add", "reindex"} => job.repair \subseteq disturbed
    /\ job.at = "reindex" => \A o \in job.promised : utxo[Tx[o]] # None

FollowInv == TypeInv /\ ScanInv /\ WindowInv /\ PlanInv /\ StandsInv

-----------------------------------------------------------------------------
(* Numbers.                                                                 *)

(* Induction over the naturals, for a set. *)
LEMMA SetInduction ==
  ASSUME NEW S, 0 \in S, \A n \in Nat : n \in S => n + 1 \in S
  PROVE  Nat \subseteq S
<1> SUFFICES ASSUME ~(Nat \subseteq S) PROVE FALSE  OBVIOUS
<1> DEFINE T == Nat \ S
           R == OpToRel(<, Nat)
<1>1. T # {} /\ T \subseteq Nat  OBVIOUS
<1>2. IsWellFoundedOn(R, Nat)  BY NatLessThanWellFounded
<1> HIDE DEF R, T
<1>3. PICK x \in T : \A y \in T : ~(<<y, x>> \in R)  BY <1>1, <1>2, WFMin
<1>4. x \in Nat /\ x \notin S /\ x # 0  BY <1>3 DEF T
<1>5. x - 1 \in Nat /\ x - 1 \notin S  BY <1>4
<1>6. x - 1 \in T /\ <<x - 1, x>> \in R  BY <1>4, <1>5 DEF T, R, OpToRel
<1> QED  BY <1>3, <1>6

(* A bounded set of numbers has a highest one. *)
LEMMA HighestOf ==
  ASSUME NEW n \in Nat, NEW T, T \subseteq 1 .. n, T # {}
  PROVE  Highest(T) \in T /\ \A y \in T : y <= Highest(T)
<1> DEFINE S == {m \in Nat : \A U \in SUBSET (1 .. m) : U # {} => \E x \in U : \A y \in U : x >= y}
<1>1. 0 \in S
  <2>1. 1 .. 0 = {}  OBVIOUS
  <2> QED  BY <2>1
<1>2. ASSUME NEW m \in Nat, m \in S PROVE m + 1 \in S
  <2> SUFFICES ASSUME NEW U \in SUBSET (1 .. m + 1), U # {} PROVE \E x \in U : \A y \in U : x >= y
    OBVIOUS
  <2>1. CASE m + 1 \in U  BY <2>1
  <2>2. CASE m + 1 \notin U
    <3>1. U \in SUBSET (1 .. m)  BY <2>2
    <3> QED  BY <1>2, <3>1
  <2> QED  BY <2>1, <2>2
<1>3. Nat \subseteq S
  <2> HIDE DEF S
  <2> QED  BY <1>1, <1>2, SetInduction
<1>4. \E x \in T : \A y \in T : x >= y  BY <1>3
<1>5. Max(T) \in T /\ \A y \in T : Max(T) >= y  BY <1>4 DEF Max
<1> QED  BY <1>5 DEF Highest

-----------------------------------------------------------------------------
(* The tree.                                                                *)

LEMMA Tree ==
    /\ None \notin Blocks /\ Root \in Blocks /\ Blocks \subseteq Nat
    /\ (\A b \in Blocks : 1 <= b) /\ Chain[Root] = {Root}
    /\ Tx \in [Blocks -> TxIds \union {NoTx}] /\ Slot \in [Blocks -> Nat] /\ Height \in [Blocks -> Nat]
    /\ \A b \in Blocks : b # Root =>
          /\ Parent[b] \in Blocks /\ Parent[b] < b /\ Slot[Parent[b]] < Slot[b]
          /\ Height[b] = Height[Parent[b]] + 1 /\ Chain[b] = Chain[Parent[b]] \union {b}
BY ChainAssumption DEF None

(* Induction from the root, for a set of blocks. *)
LEMMA BlockInduction ==
  ASSUME NEW S, Root \in S, \A b \in Blocks : b # Root /\ Parent[b] \in S => b \in S
  PROVE  Blocks \subseteq S
<1> DEFINE N == {n \in Nat : \A b \in Blocks : b < n => b \in S}
<1>1. \A b \in Blocks : b \in Nat  BY Tree
<1>2. 0 \in N  BY <1>1
<1>3. ASSUME NEW n \in Nat, n \in N PROVE n + 1 \in N
  <2> SUFFICES ASSUME NEW b \in Blocks, b < n + 1 PROVE b \in S  OBVIOUS
  <2>1. CASE b = Root  BY <2>1
  <2>2. CASE b # Root
    <3>1. Parent[b] \in Blocks /\ Parent[b] < b  BY <2>2, Tree
    <3>2. Parent[b] < n  BY <1>1, <3>1
    <3> QED  BY <1>3, <2>2, <3>1, <3>2
  <2> QED  BY <2>1, <2>2
<1>4. Nat \subseteq N
  <2> HIDE DEF N
  <2> QED  BY <1>2, <1>3, SetInduction
<1> SUFFICES ASSUME NEW b \in Blocks PROVE b \in S  OBVIOUS
<1>5. b \in Nat /\ b + 1 \in Nat /\ b < b + 1  BY <1>1
<1>6. b + 1 \in N  BY <1>4, <1>5
<1> QED  BY <1>5, <1>6

(* A chain ends at its block: the others have lower numbers, heights and    *)
(* slots, and are on the parent's chain.                                    *)
Below(c, b) ==
    /\ c \in Blocks /\ c <= b /\ Slot[c] <= Slot[b] /\ Height[c] <= Height[b]
    /\ c # b => b # Root /\ c \in Chain[Parent[b]] /\ c < b /\ Slot[c] < Slot[b] /\ Height[c] < Height[b]
LEMMA ChainBelow == \A b \in Blocks : b \in Chain[b] /\ \A c \in Chain[b] : Below(c, b)
<1> DEFINE S == {b \in Blocks : b \in Chain[b] /\ \A c \in Chain[b] : Below(c, b)}
<1>1. Root \in S  BY Tree DEF Below
<1>2. ASSUME NEW b \in Blocks, b # Root, Parent[b] \in S PROVE b \in S
  <2> DEFINE p == Parent[b]
  <2>1. p \in Blocks /\ p < b /\ Slot[p] < Slot[b] /\ Height[b] = Height[p] + 1 /\ Chain[b] = Chain[p] \union {b}
    BY <1>2, Tree
  <2>2. b \in Nat /\ p \in Nat /\ Slot[b] \in Nat /\ Slot[p] \in Nat /\ Height[b] \in Nat /\ Height[p] \in Nat
    BY <2>1, Tree
  <2>3. ASSUME NEW c \in Chain[b] PROVE Below(c, b)
    <3>1. CASE c = b  BY <2>2, <3>1 DEF Below
    <3>2. CASE c # b
      <4>1. c \in Chain[p]  BY <2>1, <3>2
      <4>2. Below(c, p)  BY <1>2, <4>1
      <4>3. c \in Nat /\ Slot[c] \in Nat /\ Height[c] \in Nat  BY <4>2, Tree DEF Below
      <4> HIDE DEF p
      <4>4. c < b /\ Slot[c] < Slot[b] /\ Height[c] < Height[b]  BY <2>1, <2>2, <4>2, <4>3 DEF Below
      <4> QED  BY <1>2, <3>2, <4>1, <4>2, <4>3, <4>4, <2>2 DEF Below, p
    <3> QED  BY <3>1, <3>2
  <2> QED  BY <2>1, <2>3
<1>3. Blocks \subseteq S
  <2> HIDE DEF S
  <2> QED  BY <1>1, <1>2, BlockInduction
<1> QED  BY <1>3

(* The chain of a block on a chain is part of it. *)
LEMMA ChainOfChain == \A b \in Blocks : \A c \in Chain[b] : Chain[c] \subseteq Chain[b]
<1> DEFINE S == {b \in Blocks : \A c \in Chain[b] : Chain[c] \subseteq Chain[b]}
<1>1. Root \in S  BY Tree
<1>2. ASSUME NEW b \in Blocks, b # Root, Parent[b] \in S PROVE b \in S
  <2>1. Chain[b] = Chain[Parent[b]] \union {b}  BY <1>2, Tree
  <2> QED  BY <1>2, <2>1
<1>3. Blocks \subseteq S
  <2> HIDE DEF S
  <2> QED  BY <1>1, <1>2, BlockInduction
<1> QED  BY <1>3

(* Along a chain slots and heights grow with the numbers. *)
LEMMA ChainGrows ==
  \A b \in Blocks : \A c, d \in Chain[b] : c < d => Slot[c] < Slot[d] /\ Height[c] < Height[d]
<1> DEFINE S == {b \in Blocks : \A c, d \in Chain[b] : c < d => Slot[c] < Slot[d] /\ Height[c] < Height[d]}
<1>1. Root \in S
  <2>1. Root \in Nat /\ ~(Root < Root)  BY Tree
  <2> QED  BY <2>1, Tree
<1>2. ASSUME NEW b \in Blocks, b # Root, Parent[b] \in S PROVE b \in S
  <2> SUFFICES ASSUME NEW c \in Chain[b], NEW d \in Chain[b], c < d
               PROVE  Slot[c] < Slot[d] /\ Height[c] < Height[d]
    OBVIOUS
  <2>1. Chain[b] = Chain[Parent[b]] \union {b} /\ b \in Nat  BY <1>2, Tree
  <2>2. Below(c, b) /\ Below(d, b)  BY ChainBelow
  <2>3. c \in Nat /\ d \in Nat /\ c # b  BY <2>1, <2>2, Tree DEF Below
  <2>4. CASE d = b  BY <2>2, <2>3, <2>4 DEF Below
  <2>5. CASE d # b  BY <1>2, <2>1, <2>3, <2>5
  <2> QED  BY <2>4, <2>5
<1>3. Blocks \subseteq S
  <2> HIDE DEF S
  <2> QED  BY <1>1, <1>2, BlockInduction
<1> QED  BY <1>3

(* A chain has a block of every height up to its end's. *)
LEMMA ChainHasHeights ==
  \A b \in Blocks : \A k \in Nat : Height[Root] <= k /\ k <= Height[b] => \E c \in Chain[b] : Height[c] = k
<1> DEFINE S == {b \in Blocks : \A k \in Nat : Height[Root] <= k /\ k <= Height[b]
                                                   => \E c \in Chain[b] : Height[c] = k}
<1>1. Root \in S
  <2>1. Height[Root] \in Nat  BY Tree
  <2> QED  BY <2>1, Tree
<1>2. ASSUME NEW b \in Blocks, b # Root, Parent[b] \in S PROVE b \in S
  <2> SUFFICES ASSUME NEW k \in Nat, Height[Root] <= k, k <= Height[b]
               PROVE  \E c \in Chain[b] : Height[c] = k
    OBVIOUS
  <2>1. Height[b] = Height[Parent[b]] + 1 /\ Chain[b] = Chain[Parent[b]] \union {b} /\ Parent[b] \in Blocks
    BY <1>2, Tree
  <2>2. Height[b] \in Nat /\ Height[Parent[b]] \in Nat  BY <2>1, Tree
  <2>3. CASE k = Height[b]  BY <2>1, <2>3
  <2>4. CASE k # Height[b]
    <3>1. k <= Height[Parent[b]]  BY <2>1, <2>2, <2>4
    <3> QED  BY <1>2, <2>1, <3>1
  <2> QED  BY <2>3, <2>4
<1>3. Blocks \subseteq S
  <2> HIDE DEF S
  <2> QED  BY <1>1, <1>2, BlockInduction
<1> QED  BY <1>3

(* A parent is on every chain its child is on. *)
LEMMA ParentOnChain == \A b \in Blocks : \A c \in Chain[b] : c # Root => Parent[c] \in Chain[b]
<1> SUFFICES ASSUME NEW b \in Blocks, NEW c \in Chain[b], c # Root PROVE Parent[c] \in Chain[b]  OBVIOUS
<1>1. c \in Blocks  BY ChainBelow DEF Below
<1>2. Parent[c] \in Blocks /\ Chain[c] = Chain[Parent[c]] \union {c}  BY <1>1, Tree
<1>3. Parent[c] \in Chain[c]  BY <1>2, ChainBelow
<1> QED  BY <1>3, ChainOfChain

(* Some blocks of a chain: the highest one. *)
LEMMA HighestOnChain ==
  ASSUME NEW b \in Blocks, NEW S, S \subseteq Chain[b], S # {}
  PROVE  Highest(S) \in S /\ Highest(S) \in Blocks /\ \A c \in S : c <= Highest(S) /\ Slot[c] <= Slot[Highest(S)]
<1>1. S \subseteq 1 .. b
  <2> SUFFICES ASSUME NEW c \in S PROVE c \in 1 .. b  OBVIOUS
  <2>1. Below(c, b)  BY ChainBelow
  <2> QED  BY <2>1, Tree DEF Below
<1>2. b \in Nat  BY Tree
<1>3. Highest(S) \in S /\ \A c \in S : c <= Highest(S)  BY <1>1, <1>2, HighestOf
<1>4. Highest(S) \in Blocks  BY <1>3, ChainBelow DEF Below
<1>5. ASSUME NEW c \in S PROVE Slot[c] <= Slot[Highest(S)]
  <2>1. c \in Nat /\ Highest(S) \in Nat /\ c <= Highest(S) /\ Slot[c] \in Nat
    <3>1. c \in Blocks  BY ChainBelow DEF Below
    <3> QED  BY <1>3, <1>4, <3>1, Tree
  <2>2. CASE c = Highest(S)  BY <2>1, <2>2
  <2>3. CASE c # Highest(S)
    <3>1. c < Highest(S)  BY <2>1, <2>3
    <3>2. Slot[c] < Slot[Highest(S)]  BY <1>3, <3>1, ChainGrows
    <3>3. Slot[Highest(S)] \in Nat  BY <1>4, Tree
    <3> QED  BY <2>1, <3>2, <3>3
  <2> QED  BY <2>2, <2>3
<1> QED  BY <1>3, <1>4, <1>5

-----------------------------------------------------------------------------
(* The ledger.                                                              *)

LEMMA Ledger ==
    /\ Op \in [TxIds -> {"mint", "move", "burn"}] /\ HandleOf \in [TxIds -> Handles]
    /\ Input \in [TxIds -> TxIds \union {NoTx}] /\ NoTx \notin TxIds
    /\ \A b \in Blocks : Tx[b] # NoTx => Tx[b] \in TxIds /\ HandleOf[Tx[b]] \in Handles
BY LedgerAssumption, ChainAssumption

(* The blocks of a chain that touch a handle are each the only one of       *)
(* its transaction.                                                         *)
LEMMA Once ==
    \A x \in Blocks : \A c, d \in Chain[x] : Tx[c] = Tx[d] /\ Tx[c] # NoTx => c = d
BY LedgerAssumption

(* The owner is a block of the chain that gives the handle to someone.      *)
LEMMA OwnerOnChain ==
  ASSUME NEW b \in Blocks, NEW h \in Handles
  PROVE  /\ Owner(b, h) \in Blocks \union {None}
         /\ Owner(b, h) # None => Owner(b, h) \in Chain[b] /\ Gives(Owner(b, h), h)
<1> DEFINE S == Of(h, Chain[b])
<1>1. CASE S = {}  BY <1>1 DEF Owner
<1>2. CASE S # {}
  <2>1. S \subseteq Chain[b]  BY DEF Of
  <2>2. Highest(S) \in S /\ Highest(S) \in Blocks  BY <1>2, <2>1, HighestOnChain
  <2>3. Owner(b, h) = Holds(Highest(S))  BY <1>2 DEF Owner
  <2> HIDE DEF S
  <2>4. CASE Op[Tx[Highest(S)]] = "burn"  BY <2>3, <2>4 DEF Holds
  <2>5. CASE Op[Tx[Highest(S)]] # "burn"
    <3>1. Owner(b, h) = Highest(S)  BY <2>3, <2>5 DEF Holds
    <3>2. Highest(S) \in Of(h, Blocks) /\ Highest(S) \in Chain[b]
      BY <2>2 DEF Of, S
    <3> QED  BY <2>5, <3>1, <3>2, <2>2 DEF Gives
  <2> QED  BY <2>4, <2>5
<1> QED  BY <1>1, <1>2

(* What a block spends is the transaction of a block on its parent's chain  *)
(* that touches the same handle.                                            *)
LEMMA SpendsOwn ==
  ASSUME NEW b \in Blocks, b # Root, Tx[b] # NoTx, NEW t \in Spends(b)
  PROVE  \E q \in Of(HandleOf[Tx[b]], Chain[Parent[b]]) : q \in Blocks /\ Tx[q] = t
<1> DEFINE h == HandleOf[Tx[b]]
           q == Owner(Parent[b], h)
<1>1. Parent[b] \in Blocks /\ h \in Handles  BY Tree, Ledger
<1>2. Input[Tx[b]] = TxAt(q)  BY LedgerAssumption
<1>3. t = Input[Tx[b]] /\ t # NoTx  BY DEF Spends
<1>4. q # None  BY <1>2, <1>3 DEF TxAt
<1>5. q \in Chain[Parent[b]] /\ Gives(q, h)  BY <1>1, <1>4, OwnerOnChain
<1>6. Tx[q] = t  BY <1>2, <1>3, <1>4 DEF TxAt
<1> QED  BY <1>5, <1>6 DEF Gives, Of

-----------------------------------------------------------------------------
(* The blocks after the cursor.                                             *)

(* Between two heights of a chain there is one block of each height, and    *)
(* each is the child of the one before.                                     *)
LEMMA ListedIsLined ==
  ASSUME TypeInv
  PROVE  Listed \in Seq(Blocks) /\ Lined(Listed, cursor)
<1>1. CASE cursor \notin Canonical
  <2>1. Listed = <<>>  BY <1>1 DEF Listed
  <2> QED  BY <2>1 DEF Lined
<1>2. CASE cursor \in Canonical
  <2> DEFINE n == Height[tip] - Height[cursor]
             At_(i, b) == b \in Canonical /\ Height[b] = Height[cursor] + i
  <2>1. tip \in Blocks /\ cursor \in Blocks /\ Root \in Blocks /\ cursor \in Chain[tip]
    BY <1>2, Tree DEF TypeInv, Canonical
  <2>2. Height[tip] \in Nat /\ Height[cursor] \in Nat /\ Height[Root] \in Nat  BY <2>1, Tree
  <2>3. Height[cursor] <= Height[tip]  BY <2>1, ChainBelow DEF Below
  <2>4. n \in Nat  BY <2>2, <2>3
  <2>5. Listed = [i \in 1 .. n |-> CHOOSE b \in Canonical : Height[b] = Height[cursor] + i]
    BY <1>2 DEF Listed
  <2>6. Height[Root] <= Height[cursor]
    <3>1. Root \in Chain[cursor]
      <4>1. \A b \in Blocks : Root \in Chain[b]
        <5> DEFINE S == {b \in Blocks : Root \in Chain[b]}
        <5>1. Root \in S  BY Tree
        <5>2. \A b \in Blocks : b # Root /\ Parent[b] \in S => b \in S  BY Tree
        <5>3. Blocks \subseteq S
          <6> HIDE DEF S
          <6> QED  BY <5>1, <5>2, BlockInduction
        <5> QED  BY <5>3
      <4> QED  BY <2>1, <4>1
    <3> QED  BY <2>1, <3>1, ChainBelow DEF Below
  <2>7. ASSUME NEW c \in Canonical, NEW d \in Canonical, Height[c] = Height[d] PROVE c = d
    <3>1. c \in Blocks /\ d \in Blocks  BY <2>1, ChainBelow DEF Below, Canonical
    <3>2. c \in Nat /\ d \in Nat /\ Height[c] \in Nat /\ Height[d] \in Nat  BY <3>1, Tree
    <3>3. ~(c < d) /\ ~(d < c)  BY <2>1, <2>7, <3>2, ChainGrows DEF Canonical
    <3> QED  BY <3>2, <3>3
  <2>8. ASSUME NEW i \in 1 .. n PROVE At_(i, Listed[i])
    <3>1. \E b \in Chain[tip] : Height[b] = Height[cursor] + i
      <4>1. Height[cursor] + i \in Nat /\ Height[Root] <= Height[cursor] + i /\ Height[cursor] + i <= Height[tip]
        BY <2>2, <2>6
      <4> QED  BY <2>1, <4>1, ChainHasHeights
    <3>2. Listed[i] = CHOOSE b \in Canonical : Height[b] = Height[cursor] + i  BY <2>5
    <3> QED  BY <3>1, <3>2 DEF Canonical
  <2>9. ASSUME NEW i \in 1 .. n
        PROVE  /\ Listed[i] \in Blocks /\ Listed[i] # Root
               /\ Parent[Listed[i]] = IF i = 1 THEN cursor ELSE Listed[i - 1]
    <3> DEFINE b == Listed[i]
    <3>1. b \in Canonical /\ Height[b] = Height[cursor] + i  BY <2>8
    <3>2. b \in Blocks  BY <2>1, <3>1, ChainBelow DEF Below, Canonical
    <3>3. b # Root
      <4> HIDE DEF b
      <4> QED  BY <2>2, <2>6, <3>1
    <3>4. Parent[b] \in Canonical /\ Height[b] = Height[Parent[b]] + 1 /\ Height[Parent[b]] \in Nat
      BY <2>1, <3>1, <3>2, <3>3, ParentOnChain, Tree DEF Canonical
    <3>5. Height[Parent[b]] = Height[cursor] + (i - 1)
      <4> HIDE DEF b
      <4> QED  BY <2>2, <3>1, <3>4
    <3>6. CASE i = 1
      <4>1. Height[Parent[b]] = Height[cursor]  BY <2>2, <3>5, <3>6
      <4>2. Parent[b] = cursor  BY <1>2, <2>7, <3>4, <4>1
      <4> QED  BY <3>2, <3>3, <3>6, <4>2
    <3>7. CASE i # 1
      <4>1. i - 1 \in 1 .. n  BY <2>4, <3>7
      <4>2. At_(i - 1, Listed[i - 1])  BY <2>8, <4>1
      <4>3. Parent[b] = Listed[i - 1]  BY <2>7, <3>4, <3>5, <4>2
      <4> QED  BY <3>2, <3>3, <3>7, <4>3
    <3> QED  BY <3>6, <3>7
  <2>10. Listed \in Seq(Blocks) /\ Len(Listed) = n
    <3>1. Listed \in [1 .. n -> Blocks]  BY <2>5, <2>9
    <3> HIDE DEF n
    <3> QED  BY <2>4, <3>1
  <2> HIDE DEF n
  <2> QED  BY <2>9, <2>10 DEF Lined
<1> QED  BY <1>1, <1>2

(* The first of a line, and what is left of it. *)
LEMMA LinedPrefix ==
  ASSUME NEW c, NEW s \in Seq(Blocks), Lined(s, c), NEW n \in Nat, n <= Len(s)
  PROVE  SubSeq(s, 1, n) \in Seq(Blocks) /\ Lined(SubSeq(s, 1, n), c) /\ Len(SubSeq(s, 1, n)) = n
<1>1. SubSeq(s, 1, n) \in Seq(Blocks) /\ Len(SubSeq(s, 1, n)) = n
      /\ \A i \in 1 .. n : SubSeq(s, 1, n)[i] = s[i]
  OBVIOUS
<1>2. \A i \in 1 .. n : i \in 1 .. Len(s) /\ (i # 1 => i - 1 \in 1 .. n)  OBVIOUS
<1> QED  BY <1>1, <1>2 DEF Lined

LEMMA LinedTail ==
  ASSUME NEW c, NEW s \in Seq(Blocks), Lined(s, c), s # <<>>
  PROVE  /\ Head(s) \in Blocks /\ Head(s) # Root /\ Parent[Head(s)] = c
         /\ Tail(s) \in Seq(Blocks) /\ Lined(Tail(s), Head(s)) /\ Len(Tail(s)) = Len(s) - 1
<1>1. Len(s) \in Nat /\ Len(s) # 0  OBVIOUS
<1>2. Head(s) = s[1] /\ 1 \in 1 .. Len(s) /\ s[1] \in Blocks  BY <1>1
<1>3. Tail(s) \in Seq(Blocks) /\ Len(Tail(s)) = Len(s) - 1 /\ \A i \in 1 .. Len(s) - 1 : Tail(s)[i] = s[i + 1]
  BY <1>1
<1>4. \A i \in 1 .. Len(s) - 1 : i + 1 \in 1 .. Len(s) /\ i + 1 # 1 /\ (i + 1) - 1 = i
                              /\ (i # 1 => i - 1 \in 1 .. Len(s) - 1 /\ (i - 1) + 1 = i)
  BY <1>1
<1>5. ASSUME NEW i \in 1 .. Len(s) - 1
      PROVE  Tail(s)[i] # Root /\ Parent[Tail(s)[i]] = IF i = 1 THEN Head(s) ELSE Tail(s)[i - 1]
  <2>1. s[i + 1] # Root /\ Parent[s[i + 1]] = s[i]  BY <1>4 DEF Lined
  <2>2. i # 1 => Tail(s)[i - 1] = s[i]  BY <1>3, <1>4
  <2> QED  BY <1>2, <1>3, <2>1, <2>2
<1> QED  BY <1>2, <1>3, <1>5 DEF Lined

-----------------------------------------------------------------------------
(* What a handle's record shows.                                            *)

LEMMA StandsSame ==
  ASSUME NEW h, NEW S, NEW S2, NEW r, NEW u, NEW u2, S \subseteq Blocks, Of(h, S2) = Of(h, S),
         \A t \in TxIds : HandleOf[t] = h => u2[t] = u[t], Stands(Of(h, S), r, u)
  PROVE  Stands(Of(h, S2), r, u2)
<1>1. CASE Of(h, S) = {}  BY <1>1 DEF Stands
<1>2. CASE Of(h, S) # {}
  <2>1. PICK m \in Of(h, S) : Latest(m, Of(h, S)) /\ Shows(m, r, u)  BY <1>2 DEF Stands
  <2>2. Tx[m] \in TxIds /\ HandleOf[Tx[m]] = h  BY Ledger DEF Of
  <2>3. Shows(m, r, u2)  BY <2>1, <2>2 DEF Shows
  <2> QED  BY <1>2, <2>1, <2>3 DEF Stands
<1> QED  BY <1>1, <1>2

(* A step that leaves a handle alone.                                       *)
LEMMA HandleKept ==
  ASSUME TypeInv, StandsInv, NEW h \in Handles, h \notin disturbed,
         Of(h, standing') = Of(h, standing), record'[h] = record[h],
         \A t \in TxIds : HandleOf[t] = h => utxo'[t] = utxo[t]
  PROVE  OnOneChain(Of(h, standing')) => Stands(Of(h, standing'), record'[h], utxo')
<1> SUFFICES ASSUME OnOneChain(Of(h, standing')) PROVE Stands(Of(h, standing'), record'[h], utxo')
  OBVIOUS
<1>1. Stands(Of(h, standing), record[h], utxo)  BY DEF StandsInv
<1>2. standing \subseteq Blocks  BY DEF TypeInv
<1>3. Stands(Of(h, standing'), record[h], utxo')  BY <1>1, <1>2, StandsSame
<1> QED  BY <1>3

(* A step that leaves the store and its history alone.                      *)
LEMMA QuietStep ==
  ASSUME FollowInv, UNCHANGED <<cursor, utxo, record, mint, standing, disturbed>>,
         tip' \in Blocks, job' \in JobType
  PROVE  TypeInv' /\ StandsInv' /\ Chain[cursor'] \subseteq standing'
<1>1. TypeInv'  BY DEF FollowInv, TypeInv
<1>2. StandsInv'  BY DEF FollowInv, StandsInv
<1> QED  BY <1>1, <1>2 DEF FollowInv, ScanInv

Resting(j) == j.at \in {"idle", "window"} /\ j.chunk = 0 /\ j.todo = <<>>
LEMMA RestStep ==
  ASSUME FollowInv, UNCHANGED <<cursor, utxo, record, mint, standing, disturbed>>,
         tip' \in Blocks, job' \in JobType, Resting(job')
  PROVE  FollowInv'
<1>1. TypeInv' /\ StandsInv' /\ Chain[cursor'] \subseteq standing'  BY QuietStep
<1>2. ScanInv'  BY <1>1 DEF ScanInv, Resting
<1>3. WindowInv' /\ PlanInv'  BY DEF WindowInv, PlanInv, Reconciling, Repairing, Resting
<1> QED  BY <1>1, <1>2, <1>3 DEF FollowInv

LEMMA IdleJobs ==
    /\ Idle \in JobType /\ Resting(Idle)
    /\ \A o \in {0, Shallow, Deep} : LET j == [Idle EXCEPT !.at = "window", !.offset = o]
                                     IN  j \in JobType /\ Resting(j)
<1>1. Idle \in JobType  BY DEF Idle, JobType, Steps
<1>2. Resting(Idle)  BY DEF Idle, Resting
<1>3. ASSUME NEW o \in {0, Shallow, Deep}
      PROVE  LET j == [Idle EXCEPT !.at = "window", !.offset = o] IN j \in JobType /\ Resting(j)
  BY <1>1 DEF JobType, Steps, Resting, Idle
<1> QED  BY <1>1, <1>2, <1>3

LEMMA CheckOrRests ==
  ASSUME NEW seen, CheckOrRest(seen)
  PROVE  job' \in JobType /\ Resting(job')
BY IdleJobs DEF CheckOrRest

-----------------------------------------------------------------------------
(* The forward scan.                                                        *)

LEMMA ListStep ==
  ASSUME FollowInv, List PROVE FollowInv'
<1> DEFINE n == IF Len(Listed) < MaxBlocks THEN Len(Listed) ELSE MaxBlocks
           taken == SubSeq(Listed, 1, n)
<1>1. TypeInv /\ cursor \in Blocks /\ tip \in Blocks  BY DEF FollowInv, TypeInv
<1>2. Listed \in Seq(Blocks) /\ Lined(Listed, cursor)  BY <1>1, ListedIsLined
<1>3. n \in Nat /\ n <= Len(Listed)
  <2>1. Len(Listed) \in Nat /\ MaxBlocks \in Nat  BY <1>2, ChainAssumption
  <2> QED  BY <2>1
<1>4. taken \in Seq(Blocks) /\ Lined(taken, cursor)  BY <1>2, <1>3, LinedPrefix
<1>5. job' = [Idle EXCEPT !.at = "fetch", !.todo = taken]  BY DEF List
<1>6. UNCHANGED <<tip, cursor, utxo, record, mint, standing, disturbed>>  BY DEF List, store
<1> HIDE DEF taken
<1>7. job' \in JobType /\ job'.at = "fetch" /\ job'.todo = taken /\ job'.chunk = 0
  BY <1>4, <1>5, IdleJobs DEF JobType, Steps, Idle
<1>8. TypeInv' /\ StandsInv' /\ Chain[cursor'] \subseteq standing'  BY <1>1, <1>6, <1>7, QuietStep
<1>9. ScanInv'
  <2>1. Len(taken) \in Nat  BY <1>4
  <2> QED  BY <1>4, <1>6, <1>7, <1>8, <2>1 DEF ScanInv
<1>10. WindowInv' /\ PlanInv'  BY <1>7 DEF WindowInv, PlanInv, Reconciling, Repairing
<1> QED  BY <1>8, <1>9, <1>10 DEF FollowInv

LEMMA ListNothingStep ==
  ASSUME FollowInv, ListNothing PROVE FollowInv'
<1>1. job' \in JobType /\ Resting(job')
  <2>1. CASE job' = [Idle EXCEPT !.at = "window", !.offset = StaleHeadOffset]
    BY <2>1, IdleJobs DEF StaleHeadOffset
  <2>2. CASE CheckOrRest(lastSlot')  BY <2>2, CheckOrRests
  <2> QED  BY <2>1, <2>2 DEF ListNothing
<1>2. UNCHANGED <<tip, cursor, utxo, record, mint, standing, disturbed>>  BY DEF ListNothing, store
<1>3. tip \in Blocks  BY DEF FollowInv, TypeInv
<1> QED  BY <1>1, <1>2, <1>3, RestStep

LEMMA FetchStep ==
  ASSUME FollowInv, Fetch PROVE FollowInv'
<1>1. job \in JobType /\ tip \in Blocks  BY DEF FollowInv, TypeInv
<1>2. PICK short : job' = [job EXCEPT !.at = "apply", !.chunk = InChunk,
                                      !.told = {b \in Chunk \ short : Told(b)}]
  BY DEF Fetch
<1> DEFINE told == {b \in Chunk \ short : Told(b)}
<1>3. InChunk \in Nat /\ InChunk <= Len(job.todo)
  <2>1. Len(job.todo) \in Nat /\ ChunkSize \in Nat  BY <1>1, ChainAssumption DEF JobType
  <2> QED  BY <2>1 DEF InChunk
<1>4. told \in SUBSET Blocks
  <2>1. \A i \in 1 .. InChunk : job.todo[i] \in Blocks
    <3>1. job.todo \in Seq(Blocks)  BY <1>1 DEF JobType
    <3>2. \A i \in 1 .. InChunk : i \in 1 .. Len(job.todo)  BY <1>3, <3>1
    <3> QED  BY <3>1, <3>2
  <2> QED  BY <2>1 DEF Chunk
<1>5. job' = [job EXCEPT !.at = "apply", !.chunk = InChunk, !.told = told]  BY <1>2
<1> HIDE DEF told
<1>6. job' \in JobType /\ job'.at = "apply" /\ job'.todo = job.todo /\ job'.chunk = InChunk
  BY <1>1, <1>3, <1>4, <1>5 DEF JobType, Steps
<1>7. UNCHANGED <<tip, cursor, utxo, record, mint, standing, disturbed>>  BY DEF Fetch, store
<1>8. TypeInv' /\ StandsInv' /\ Chain[cursor'] \subseteq standing'  BY <1>1, <1>6, <1>7, QuietStep
<1>9. job.at = "fetch"  BY DEF Fetch
<1>10. Lined(job.todo, cursor)  BY <1>9 DEF FollowInv, ScanInv
<1>11. ScanInv'  BY <1>3, <1>6, <1>7, <1>8, <1>10 DEF ScanInv
<1>12. WindowInv' /\ PlanInv'  BY <1>6 DEF WindowInv, PlanInv, Reconciling, Repairing
<1> QED  BY <1>8, <1>11, <1>12 DEF FollowInv

LEMMA CommitStep ==
  ASSUME FollowInv, Commit PROVE FollowInv'
<1> DEFINE b == Head(job.todo)
<1>1. job \in JobType /\ tip \in Blocks /\ cursor \in Blocks  BY DEF FollowInv, TypeInv
<1>2. job.at = "commit" /\ job.chunk > 0 /\ job.chunk <= Len(job.todo) /\ Lined(job.todo, cursor) /\ b \in standing
  BY DEF Commit, FollowInv, ScanInv
<1>3. job.todo \in Seq(Blocks) /\ job.chunk \in Nat  BY <1>1 DEF JobType
<1>4. job.todo # <<>>  BY <1>2, <1>3
<1>5. b \in Blocks /\ b # Root /\ Parent[b] = cursor /\ Tail(job.todo) \in Seq(Blocks)
      /\ Lined(Tail(job.todo), b) /\ Len(Tail(job.todo)) = Len(job.todo) - 1
  BY <1>2, <1>3, <1>4, LinedTail
<1> DEFINE rest == Tail(job.todo)  left == job.chunk - 1
<1>6. left \in Nat /\ left <= Len(rest)  BY <1>2, <1>3, <1>5
<1>7. job' = [job EXCEPT !.at = "apply", !.todo = rest, !.chunk = left] /\ cursor' = b
      /\ UNCHANGED <<tip, utxo, record, mint, standing, disturbed>>
  BY DEF Commit
<1> HIDE DEF rest, left, b
<1>8. job' \in JobType /\ job'.at = "apply" /\ job'.todo = rest /\ job'.chunk = left
  BY <1>1, <1>5, <1>6, <1>7 DEF JobType, Steps, rest
<1>9. TypeInv'  BY <1>5, <1>7, <1>8 DEF FollowInv, TypeInv
<1>10. StandsInv'  BY <1>7 DEF FollowInv, StandsInv
<1>11. Chain[b] = Chain[cursor] \union {b}  BY <1>5, Tree
<1>12. ScanInv'  BY <1>2, <1>5, <1>6, <1>7, <1>8, <1>11 DEF FollowInv, ScanInv, rest
<1>13. WindowInv' /\ PlanInv'  BY <1>8 DEF WindowInv, PlanInv, Reconciling, Repairing
<1> QED  BY <1>9, <1>10, <1>12, <1>13 DEF FollowInv

LEMMA ChunkSteps ==
  ASSUME FollowInv, NextChunk \/ EndScan PROVE FollowInv'
<1>1. job \in JobType /\ tip \in Blocks /\ UNCHANGED <<tip, cursor, utxo, record, mint, standing, disturbed>>
  BY DEF FollowInv, TypeInv, NextChunk, EndScan, store
<1>2. CASE NextChunk
  <2>1. job' = [job EXCEPT !.at = "fetch"] /\ job.at = "apply"  BY <1>2 DEF NextChunk, At
  <2>2. job' \in JobType /\ job'.at = "fetch" /\ job'.todo = job.todo /\ job'.chunk = job.chunk
    BY <1>1, <2>1 DEF JobType, Steps
  <2>3. TypeInv' /\ StandsInv' /\ Chain[cursor'] \subseteq standing'  BY <1>1, <2>2, QuietStep
  <2>4. ScanInv'  BY <1>1, <2>1, <2>2, <2>3 DEF FollowInv, ScanInv
  <2>5. WindowInv' /\ PlanInv'  BY <2>2 DEF WindowInv, PlanInv, Reconciling, Repairing
  <2> QED  BY <2>3, <2>4, <2>5 DEF FollowInv
<1>3. CASE EndScan
  <2>1. job' \in JobType /\ Resting(job')  BY <1>3, CheckOrRests DEF EndScan
  <2> QED  BY <1>1, <2>1, RestStep
<1> QED  BY <1>2, <1>3

-----------------------------------------------------------------------------
(* A block is applied.                                                      *)

(* A block that writes its handle's record: it is the latest that stands.   *)
LEMMA ApplyOver ==
  ASSUME TypeInv, Chain[cursor] \subseteq standing, NEW b \in Blocks, b # Root, Parent[b] = cursor,
         Tx[b] # NoTx, Overwrites(b), Effects(b),
         standing' = (standing \ Superseded(b)) \union {b}
  PROVE  /\ Stands(Of(HandleOf[Tx[b]], standing'), record'[HandleOf[Tx[b]]], utxo')
         /\ record'[HandleOf[Tx[b]]] = Holds(b)
<1> DEFINE t == Tx[b]  h == HandleOf[t]  S == Of(h, standing')
<1>1. t \in TxIds /\ h \in Handles  BY Ledger
<1>2. \A s \in S : s \in Chain[b]
  <2>1. Superseded(b) = Of(h, standing \ Chain[b])  BY DEF Superseded
  <2>2. b \in Chain[b]  BY ChainBelow
  <2>3. \A s \in standing' : s = b \/ s \in standing \ Superseded(b)  OBVIOUS
  <2>4. ASSUME NEW s \in S, s # b, s \notin Chain[b] PROVE FALSE
    <3>1. s \in standing \ Superseded(b)  BY <2>3, <2>4 DEF Of
    <3>2. s \in Of(h, standing \ Chain[b])  BY <2>4, <3>1 DEF Of
    <3> QED  BY <2>1, <3>1, <3>2
  <2> QED  BY <2>2, <2>4
<1>3. b \in S  BY DEF Of
<1>4. Latest(b, S)  BY <1>2, <1>3, ChainBelow DEF Latest, Below
<1>5. record'[h] = Holds(b)
  <2>1. record' = [record EXCEPT ![h] = IF Op[t] = "burn" THEN None ELSE IF Writes(h, b) THEN b ELSE @]
    BY DEF Effects
  <2>2. record'[h] = IF Op[t] = "burn" THEN None ELSE IF Writes(h, b) THEN b ELSE record[h]
    BY <1>1, <2>1 DEF TypeInv
  <2> QED  BY <2>2 DEF Holds, Overwrites
<1>6. Shows(b, record'[h], utxo')
  <2>1. CASE Op[t] = "burn"  BY <1>5, <2>1 DEF Shows, Holds
  <2>2. CASE Op[t] # "burn"
    <3>1. Holds(b) = b  BY <2>2 DEF Holds
    <3>2. t \notin Spends(b)
      <4> SUFFICES ASSUME t \in Spends(b) PROVE FALSE  OBVIOUS
      <4>1. PICK q \in Chain[cursor] : q \in Blocks /\ Tx[q] = t  BY SpendsOwn DEF Of
      <4>2. q \in Chain[b] /\ b \in Chain[b]  BY <4>1, Tree, ChainBelow
      <4>3. q = b  BY <4>1, <4>2, Once
      <4>4. q <= cursor /\ cursor < b /\ cursor \in Nat /\ b \in Nat
        BY <4>1, ChainBelow, Tree DEF Below, TypeInv
      <4> QED  BY <4>3, <4>4
    <3>3. utxo'[t] = b
      <4>1. utxo' = [u \in TxIds |-> IF u \in Spends(b) THEN None
                                    ELSE IF u = t /\ Op[t] # "burn" THEN b ELSE utxo[u]]
        BY DEF Effects
      <4> QED  BY <1>1, <2>2, <3>2, <4>1
    <3>4. utxo'[t] # None /\ Slot[b] <= Slot[b]  BY <3>3, Tree
    <3> QED  BY <1>5, <3>1, <3>4 DEF Shows
  <2> QED  BY <2>1, <2>2
<1> QED  BY <1>3, <1>4, <1>5, <1>6 DEF Stands

(* A block older than its handle's record changes nothing that shows.       *)
LEMMA ApplyUnder ==
  ASSUME TypeInv, StandsInv, Chain[cursor] \subseteq standing, NEW b \in Blocks, b # Root, Parent[b] = cursor,
         Tx[b] # NoTx, ~Overwrites(b), Effects(b), HandleOf[Tx[b]] \notin disturbed,
         standing' = (standing \ Superseded(b)) \union {b},
         OnOneChain(Of(HandleOf[Tx[b]], standing'))
  PROVE  Stands(Of(HandleOf[Tx[b]], standing'), record'[HandleOf[Tx[b]]], utxo')
<1> DEFINE t == Tx[b]  h == HandleOf[t]  S == Of(h, standing)  S2 == Of(h, standing')  r == record[h]
<1>1. t \in TxIds /\ h \in Handles  BY Ledger
<1>2. S2 = S \union {b}  BY DEF Superseded, Of
<1>3. PICK x \in Blocks : S2 \subseteq Chain[x]  BY DEF OnOneChain
<1>4. Stands(S, r, utxo)
  <2>1. OnOneChain(S)  BY <1>2, <1>3 DEF OnOneChain
  <2> QED  BY <1>1, <2>1 DEF StandsInv
<1>5. Op[t] # "burn" /\ r # None /\ ~(Slot[b] >= Slot[r])  BY DEF Overwrites, Writes
<1>6. r \in Blocks /\ Tx[r] # NoTx  BY <1>1, <1>5 DEF TypeInv, Gives, Of
<1>7. PICK m \in S : Latest(m, S) /\ Shows(m, r, utxo)  BY <1>4, <1>5 DEF Stands
<1>8. Holds(m) = m /\ Tx[m] = Tx[r]
  <2>1. TxAt(r) = Tx[r]  BY <1>5 DEF TxAt
  <2>2. TxAt(Holds(m)) # NoTx  BY <1>6, <1>7, <2>1 DEF Shows
  <2>3. Holds(m) # None  BY <2>2 DEF TxAt
  <2>4. Holds(m) = m  BY <2>3 DEF Holds
  <2>5. m # None  BY <2>3, <2>4
  <2> QED  BY <1>7, <2>1, <2>4, <2>5 DEF Shows, TxAt
<1>9. m \in Blocks /\ m # None  BY Tree DEF Of, TypeInv
<1>10. Slot[b] < Slot[m]
  <2>1. Slot[r] <= Slot[m]  BY <1>7, <1>8, <1>9 DEF Shows
  <2>2. Slot[b] \in Nat /\ Slot[r] \in Nat /\ Slot[m] \in Nat  BY <1>6, <1>9, Tree
  <2> QED  BY <1>5, <2>1, <2>2
<1>11. Latest(m, S2)
  <2>1. Slot[b] <= Slot[m]
    <3>1. Slot[b] \in Nat /\ Slot[m] \in Nat  BY <1>9, Tree
    <3> QED  BY <1>10, <3>1
  <2> QED  BY <1>2, <1>7, <2>1 DEF Latest
<1>12. record'[h] = r
  <2>1. record' = [record EXCEPT ![h] = IF Op[t] = "burn" THEN None ELSE IF Writes(h, b) THEN b ELSE @]
    BY DEF Effects
  <2>2. ~Writes(h, b)  BY DEF Overwrites
  <2> QED  BY <1>1, <1>5, <2>1, <2>2 DEF TypeInv
<1>13. utxo'[Tx[m]] # None
  <2>1. utxo' = [u \in TxIds |-> IF u \in Spends(b) THEN None
                                ELSE IF u = t /\ Op[t] # "burn" THEN b ELSE utxo[u]]
    BY DEF Effects
  <2>2. Tx[m] \in TxIds  BY <1>9, Ledger DEF Of
  <2>3. utxo[Tx[m]] # None  BY <1>7, <1>8, <1>9 DEF Shows
  <2>4. Tx[m] \notin Spends(b)
    <3> SUFFICES ASSUME Tx[m] \in Spends(b) PROVE FALSE  OBVIOUS
    <3>1. PICK q \in Chain[cursor] : q \in Blocks /\ Tx[q] = Tx[m]  BY SpendsOwn DEF Of
    <3>2. b \in Chain[x] /\ m \in Chain[x]  BY <1>2, <1>3, <1>7
    <3>3. q \in Chain[x]
      <4>1. cursor \in Chain[x]  BY <3>2, ParentOnChain
      <4> QED  BY <3>1, <4>1, ChainOfChain
    <3>4. q = m  BY <3>1, <3>2, <3>3, <2>2, Ledger, Once
    <3>5. Slot[q] <= Slot[cursor] /\ Slot[cursor] < Slot[b]  BY <3>1, ChainBelow, Tree DEF Below, TypeInv
    <3>6. Slot[q] \in Nat /\ Slot[cursor] \in Nat /\ Slot[b] \in Nat  BY <3>1, Tree DEF TypeInv
    <3> QED  BY <1>10, <3>4, <3>5, <3>6
  <2> QED  BY <2>1, <2>2, <2>3, <2>4, Tree
<1>14. Shows(m, record'[h], utxo')  BY <1>7, <1>12, <1>13 DEF Shows
<1> QED  BY <1>2, <1>7, <1>11, <1>14 DEF Stands

LEMMA ApplyStep ==
  ASSUME FollowInv, Apply PROVE FollowInv'
<1> DEFINE b == Head(job.todo)
<1>1. job \in JobType /\ TypeInv /\ StandsInv /\ tip \in Blocks /\ cursor \in Blocks
  BY DEF FollowInv, TypeInv
<1>2. job.at = "apply" /\ job.chunk > 0 /\ job.chunk <= Len(job.todo) /\ Lined(job.todo, cursor)
      /\ Chain[cursor] \subseteq standing
  BY DEF Apply, FollowInv, ScanInv
<1>3. job.todo \in Seq(Blocks) /\ job.chunk \in Nat  BY <1>1 DEF JobType
<1>4. job.todo # <<>>  BY <1>2, <1>3
<1>5. b \in Blocks /\ b # Root /\ Parent[b] = cursor  BY <1>2, <1>3, <1>4, LinedTail
<1>6. UNCHANGED <<tip, cursor>> /\ b \in job.told  BY DEF Apply, Covered
<1>7. CASE NoMintData(b) /\ job' = Idle /\ UNCHANGED <<utxo, record, mint, standing, disturbed>>
  BY <1>1, <1>6, <1>7, IdleJobs, RestStep
<1>8. CASE /\ ~NoMintData(b) /\ job' = At("commit") /\ Effects(b)
           /\ standing' = (standing \ Superseded(b)) \union {b}
           /\ disturbed' = disturbed \ (IF Overwrites(b) THEN Touched({b}) ELSE {})
  <2> HIDE DEF b
  <2>1. job' = [job EXCEPT !.at = "commit"]  BY <1>8 DEF At
  <2>2. job' \in JobType /\ job'.at = "commit" /\ job'.todo = job.todo /\ job'.chunk = job.chunk
    BY <1>1, <2>1 DEF JobType, Steps
  <2>3. /\ utxo' \in [TxIds -> Blocks \union {None}]
        /\ record' \in [Handles -> Blocks \union {None}]
        /\ (\A g \in Handles : record'[g] # None => Gives(record'[g], g))
        /\ mint' \subseteq Blocks
        /\ \A g \in Handles : (Tx[b] = NoTx \/ g # HandleOf[Tx[b]]) =>
              /\ record'[g] = record[g]
              /\ \A t \in TxIds : HandleOf[t] = g => utxo'[t] = utxo[t]
    <3>1. CASE Tx[b] = NoTx  BY <1>1, <1>8, <3>1 DEF Effects, TypeInv
    <3>2. CASE Tx[b] # NoTx
      <4> DEFINE t == Tx[b]  h == HandleOf[t]
      <4>1. t \in TxIds /\ h \in Handles  BY <1>5, <3>2, Ledger
      <4>2. /\ mint' = mint \union (IF Op[t] = "mint" THEN {b} ELSE {})
            /\ utxo' = [u \in TxIds |-> IF u \in Spends(b) THEN None
                                        ELSE IF u = t /\ Op[t] # "burn" THEN b ELSE utxo[u]]
            /\ record' = [record EXCEPT ![h] =
                            IF Op[t] = "burn" THEN None ELSE IF Writes(h, b) THEN b ELSE @]
        BY <1>8, <3>2 DEF Effects
      <4>3. utxo' \in [TxIds -> Blocks \union {None}]  BY <1>1, <1>5, <4>2 DEF TypeInv
      <4>4. record' \in [Handles -> Blocks \union {None}]  BY <1>1, <1>5, <4>2 DEF TypeInv
      <4>5. ASSUME NEW g \in Handles, record'[g] # None PROVE Gives(record'[g], g)
        <5>1. CASE g # h \/ record'[g] = record[g]  BY <1>1, <4>2, <4>5, <5>1 DEF TypeInv
        <5>2. CASE g = h /\ record'[g] = b /\ Op[t] # "burn"  BY <1>5, <3>2, <5>2 DEF Gives, Of
        <5> QED  BY <1>1, <4>2, <4>5, <5>1, <5>2 DEF TypeInv
      <4>6. mint' \subseteq Blocks  BY <1>1, <1>5, <4>2 DEF TypeInv
      <4>7. ASSUME NEW g \in Handles, g # h
            PROVE  record'[g] = record[g] /\ \A u \in TxIds : HandleOf[u] = g => utxo'[u] = utxo[u]
        <5>1. record'[g] = record[g]  BY <1>1, <4>2, <4>7 DEF TypeInv
        <5>2. ASSUME NEW u \in TxIds, HandleOf[u] = g PROVE utxo'[u] = utxo[u]
          <6>1. u # t  BY <4>7, <5>2
          <6>2. u \notin Spends(b)
            <7> SUFFICES ASSUME u \in Spends(b) PROVE FALSE  OBVIOUS
            <7>1. PICK q \in Of(h, Chain[Parent[b]]) : Tx[q] = u  BY <1>5, <3>2, SpendsOwn
            <7> QED  BY <4>7, <5>2, <7>1 DEF Of
          <6> QED  BY <4>2, <6>1, <6>2
        <5> QED  BY <5>1, <5>2
      <4> QED  BY <4>3, <4>4, <4>5, <4>6, <4>7, <3>2
    <3> QED  BY <3>1, <3>2
  <2>4. standing' \subseteq Blocks /\ disturbed' \subseteq disturbed
    BY <1>1, <1>5, <1>8 DEF TypeInv
  <2>5. TypeInv'  BY <1>1, <1>6, <2>2, <2>3, <2>4 DEF TypeInv
  <2>6. StandsInv'
    <3> SUFFICES ASSUME NEW g \in Handles, g \notin disturbed', OnOneChain(Of(g, standing'))
                 PROVE  Stands(Of(g, standing'), record'[g], utxo')
      BY DEF StandsInv
    <3>1. CASE Tx[b] = NoTx \/ g # HandleOf[Tx[b]]
      <4>1. Of(g, standing') = Of(g, standing)
        BY <1>8, <3>1 DEF Superseded, Overwrites, Of
      <4>2. g \notin disturbed  BY <1>8, <3>1 DEF Touched, Overwrites
      <4> QED  BY <1>1, <2>3, <3>1, <4>1, <4>2, HandleKept
    <3>2. CASE Tx[b] # NoTx /\ g = HandleOf[Tx[b]] /\ Overwrites(b)
      BY <1>1, <1>2, <1>5, <1>8, <3>2, ApplyOver
    <3>3. CASE Tx[b] # NoTx /\ g = HandleOf[Tx[b]] /\ ~Overwrites(b)
      <4>1. g \notin disturbed  BY <1>8, <3>3
      <4> QED  BY <1>1, <1>2, <1>5, <1>8, <3>3, <4>1, ApplyUnder
    <3> QED  BY <3>1, <3>2, <3>3
  <2>7. Chain[cursor'] \subseteq standing' /\ b \in standing'
    <3>1. Chain[cursor] \subseteq Chain[b]  BY <1>5, Tree
    <3> QED  BY <1>2, <1>6, <1>8, <3>1 DEF Superseded, Of
  <2>8. ScanInv'  BY <1>2, <1>6, <2>2, <2>7 DEF ScanInv, b
  <2>9. WindowInv' /\ PlanInv'  BY <2>2 DEF WindowInv, PlanInv, Reconciling, Repairing
  <2> QED  BY <2>5, <2>6, <2>8, <2>9 DEF FollowInv
<1> QED  BY <1>6, <1>7, <1>8 DEF Apply

-----------------------------------------------------------------------------
(* The reconciliation.                                                      *)

LEMMA TouchedHandles == \A S \in SUBSET Blocks : Touched(S) \subseteq Handles
BY Ledger DEF Touched

(* A block that a reconciliation puts right: the record shows it.           *)
Right(w, o) ==
    LET h == HandleOf[Tx[o]] IN
    /\ Tx[o] # NoTx /\ Holds(o) = o /\ record'[h] = o /\ utxo[Tx[o]] # None
    /\ \A b \in Of(h, Kept(w)) : Slot[b] <= Slot[o]

(* The head moves: what no other fork had touched still stands, and what    *)
(* the reconciliation has put right does.                                   *)
LEMMA SnapStep ==
  ASSUME TypeInv, StandsInv, NEW w, NEW P, NEW x \in Blocks, w \subseteq Chain[x], Provided(w) # {},
         Snap(w, P), tip' \in Blocks, utxo' = utxo, mint' = mint, P \subseteq Blocks,
         record' \in [Handles -> Blocks \union {None}],
         \A h \in Handles : record'[h] # None => Gives(record'[h], h),
         \A h \in Handles : h \in disturbed \/ h \in Touched(P) \/ record'[h] = record[h],
         \A o \in P : Right(w, o)
  PROVE  FollowInv'
<1> DEFINE R == RecoveredHead(w)
<1>1. R \in Blocks
  <2>1. Provided(w) \subseteq Chain[x]  BY DEF Provided
  <2> QED  BY <2>1, HighestOnChain DEF RecoveredHead
<1>2. cursor' = R /\ job' = Idle /\ standing' = Kept(w) \union P
      /\ disturbed' = (disturbed \union Touched(Left(w)) \union Touched(Jumped(w))) \ Touched(P)
  BY DEF Snap
<1>3. Chain[R] \subseteq Blocks  BY <1>1, ChainBelow DEF Below
<1>4. Kept(w) = (standing \ Left(w)) \union Chain[R] /\ Jumped(w) = Chain[R] \ standing
  BY DEF Kept, Jumped
<1>5. standing' \subseteq Blocks /\ disturbed' \subseteq Handles
  <2>1. standing \subseteq Blocks /\ disturbed \subseteq Handles  BY DEF TypeInv
  <2>2. Left(w) \in SUBSET Blocks /\ Jumped(w) \in SUBSET Blocks  BY <1>3, <1>4, <2>1 DEF Left
  <2>3. Touched(Left(w)) \subseteq Handles /\ Touched(Jumped(w)) \subseteq Handles
    BY <2>2, TouchedHandles
  <2> QED  BY <1>2, <1>3, <1>4, <2>1, <2>3
<1>6. TypeInv'  BY <1>1, <1>2, <1>5, IdleJobs DEF TypeInv
<1>7. StandsInv'
  <2> SUFFICES ASSUME NEW h \in Handles, h \notin disturbed', OnOneChain(Of(h, standing'))
               PROVE  Stands(Of(h, standing'), record'[h], utxo')
    BY DEF StandsInv
  <2>1. CASE h \in Touched(P)
    <3>1. PICK o \in P : Tx[o] # NoTx /\ HandleOf[Tx[o]] = h  BY <2>1 DEF Touched
    <3>2. Right(w, o) /\ o \in Blocks  BY <3>1
    <3>3. record'[h] = o /\ utxo'[Tx[o]] # None /\ Holds(o) = o /\ Slot[o] <= Slot[o]
      BY <3>1, <3>2, Tree DEF Right
    <3>4. o \in Of(h, standing')  BY <1>2, <3>1 DEF Of
    <3>5. ASSUME NEW b \in Of(h, standing') PROVE Slot[b] <= Slot[o]
      <4>1. CASE b \in Kept(w)
        <5>1. b \in Of(h, Kept(w))  BY <4>1, <3>5 DEF Of
        <5> QED  BY <3>1, <3>2, <5>1 DEF Right
      <4>2. CASE b \in P
        <5>1. Tx[b] # NoTx /\ HandleOf[Tx[b]] = h  BY <3>5 DEF Of
        <5>2. record'[h] = b  BY <4>2, <5>1 DEF Right
        <5> QED  BY <3>3, <5>2
      <4> QED  BY <1>2, <3>5, <4>1, <4>2 DEF Of
    <3>6. Latest(o, Of(h, standing')) /\ Shows(o, record'[h], utxo')
      BY <3>3, <3>4, <3>5 DEF Latest, Shows
    <3> QED  BY <3>4, <3>6 DEF Stands
  <2>2. CASE h \notin Touched(P)
    <3>1. h \notin disturbed /\ h \notin Touched(Left(w)) /\ h \notin Touched(Jumped(w))
      BY <1>2, <2>2
    <3>2. record'[h] = record[h]  BY <2>2, <3>1
    <3>3. Of(h, standing') = Of(h, standing)
      <4>1. ASSUME NEW b \in Of(h, standing') PROVE b \in standing
        <5>1. Tx[b] # NoTx /\ HandleOf[Tx[b]] = h /\ b \in Kept(w) \union P  BY <1>2, <4>1 DEF Of
        <5>2. b \notin P  BY <2>2, <5>1 DEF Touched
        <5>3. b \notin Jumped(w)  BY <3>1, <5>1 DEF Touched
        <5> QED  BY <1>4, <5>1, <5>2, <5>3
      <4>2. ASSUME NEW b \in Of(h, standing) PROVE b \in standing'
        <5>1. Tx[b] # NoTx /\ HandleOf[Tx[b]] = h /\ b \in standing  BY <4>2 DEF Of
        <5>2. b \notin Left(w)  BY <3>1, <5>1 DEF Touched
        <5> QED  BY <1>2, <1>4, <5>1, <5>2
      <4> QED  BY <4>1, <4>2 DEF Of
    <3>4. \A t \in TxIds : HandleOf[t] = h => utxo'[t] = utxo[t]  OBVIOUS
    <3> QED  BY <3>1, <3>2, <3>3, <3>4, HandleKept
  <2> QED  BY <2>1, <2>2
<1>8. ScanInv' /\ WindowInv' /\ PlanInv'
  <2>1. Resting(job')  BY <1>2, IdleJobs
  <2>2. Chain[cursor'] \subseteq standing'  BY <1>2, <1>4
  <2> QED  BY <2>1, <2>2 DEF ScanInv, WindowInv, PlanInv, Reconciling, Repairing, Resting
<1> QED  BY <1>6, <1>7, <1>8 DEF FollowInv

LEMMA NothingPromised ==
  ASSUME FollowInv, NEW w, NEW x \in Blocks, w \subseteq Chain[x], Provided(w) # {},
         Snap(w, {}), UNCHANGED <<tip, utxo, record, mint>>
  PROVE  FollowInv'
<1>1. TypeInv /\ StandsInv /\ tip \in Blocks  BY DEF FollowInv, TypeInv
<1>2. record' \in [Handles -> Blocks \union {None}] /\ \A h \in Handles : record'[h] # None => Gives(record'[h], h)
  BY <1>1 DEF TypeInv
<1> QED  BY <1>1, <1>2, SnapStep

LEMMA ReadWindowStep ==
  ASSUME FollowInv, ReadWindow PROVE FollowInv'
<1> DEFINE w == Window(job.offset)
<1>1. job \in JobType /\ TypeInv /\ tip \in Blocks /\ UNCHANGED <<tip, utxo, record, mint, ledger>>
  BY DEF FollowInv, TypeInv, ReadWindow, store
<1>2. w \subseteq Chain[tip] /\ w \subseteq Blocks
  <2>1. w \subseteq Chain[tip]  BY DEF Window, Canonical
  <2> QED  BY <1>1, <2>1, ChainBelow DEF Below
<1>3. CASE job' = Idle /\ UNCHANGED <<cursor, standing, disturbed>>
  BY <1>1, <1>3, IdleJobs, RestStep
<1>4. CASE Provided(w) # {} /\ Snap(w, {})
  BY <1>1, <1>2, <1>4, NothingPromised
<1>5. CASE /\ Provided(w) # {}
           /\ job' = [job EXCEPT !.window = w, !.orphans = Orphaned(w),
                                 !.candidates = {HandleOf[t] : t \in Orphaned(w)},
                                 !.at = IF ~AnchorOrphaned(w) /\ Unseen(w) # {} THEN "probe" ELSE "ask"]
           /\ UNCHANGED <<cursor, standing, disturbed>>
  <2> DEFINE orphans == Orphaned(w)
             candidates == {HandleOf[t] : t \in orphans}
             at == IF ~AnchorOrphaned(w) /\ Unseen(w) # {} THEN "probe" ELSE "ask"
  <2>1. orphans \in SUBSET TxIds  BY DEF Orphaned, StoredFrom
  <2>2. candidates \in SUBSET Handles  BY <2>1, Ledger
  <2>3. at \in {"probe", "ask"}  OBVIOUS
  <2>4. job' = [job EXCEPT !.window = w, !.orphans = orphans, !.candidates = candidates, !.at = at]
    BY <1>5
  <2>5. job.at = "window"  BY DEF ReadWindow
  <2> HIDE DEF w, orphans, candidates, at
  <2>6. /\ job' \in JobType /\ job'.window = w /\ job'.orphans = orphans
        /\ job'.candidates = candidates /\ job'.at = at /\ job'.todo = job.todo /\ job'.chunk = job.chunk
    BY <1>1, <1>2, <2>1, <2>2, <2>3, <2>4 DEF JobType, Steps
  <2>7. TypeInv' /\ StandsInv' /\ Chain[cursor'] \subseteq standing'
    BY <1>1, <1>5, <2>6, QuietStep
  <2>8. ScanInv'  BY <1>1, <1>5, <2>3, <2>6, <2>7 DEF FollowInv, ScanInv
  <2>9. PlanInv'  BY <2>3, <2>6 DEF PlanInv, Repairing
  <2>10. WindowInv'
    <3>1. Provided(job.window)' = Provided(w)  BY <1>5, <2>6 DEF Provided
    <3>2. Provided(job.window)' # {}  BY <1>5, <3>1
    <3>3. \E x \in Blocks : job'.window \subseteq Chain[x]  BY <1>1, <1>2, <2>6
    <3>4. Orphaned(job.window)' = orphans
      BY <1>1, <2>6 DEF orphans, Orphaned, StoredFrom
    <3>5. OrphanedHandles' = candidates
      BY <2>6 DEF OrphanedHandles, candidates
    <3>6. at = "ask" => cursor \notin w \/ Unseen(w) = {}  BY DEF at, AnchorOrphaned
    <3>7. Unseen(job.window)' = Unseen(w)  BY <1>1, <3>1 DEF Unseen
    <3>8. Touched({}) = {}  BY DEF Touched
    <3>9. job'.at = "ask" /\ cursor' \in job'.window => Touched(Unseen(job.window)') = {}
      BY <1>5, <2>6, <3>6, <3>7, <3>8
    <3>10. Touched(Unseen(job.window)') = Touched(Unseen(job.window))'  BY DEF Touched
    <3> QED  BY <2>3, <2>6, <3>2, <3>3, <3>4, <3>5, <3>9, <3>10 DEF WindowInv
  <2> QED  BY <2>7, <2>8, <2>9, <2>10 DEF FollowInv
<1> QED  BY <1>3, <1>4, <1>5 DEF ReadWindow

LEMMA ProbeStep ==
  ASSUME FollowInv, Probe PROVE FollowInv'
<1>1. job \in JobType /\ TypeInv /\ tip \in Blocks /\ job.at = "probe"
      /\ UNCHANGED <<tip, cursor, utxo, record, mint, ledger, standing, disturbed>>
  BY DEF FollowInv, TypeInv, Probe, store
<1>2. PICK told \in SUBSET Unseen(job.window) :
         job' = [job EXCEPT !.at = "ask", !.short = {b \in told : Told(b)} # Unseen(job.window),
                            !.candidates = @ \union Touched({b \in told : Told(b)})]
  BY DEF Probe
<1> DEFINE seen == {b \in told : Told(b)}
           short == seen # Unseen(job.window)
           candidates == job.candidates \union Touched(seen)
<1>3. seen \in SUBSET Blocks
  <2>1. Unseen(job.window) \subseteq job.window /\ job.window \subseteq Blocks
    BY <1>1 DEF Unseen, Provided, JobType
  <2> QED  BY <2>1
<1>4. candidates \in SUBSET Handles /\ short \in BOOLEAN
  BY <1>1, <1>3, TouchedHandles DEF JobType
<1>5. job' = [job EXCEPT !.at = "ask", !.short = short, !.candidates = candidates]  BY <1>2
<1>6. ~short => Touched(Unseen(job.window)) \subseteq candidates  OBVIOUS
<1>7. job.candidates \subseteq candidates  OBVIOUS
<1> HIDE DEF short, candidates
<1>8. /\ job' \in JobType /\ job'.at = "ask" /\ job'.short = short /\ job'.candidates = candidates
      /\ job'.todo = job.todo /\ job'.chunk = job.chunk /\ job'.window = job.window /\ job'.orphans = job.orphans
  BY <1>1, <1>4, <1>5 DEF JobType, Steps
<1>9. TypeInv' /\ StandsInv' /\ Chain[cursor'] \subseteq standing'  BY <1>1, <1>8, QuietStep
<1>10. ScanInv'  BY <1>1, <1>8, <1>9 DEF FollowInv, ScanInv
<1>11. PlanInv'  BY <1>8 DEF PlanInv, Repairing
<1>12. WindowInv'
  <2>1. Provided(job.window)' = Provided(job.window)  BY <1>1, <1>8 DEF Provided
  <2>2. Orphaned(job.window)' = Orphaned(job.window)  BY <1>1, <1>8 DEF Orphaned, StoredFrom
  <2>3. Unseen(job.window)' = Unseen(job.window)  BY <1>1, <2>1 DEF Unseen
  <2>4. OrphanedHandles' = OrphanedHandles  BY <1>8 DEF OrphanedHandles
  <2>5. WindowInv  BY DEF FollowInv
  <2>6. Provided(job.window) # {} /\ (\E x \in Blocks : job.window \subseteq Chain[x])
        /\ job.orphans = Orphaned(job.window) /\ OrphanedHandles \subseteq job.candidates
    BY <1>1, <2>5 DEF WindowInv, Reconciling
  <2>7. Touched(Unseen(job.window))' = Touched(Unseen(job.window))  BY <2>3 DEF Touched
  <2> QED  BY <1>6, <1>7, <1>8, <2>1, <2>2, <2>4, <2>6, <2>7 DEF WindowInv
<1> QED  BY <1>9, <1>10, <1>11, <1>12 DEF FollowInv

(* What is asked: the transactions that hold the handles on a chain.        *)
LEMMA AskUtxosStep ==
  ASSUME FollowInv, AskUtxos PROVE FollowInv'
<1>1. job \in JobType /\ TypeInv /\ WindowInv /\ tip \in Blocks /\ job.at = "ask"
      /\ UNCHANGED <<tip, utxo, record, mint, ledger>>
  BY DEF FollowInv, TypeInv, AskUtxos, store
<1>2. Provided(job.window) # {} /\ \E x \in Blocks : job.window \subseteq Chain[x]
  BY <1>1 DEF WindowInv, Reconciling
<1>3. CASE Snap(job.window, {})  BY <1>1, <1>2, <1>3, NothingPromised
<1>4. ASSUME NEW short \in SUBSET Asked,
             LET listed == [h \in Handles |-> IF h \in short THEN NoTx ELSE TxAt(Owner(tip, h))]
             IN  job' = [job EXCEPT !.at = "tell", !.repair = OrphanedHandles \union Drifted(listed),
                                    !.listed = listed],
             UNCHANGED <<cursor, standing, disturbed>>
      PROVE  FollowInv'
  <2> DEFINE listed == [h \in Handles |-> IF h \in short THEN NoTx ELSE TxAt(Owner(tip, h))]
             repair == OrphanedHandles \union Drifted(listed)
  <2>1. repair \in SUBSET Handles
    <3>1. job.orphans \subseteq TxIds /\ job.candidates \subseteq Handles  BY <1>1 DEF JobType
    <3>2. OrphanedHandles \subseteq Handles  BY <3>1, Ledger DEF OrphanedHandles
    <3>3. Drifted(listed) \subseteq Handles  BY <3>1 DEF Drifted, Asked
    <3> QED  BY <3>2, <3>3
  <2>2. ASSUME NEW h \in Handles
        PROVE  /\ listed[h] \in TxIds \union {NoTx}
               /\ listed[h] # NoTx => HandleOf[listed[h]] = h /\ Op[listed[h]] # "burn"
    <3>1. CASE h \in short \/ Owner(tip, h) = None  BY <3>1 DEF TxAt
    <3>2. CASE h \notin short /\ Owner(tip, h) # None
      <4>1. Gives(Owner(tip, h), h)  BY <1>1, <3>2, OwnerOnChain
      <4>2. listed[h] = Tx[Owner(tip, h)]  BY <3>2 DEF TxAt
      <4> QED  BY <4>1, <4>2, Ledger DEF Gives, Of
    <3> QED  BY <3>1, <3>2
  <2>3. listed \in [Handles -> TxIds \union {NoTx}]  BY <2>2
  <2>4. job' = [job EXCEPT !.at = "tell", !.repair = repair, !.listed = listed]  BY <1>4
  <2>5. repair = OrphanedHandles \union Drifted(listed)  OBVIOUS
  <2> HIDE DEF repair, listed
  <2>6. /\ job' \in JobType /\ job'.at = "tell" /\ job'.repair = repair /\ job'.listed = listed
        /\ job'.window = job.window /\ job'.orphans = job.orphans /\ job'.short = job.short
        /\ job'.candidates = job.candidates /\ job'.todo = job.todo /\ job'.chunk = job.chunk
    BY <1>1, <2>1, <2>3, <2>4 DEF JobType, Steps
  <2>7. TypeInv' /\ StandsInv' /\ Chain[cursor'] \subseteq standing'  BY <1>1, <1>4, <2>6, QuietStep
  <2>8. ScanInv'  BY <1>4, <2>6, <2>7 DEF FollowInv, ScanInv
  <2>9. PlanInv'  BY <2>6 DEF PlanInv, Repairing
  <2>10. WindowInv'
    <3>1. Provided(job.window)' = Provided(job.window)  BY <1>4, <2>6 DEF Provided
    <3>2. Orphaned(job.window)' = Orphaned(job.window)  BY <1>1, <2>6 DEF Orphaned, StoredFrom
    <3>3. Unseen(job.window)' = Unseen(job.window)  BY <1>1, <3>1 DEF Unseen
    <3>4. Touched(Unseen(job.window))' = Touched(Unseen(job.window))  BY <3>3 DEF Touched
    <3>5. OrphanedHandles' = OrphanedHandles  BY <2>6 DEF OrphanedHandles
    <3>6. Drifted(job.listed)' = Drifted(listed)  BY <1>1, <2>6 DEF Drifted, Asked
    <3>7. job'.repair = OrphanedHandles' \union Drifted(job.listed)'  BY <2>5, <2>6, <3>5, <3>6
    <3>8. \A h \in Handles : job'.listed[h] # NoTx =>
             HandleOf[job'.listed[h]] = h /\ Op[job'.listed[h]] # "burn"
      BY <2>2, <2>6
    <3> QED  BY <1>1, <1>4, <2>6, <3>1, <3>2, <3>4, <3>5, <3>7, <3>8 DEF WindowInv, Reconciling
  <2> QED  BY <2>7, <2>8, <2>9, <2>10 DEF FollowInv
<1> QED  BY <1>3, <1>4 DEF AskUtxos

(* What is told of a transaction that was listed is a block that gives the  *)
(* handle to someone.                                                       *)
LEMMA ToldGives ==
  ASSUME FollowInv, job.at = "tell", NEW h \in Handles, BlockOf(job.listed[h]) # None
  PROVE  LET o == BlockOf(job.listed[h]) IN
         o \in Blocks /\ Tx[o] = job.listed[h] /\ Tx[o] # NoTx /\ Gives(o, h)
<1> DEFINE o == BlockOf(job.listed[h])
<1>1. job \in JobType /\ WindowInv /\ tip \in Blocks  BY DEF FollowInv, TypeInv
<1>2. o \in Holding(job.listed[h])  BY DEF BlockOf
<1>3. o \in Chain[tip] /\ Tx[o] = job.listed[h] /\ job.listed[h] # NoTx
  BY <1>2 DEF Holding, Canonical
<1>4. o \in Blocks  BY <1>1, <1>3, ChainBelow DEF Below
<1>5. HandleOf[job.listed[h]] = h /\ Op[job.listed[h]] # "burn"  BY <1>1, <1>3 DEF WindowInv
<1> HIDE DEF o
<1>6. Gives(o, h)  BY <1>3, <1>4, <1>5 DEF Gives, Of
<1> QED  BY <1>3, <1>4, <1>6 DEF o

(* Everything promised is planned.                                          *)
LEMMA TellPlans ==
  ASSUME FollowInv, job.at = "tell", NEW told \in [Handles -> Blocks \union {None}],
         \A h \in Handles : told[h] \in {None, BlockOf(job.listed[h])},
         NEW o \in Promised(job.window, job.short, told)
  PROVE  LET h == HandleOf[Tx[o]] IN
         /\ o \in Blocks /\ Tx[o] # NoTx /\ h \in job.repair /\ h \in Asked
         /\ told[h] = o /\ record[h] # None /\ Slot[record[h]] <= Slot[o]
         /\ \A b \in Of(h, Kept(job.window)) : Slot[b] <= Slot[o]
<1>1. PICK p \in Handles :
        /\ o = told[p] /\ record[p] # None /\ o # None /\ Slot[o] >= Slot[record[p]]
        /\ \A b \in Of(p, Kept(job.window)) : Slot[o] >= Slot[b]
        /\ \/ /\ record[p] \notin job.window /\ utxo[Tx[record[p]]] = record[p]
              /\ Slot[record[p]] >= Slot[Lowest(job.window)]
           \/ /\ ~job.short /\ cursor \in job.window /\ Tx[o] # Tx[record[p]]
              /\ p \in Touched(Provided(job.window) \ ledger)
  BY DEF Promised
<1>2. TypeInv /\ WindowInv /\ tip \in Blocks  BY DEF FollowInv, TypeInv
<1>3. o = BlockOf(job.listed[p])  BY <1>1
<1>4. o \in Blocks /\ Gives(o, p) /\ Tx[o] = job.listed[p]  BY <1>1, <1>3, ToldGives
<1>5. HandleOf[Tx[o]] = p /\ Tx[o] # NoTx  BY <1>4 DEF Gives, Of
<1>6. Gives(record[p], p)  BY <1>1, <1>2 DEF TypeInv
<1>7. record[p] \in Blocks /\ Tx[record[p]] # NoTx /\ HandleOf[Tx[record[p]]] = p /\ Tx[record[p]] \in TxIds
  BY <1>6, Ledger DEF Gives, Of
<1>8. \A b \in Of(p, Kept(job.window)) : Slot[b] <= Slot[o]
  <2>1. Kept(job.window) \subseteq Blocks
    <3>1. RecoveredHead(job.window) \in Blocks
      <4>1. PICK x \in Blocks : job.window \subseteq Chain[x]  BY <1>2 DEF WindowInv, Reconciling
      <4>2. Provided(job.window) \subseteq Chain[x] /\ Provided(job.window) # {}
        BY <1>2, <4>1 DEF Provided, WindowInv, Reconciling
      <4> QED  BY <4>2, HighestOnChain DEF RecoveredHead
    <3>2. Chain[RecoveredHead(job.window)] \subseteq Blocks  BY <3>1, ChainBelow DEF Below
    <3> QED  BY <1>2, <3>2 DEF Kept, TypeInv
  <2>2. \A b \in Of(p, Kept(job.window)) : Slot[b] \in Nat  BY <2>1, Tree DEF Of
  <2> QED  BY <1>1, <1>4, <2>2, Tree
<1>9. Slot[record[p]] <= Slot[o]
  <2>1. Slot[record[p]] \in Nat /\ Slot[o] \in Nat  BY <1>4, <1>7, Tree
  <2> QED  BY <1>1, <2>1
<1>10. p \in job.repair /\ p \in Asked
  <2>1. CASE /\ record[p] \notin job.window /\ utxo[Tx[record[p]]] = record[p]
             /\ Slot[record[p]] >= Slot[Lowest(job.window)]
    <3>1. Tx[record[p]] \in Orphaned(job.window)
      BY <1>1, <1>7, <2>1 DEF Orphaned, StoredFrom
    <3>2. p \in OrphanedHandles /\ OrphanedHandles \subseteq job.candidates
      BY <1>2, <1>7, <3>1 DEF WindowInv, OrphanedHandles
    <3> QED  BY <1>1, <1>2, <3>2 DEF Asked, WindowInv
  <2>2. CASE /\ ~job.short /\ cursor \in job.window /\ Tx[o] # Tx[record[p]]
             /\ p \in Touched(Provided(job.window) \ ledger)
    <3>1. p \in job.candidates  BY <1>2, <2>2 DEF WindowInv, Unseen
    <3>2. p \in Asked  BY <1>1, <3>1 DEF Asked
    <3>3. job.listed[p] \notin {NoTx, TxAt(record[p])}  BY <1>1, <1>4, <1>5, <2>2 DEF TxAt
    <3>4. p \in Drifted(job.listed)  BY <3>2, <3>3 DEF Drifted
    <3> QED  BY <1>2, <3>2, <3>4 DEF WindowInv
  <2> QED  BY <1>1, <2>1, <2>2
<1> QED  BY <1>1, <1>4, <1>5, <1>8, <1>9, <1>10

LEMMA AskTxsStep ==
  ASSUME FollowInv, AskTxs PROVE FollowInv'
<1>1. job \in JobType /\ TypeInv /\ WindowInv /\ tip \in Blocks /\ job.at = "tell"
      /\ UNCHANGED <<tip, cursor, utxo, record, mint, ledger, standing, disturbed>>
  BY DEF FollowInv, TypeInv, AskTxs, store
<1>2. Provided(job.window) # {} /\ \E x \in Blocks : job.window \subseteq Chain[x]
  BY <1>1 DEF WindowInv, Reconciling
<1>3. PICK short :
        LET told == [h \in Handles |-> IF h \in short THEN None ELSE BlockOf(job.listed[h])]
        IN  job' = [job EXCEPT !.at = "remove",
                               !.canonical = [h \in Handles |-> IF h \in Asked THEN told[h] ELSE None],
                               !.promised = Promised(job.window, job.short, told)]
  BY DEF AskTxs
<1> DEFINE told == [h \in Handles |-> IF h \in short THEN None ELSE BlockOf(job.listed[h])]
           promised == Promised(job.window, job.short, told)
           canonical == [h \in Handles |-> IF h \in Asked THEN told[h] ELSE None]
<1>4. \A h \in Handles : told[h] \in {None, BlockOf(job.listed[h])}  OBVIOUS
<1>5. \A h \in Handles : told[h] # None => told[h] \in Blocks /\ Gives(told[h], h)
  BY <1>1, ToldGives
<1>6. told \in [Handles -> Blocks \union {None}]  BY <1>5
<1>7. canonical \in [Handles -> Blocks \union {None}]  BY <1>5
<1>8. \A h \in Handles : /\ canonical[h] # None => Gives(canonical[h], h)
                         /\ h \in Asked => canonical[h] = told[h]
  BY <1>5
<1> HIDE DEF told
<1>9. \A o \in promised : LET h == HandleOf[Tx[o]] IN
        /\ o \in Blocks /\ Tx[o] # NoTx /\ h \in job.repair /\ h \in Asked
        /\ told[h] = o /\ record[h] # None /\ Slot[record[h]] <= Slot[o]
        /\ \A b \in Of(h, Kept(job.window)) : Slot[b] <= Slot[o]
  BY <1>1, <1>4, <1>6, TellPlans
<1>10. promised \in SUBSET Blocks  BY <1>9
<1>11. job' = [job EXCEPT !.at = "remove", !.canonical = canonical, !.promised = promised]
  BY <1>3 DEF told
<1> HIDE DEF promised, canonical
<1>12. /\ job' \in JobType /\ job'.at = "remove" /\ job'.repair = job.repair /\ job'.promised = promised
       /\ job'.canonical = canonical /\ job'.window = job.window /\ job'.orphans = job.orphans
       /\ job'.todo = job.todo /\ job'.chunk = job.chunk
  BY <1>1, <1>7, <1>10, <1>11 DEF JobType, Steps
<1>13. TypeInv' /\ StandsInv' /\ Chain[cursor'] \subseteq standing'  BY <1>1, <1>12, QuietStep
<1>14. ScanInv'  BY <1>1, <1>12, <1>13 DEF FollowInv, ScanInv
<1>15. WindowInv'
  <2>1. Provided(job.window)' = Provided(job.window)  BY <1>1, <1>12 DEF Provided
  <2> QED  BY <1>2, <1>12, <2>1 DEF WindowInv
<1>16. PlanInv'
  <2>1. Kept(job.window)' = Kept(job.window)
    BY <1>1, <1>12 DEF Kept, Left, RecoveredHead, Provided
  <2>2. ASSUME NEW o \in promised PROVE Keeps(o)'
    <3> DEFINE h == HandleOf[Tx[o]]
    <3>1. /\ Tx[o] # NoTx /\ h \in job.repair /\ h \in Asked /\ h \in Handles
          /\ told[h] = o /\ record[h] # None /\ Slot[record[h]] <= Slot[o]
          /\ \A b \in Of(h, Kept(job.window)) : Slot[b] <= Slot[o]
      BY <1>1, <1>9 DEF JobType
    <3>2. canonical[h] = o  BY <1>8, <3>1
    <3> HIDE DEF h
    <3>3. /\ Tx[o] # NoTx /\ h \in job'.repair /\ job'.canonical[h] = o
          /\ record'[h] # None /\ Slot[record'[h]] <= Slot[o]
          /\ \A b \in Of(h, Kept(job.window)') : Slot[b] <= Slot[o]
      BY <1>1, <1>12, <2>1, <3>1, <3>2
    <3> QED  BY <3>3 DEF Keeps, h, Of
  <2>3. \A t \in job.orphans : HandleOf[t] \in job.repair  BY <1>1 DEF WindowInv, OrphanedHandles
  <2>4. \A h \in job.repair : canonical[h] # None => Gives(canonical[h], h)  BY <1>1, <1>8 DEF JobType
  <2> QED  BY <1>12, <2>2, <2>3, <2>4 DEF PlanInv, Gives
<1> QED  BY <1>13, <1>14, <1>15, <1>16 DEF FollowInv

LEMMA RemoveStaleStep ==
  ASSUME FollowInv, RemoveStale PROVE FollowInv'
<1>1. job \in JobType /\ TypeInv /\ WindowInv /\ PlanInv /\ StandsInv /\ tip \in Blocks /\ job.at = "remove"
      /\ UNCHANGED <<tip, cursor, record, standing>>
  BY DEF FollowInv, TypeInv, RemoveStale
<1>2. /\ utxo' = [t \in TxIds |-> IF t \in Stale THEN None ELSE utxo[t]]
      /\ mint' = mint \ StaleMints /\ disturbed' = disturbed \union job.repair
      /\ job' = [job EXCEPT !.at = "add"]
  BY DEF RemoveStale, At
<1>3. /\ job' \in JobType /\ job'.at = "add" /\ job'.repair = job.repair /\ job'.promised = job.promised
      /\ job'.canonical = job.canonical /\ job'.window = job.window /\ job'.orphans = job.orphans
      /\ job'.todo = job.todo /\ job'.chunk = job.chunk
  BY <1>1, <1>2 DEF JobType, Steps
<1>4. TypeInv'
  <2>1. utxo' \in [TxIds -> Blocks \union {None}]  BY <1>1, <1>2 DEF TypeInv
  <2>2. disturbed' \subseteq Handles /\ mint' \subseteq Blocks  BY <1>1, <1>2 DEF TypeInv, JobType
  <2> QED  BY <1>1, <1>3, <2>1, <2>2 DEF TypeInv
<1>5. StandsInv'
  <2> SUFFICES ASSUME NEW h \in Handles, h \notin disturbed', OnOneChain(Of(h, standing'))
               PROVE  Stands(Of(h, standing'), record'[h], utxo')
    BY DEF StandsInv
  <2>1. h \notin disturbed /\ h \notin job.repair  BY <1>2
  <2>2. ASSUME NEW t \in TxIds, HandleOf[t] = h PROVE utxo'[t] = utxo[t]
    <3>1. t \notin job.orphans  BY <1>1, <2>1, <2>2 DEF PlanInv, Repairing
    <3>2. ASSUME NEW g \in job.repair, record[g] # None PROVE t # TxAt(record[g])
      <4>1. g \in Handles  BY <1>1 DEF JobType
      <4>2. Gives(record[g], g)  BY <1>1, <3>2, <4>1 DEF TypeInv
      <4>3. TxAt(record[g]) = Tx[record[g]] /\ HandleOf[Tx[record[g]]] = g
        BY <3>2, <4>2 DEF TxAt, Gives, Of
      <4> QED  BY <2>1, <2>2, <4>3
    <3>3. t \notin Stale  BY <3>1, <3>2 DEF Stale
    <3> QED  BY <1>2, <3>3
  <2> QED  BY <1>1, <2>1, <2>2, HandleKept
<1>6. ScanInv'  BY <1>1, <1>3 DEF FollowInv, ScanInv
<1>7. WindowInv'
  <2>1. Provided(job.window)' = Provided(job.window)  BY <1>1, <1>3 DEF Provided
  <2> QED  BY <1>1, <1>3, <2>1 DEF WindowInv, Reconciling
<1>8. PlanInv'
  <2>1. Kept(job.window)' = Kept(job.window)
    BY <1>1, <1>3 DEF Kept, Left, RecoveredHead, Provided
  <2>2. ASSUME NEW o \in job.promised PROVE Keeps(o)'
    <3>1. Keeps(o)  BY <1>1 DEF PlanInv, Repairing
    <3> QED  BY <1>1, <1>3, <2>1, <3>1 DEF Keeps, Of
  <2>3. job.repair \subseteq disturbed'  BY <1>2
  <2> QED  BY <1>1, <1>3, <2>2, <2>3 DEF PlanInv, Repairing
<1> QED  BY <1>4, <1>5, <1>6, <1>7, <1>8 DEF FollowInv

(* The blocks found are each of a handle under repair.                      *)
LEMMA FoundOfRepair ==
  ASSUME FollowInv, Repairing
  PROVE  /\ Found \subseteq Blocks
         /\ \A f \in Found : LET h == HandleOf[Tx[f]] IN
               Tx[f] \in TxIds /\ h \in job.repair /\ h \in Handles /\ job.canonical[h] = f /\ Op[Tx[f]] # "burn"
         /\ \A o \in job.promised : o \in Found
<1>1. job \in JobType /\ PlanInv  BY DEF FollowInv, TypeInv
<1>2. ASSUME NEW f \in Found
      PROVE  LET h == HandleOf[Tx[f]] IN
             /\ f \in Blocks /\ Tx[f] \in TxIds /\ h \in job.repair /\ h \in Handles
             /\ job.canonical[h] = f /\ Op[Tx[f]] # "burn"
  <2>1. PICK g \in job.repair : f = job.canonical[g] /\ f # None  BY DEF Found
  <2>2. Gives(f, g) /\ g \in Handles  BY <1>1, <2>1 DEF PlanInv, JobType
  <2> QED  BY <2>1, <2>2, Ledger DEF Gives, Of
<1>3. ASSUME NEW o \in job.promised PROVE o \in Found
  <2>1. Keeps(o)  BY <1>1 DEF PlanInv
  <2>2. o # None  BY <1>1, Tree DEF JobType
  <2> QED  BY <2>1, <2>2 DEF Keeps, Found
<1> QED  BY <1>2, <1>3

LEMMA AddCanonicalStep ==
  ASSUME FollowInv, AddCanonical PROVE FollowInv'
<1>1. job \in JobType /\ TypeInv /\ WindowInv /\ PlanInv /\ StandsInv /\ tip \in Blocks /\ job.at = "add"
      /\ UNCHANGED <<tip, cursor, record, disturbed>>
  BY DEF FollowInv, TypeInv, AddCanonical
<1>2. Repairing  BY <1>1 DEF Repairing
<1>3. /\ utxo' = [t \in TxIds |-> IF \E b \in Found : Tx[b] = t
                                  THEN CHOOSE b \in Found : Tx[b] = t ELSE utxo[t]]
      /\ mint' = mint \union {b \in Found : Op[Tx[b]] = "mint"} /\ standing' = standing \union Found
      /\ job' = [job EXCEPT !.at = "reindex"]
  BY DEF AddCanonical, At
<1>4. /\ job' \in JobType /\ job'.at = "reindex" /\ job'.repair = job.repair /\ job'.promised = job.promised
      /\ job'.canonical = job.canonical /\ job'.window = job.window /\ job'.orphans = job.orphans
      /\ job'.todo = job.todo /\ job'.chunk = job.chunk
  BY <1>1, <1>3 DEF JobType, Steps
<1>5. Found \subseteq Blocks  BY <1>2, FoundOfRepair
<1>6. \A f \in Found : HandleOf[Tx[f]] \in job.repair /\ job.canonical[HandleOf[Tx[f]]] = f
  BY <1>2, FoundOfRepair
<1>7. ASSUME NEW t \in TxIds
      PROVE  /\ (\E b \in Found : Tx[b] = t) => utxo'[t] \in Found
             /\ ~(\E b \in Found : Tx[b] = t) => utxo'[t] = utxo[t]
  <2>1. CASE \E b \in Found : Tx[b] = t
    <3>1. (CHOOSE b \in Found : Tx[b] = t) \in Found  BY <2>1
    <3>2. utxo'[t] = CHOOSE b \in Found : Tx[b] = t  BY <1>3, <2>1
    <3> QED  BY <2>1, <3>1, <3>2
  <2>2. CASE ~(\E b \in Found : Tx[b] = t)  BY <1>3, <2>2
  <2> QED  BY <2>1, <2>2
<1>8. TypeInv'
  <2>1. \A t \in TxIds : utxo'[t] \in Blocks \union {None}  BY <1>1, <1>5, <1>7 DEF TypeInv
  <2>2. utxo' \in [TxIds -> Blocks \union {None}]  BY <1>3, <2>1
  <2>3. mint' \subseteq Blocks /\ standing' \subseteq Blocks  BY <1>1, <1>3, <1>5 DEF TypeInv
  <2> QED  BY <1>1, <1>4, <2>2, <2>3 DEF TypeInv
<1>9. job.repair \subseteq disturbed  BY <1>1 DEF PlanInv
<1>10. StandsInv'
  <2> SUFFICES ASSUME NEW h \in Handles, h \notin disturbed', OnOneChain(Of(h, standing'))
               PROVE  Stands(Of(h, standing'), record'[h], utxo')
    BY DEF StandsInv
  <2>1. h \notin disturbed /\ h \notin job.repair  BY <1>1, <1>9
  <2>2. Of(h, standing') = Of(h, standing)  BY <1>3, <1>6, <2>1 DEF Of
  <2>3. ASSUME NEW t \in TxIds, HandleOf[t] = h PROVE utxo'[t] = utxo[t]
    <3>1. ~(\E b \in Found : Tx[b] = t)  BY <1>6, <2>1, <2>3
    <3> QED  BY <1>7, <3>1
  <2> QED  BY <1>1, <2>1, <2>2, <2>3, HandleKept
<1>11. ScanInv'  BY <1>1, <1>3, <1>4 DEF FollowInv, ScanInv
<1>12. WindowInv'
  <2>1. Provided(job.window)' = Provided(job.window)  BY <1>1, <1>4 DEF Provided
  <2> QED  BY <1>1, <1>4, <2>1 DEF WindowInv, Reconciling
<1>13. PlanInv'
  <2>1. RecoveredHead(job.window)' = RecoveredHead(job.window)
    BY <1>1, <1>4 DEF RecoveredHead, Provided
  <2>2. \A b \in Kept(job.window)' : b \in Kept(job.window) \/ b \in Found
    BY <1>3, <1>4, <2>1 DEF Kept, Left
  <2>3. ASSUME NEW o \in job.promised PROVE Keeps(o)' /\ utxo'[Tx[o]] # None
    <3> DEFINE h == HandleOf[Tx[o]]
    <3>1. /\ Tx[o] # NoTx /\ h \in job.repair /\ job.canonical[h] = o
          /\ record[h] # None /\ Slot[record[h]] <= Slot[o]
          /\ \A b \in Of(h, Kept(job.window)) : Slot[b] <= Slot[o]
      BY <1>1, <1>2 DEF PlanInv, Keeps
    <3>2. o \in Found /\ Tx[o] \in TxIds  BY <1>2, FoundOfRepair
    <3>3. ASSUME NEW b \in Of(h, Kept(job.window)') PROVE Slot[b] <= Slot[o]
      <4>1. Tx[b] # NoTx /\ HandleOf[Tx[b]] = h /\ b \in Kept(job.window)'  BY <3>3 DEF Of
      <4>2. CASE b \in Kept(job.window)
        <5>1. b \in Of(h, Kept(job.window))  BY <4>1, <4>2 DEF Of
        <5> QED  BY <3>1, <5>1
      <4>3. CASE b \in Found
        <5>1. b = o  BY <1>6, <3>1, <4>1, <4>3
        <5>2. Slot[o] \in Nat  BY <1>5, <3>2, Tree
        <5> QED  BY <5>1, <5>2
      <4> QED  BY <2>2, <4>1, <4>2, <4>3
    <3>4. utxo'[Tx[o]] # None
      <4>1. utxo'[Tx[o]] \in Found  BY <1>7, <3>2
      <4> QED  BY <1>5, <4>1, Tree
    <3>5. record' = record  BY <1>1
    <3> HIDE DEF h
    <3> QED  BY <1>4, <3>1, <3>3, <3>4, <3>5 DEF Keeps, h, Of
  <2> QED  BY <1>1, <1>2, <1>4, <1>9, <2>3 DEF PlanInv, Gives
<1> QED  BY <1>8, <1>10, <1>11, <1>12, <1>13 DEF FollowInv

LEMMA ReindexStep ==
  ASSUME FollowInv, Reindex PROVE FollowInv'
<1>1. job \in JobType /\ TypeInv /\ WindowInv /\ PlanInv /\ StandsInv /\ tip \in Blocks /\ job.at = "reindex"
      /\ UNCHANGED <<tip, utxo, mint>> /\ Snap(job.window, job.promised)
  BY DEF FollowInv, TypeInv, Reindex
<1>2. Repairing /\ Reconciling /\ job.repair \subseteq disturbed  BY <1>1 DEF Repairing, Reconciling, PlanInv
<1>3. PICK x \in Blocks : job.window \subseteq Chain[x]  BY <1>1, <1>2 DEF WindowInv
<1>4. Provided(job.window) # {} /\ job.promised \subseteq Blocks  BY <1>1, <1>2 DEF WindowInv, JobType
<1>5. record' = [h \in Handles |->
                   IF job.canonical[h] \in Found /\ h \in job.repair /\ Writes(h, job.canonical[h])
                   THEN job.canonical[h] ELSE record[h]]
  BY DEF Reindex
<1>6. \A h \in Handles : h \in job.repair \/ record'[h] = record[h]  BY <1>5
<1>7. ASSUME NEW h \in Handles
      PROVE  record'[h] \in Blocks \union {None} /\ (record'[h] # None => Gives(record'[h], h))
  <2>1. CASE record'[h] = record[h]  BY <1>1, <2>1 DEF TypeInv
  <2>2. CASE record'[h] = job.canonical[h] /\ job.canonical[h] \in Found /\ h \in job.repair
    <3>1. job.canonical[h] \in Blocks  BY <1>2, <2>2, FoundOfRepair
    <3>2. job.canonical[h] # None  BY <3>1, Tree
    <3>3. Gives(job.canonical[h], h)  BY <1>1, <1>2, <2>2, <3>2 DEF PlanInv
    <3> QED  BY <2>2, <3>1, <3>3
  <2> QED  BY <1>5, <2>1, <2>2
<1>8. record' \in [Handles -> Blocks \union {None}]  BY <1>5, <1>7
<1>9. ASSUME NEW o \in job.promised PROVE Right(job.window, o)
  <2> DEFINE h == HandleOf[Tx[o]]
  <2>1. /\ Tx[o] # NoTx /\ h \in job.repair /\ job.canonical[h] = o
        /\ record[h] # None /\ Slot[record[h]] <= Slot[o]
        /\ \A b \in Of(h, Kept(job.window)) : Slot[b] <= Slot[o]
    BY <1>1, <1>2 DEF PlanInv, Keeps
  <2>2. o \in Found /\ h \in Handles /\ Op[Tx[o]] # "burn"  BY <1>2, FoundOfRepair
  <2>3. Holds(o) = o  BY <2>2 DEF Holds
  <2>4. Writes(h, o)
    <3>1. record[h] \in Blocks /\ o \in Blocks  BY <1>1, <1>4, <2>1, <2>2 DEF TypeInv
    <3>2. Slot[record[h]] \in Nat /\ Slot[o] \in Nat  BY <3>1, Tree
    <3> QED  BY <2>1, <3>2 DEF Writes
  <2>5. record'[h] = o  BY <1>5, <2>1, <2>2, <2>4
  <2>6. utxo[Tx[o]] # None  BY <1>1 DEF PlanInv
  <2> QED  BY <2>1, <2>3, <2>5, <2>6 DEF Right
<1> HIDE DEF Right
<1>10. \A h \in Handles : h \in disturbed \/ h \in Touched(job.promised) \/ record'[h] = record[h]
  BY <1>2, <1>6
<1> QED  BY <1>1, <1>3, <1>4, <1>7, <1>8, <1>9, <1>10, SnapStep

-----------------------------------------------------------------------------
(* The theorems.                                                            *)

LEMMA FollowInit == Init => FollowInv
<1> SUFFICES ASSUME Init PROVE FollowInv  OBVIOUS
<1>1. TypeInv  BY Tree, IdleJobs DEF Init, TypeInv
<1>2. job = Idle /\ Resting(job) /\ standing = {Root} /\ cursor = Root /\ record = [h \in Handles |-> None]
  BY IdleJobs DEF Init
<1>3. ScanInv /\ WindowInv /\ PlanInv
  BY <1>2, Tree DEF ScanInv, WindowInv, PlanInv, Reconciling, Repairing, Resting
<1>4. StandsInv
  <2>1. \A h \in Handles : Of(h, standing) = {}  BY <1>2, ChainAssumption DEF Of
  <2> QED  BY <1>2, <2>1 DEF StandsInv, Stands
<1> QED  BY <1>1, <1>3, <1>4 DEF FollowInv

LEMMA FollowNext == FollowInv /\ [Next]_vars => FollowInv'
<1> SUFFICES ASSUME FollowInv, [Next]_vars PROVE FollowInv'  OBVIOUS
<1>1. job \in JobType /\ tip \in Blocks  BY DEF FollowInv, TypeInv
<1>2. CASE Advance \/ UNCHANGED vars
  <2>1. tip' \in Blocks /\ UNCHANGED <<cursor, utxo, record, mint, ledger, standing, disturbed, job>>
    BY <1>1, <1>2 DEF Advance, store, vars
  <2>2. TypeInv' /\ StandsInv' /\ Chain[cursor'] \subseteq standing'  BY <1>1, <2>1, QuietStep
  <2>3. ScanInv'  BY <2>1, <2>2 DEF FollowInv, ScanInv
  <2>4. WindowInv'
    <3>1. /\ Provided(job.window)' = Provided(job.window) /\ Orphaned(job.window)' = Orphaned(job.window)
          /\ Unseen(job.window)' = Unseen(job.window) /\ OrphanedHandles' = OrphanedHandles
          /\ Drifted(job.listed)' = Drifted(job.listed)
      BY <2>1 DEF Provided, Orphaned, StoredFrom, Unseen, OrphanedHandles, Drifted, Asked
    <3> QED  BY <2>1, <3>1 DEF FollowInv, WindowInv, Reconciling, Touched
  <2>5. PlanInv'
    <3>1. Kept(job.window)' = Kept(job.window)  BY <2>1 DEF Kept, Left, RecoveredHead, Provided
    <3> QED  BY <2>1, <3>1 DEF FollowInv, PlanInv, Repairing, Keeps, Of, Gives
  <2> QED  BY <2>2, <2>3, <2>4, <2>5 DEF FollowInv
<1>3. CASE Stop \/ ReindexThrows
  <2>1. job' = Idle /\ UNCHANGED <<tip, cursor, utxo, record, mint, standing, disturbed>>
    BY <1>3 DEF Stop, ReindexThrows, store
  <2> QED  BY <1>1, <2>1, IdleJobs, RestStep
<1> QED
  BY <1>2, <1>3, ListStep, ListNothingStep, FetchStep, ApplyStep, CommitStep, ChunkSteps,
     ReadWindowStep, ProbeStep, AskUtxosStep, AskTxsStep, RemoveStaleStep, AddCanonicalStep, ReindexStep
  DEF Next, Work

(* The inductive invariant.                                                 *)
THEOREM FollowInvariant == Spec => []FollowInv
<1>1. Init => FollowInv  BY FollowInit
<1>2. FollowInv /\ [Next]_vars => FollowInv'  BY FollowNext
<1> QED  BY <1>1, <1>2, PTL DEF Spec

(* At rest the record of every handle that no reconciliation left undone is *)
(* that of its canonical owner, and its output is stored.                   *)
THEOREM RecordsCorrect == Spec => []RecordsFollowChain
<1>1. FollowInv => RecordsFollowChain
  <2> SUFFICES ASSUME FollowInv, AtRest, NEW h \in Handles, h \notin disturbed
               PROVE  /\ TxAt(record[h]) = TxAt(Owner(tip, h))
                      /\ record[h] # None => utxo[TxAt(record[h])] # None
    BY DEF RecordsFollowChain
  <2> DEFINE S == Of(h, Chain[tip])
  <2>1. tip \in Blocks /\ standing = Chain[tip]
    BY DEF FollowInv, TypeInv, ScanInv, AtRest, Canonical
  <2>2. OnOneChain(S)  BY <2>1 DEF OnOneChain, Of
  <2>3. Stands(S, record[h], utxo)  BY <2>1, <2>2 DEF FollowInv, StandsInv
  <2>4. CASE S = {}
    <3>1. record[h] = None /\ Owner(tip, h) = None  BY <2>3, <2>4 DEF Stands, Owner
    <3> QED  BY <3>1
  <2>5. CASE S # {}
    <3>1. PICK m \in S : Latest(m, S) /\ Shows(m, record[h], utxo)  BY <2>3, <2>5 DEF Stands
    <3>2. S \subseteq Chain[tip]  BY DEF Of
    <3>3. Highest(S) \in S /\ Highest(S) \in Blocks /\ m \in Blocks /\ m <= Highest(S)
      BY <2>1, <2>5, <3>1, <3>2, HighestOnChain, ChainBelow DEF Below
    <3>4. m = Highest(S)
      <4>1. Slot[Highest(S)] <= Slot[m]  BY <3>1, <3>3 DEF Latest
      <4>2. ~(m < Highest(S))
        <5> SUFFICES ASSUME m < Highest(S) PROVE FALSE  OBVIOUS
        <5>1. Slot[m] < Slot[Highest(S)]  BY <2>1, <3>1, <3>2, <3>3, ChainGrows
        <5>2. Slot[m] \in Nat /\ Slot[Highest(S)] \in Nat  BY <3>3, Tree
        <5> QED  BY <4>1, <5>1, <5>2
      <4>3. m \in Nat /\ Highest(S) \in Nat  BY <3>3, Tree
      <4> QED  BY <3>3, <4>2, <4>3
    <3>5. Owner(tip, h) = Holds(m)  BY <2>5, <3>4 DEF Owner
    <3>6. TxAt(record[h]) = TxAt(Holds(m))  BY <3>1 DEF Shows
    <3>7. ASSUME record[h] # None PROVE utxo[TxAt(record[h])] # None
      <4>1. Gives(record[h], h)  BY <3>7 DEF FollowInv, TypeInv
      <4>2. TxAt(record[h]) # NoTx  BY <3>7, <4>1 DEF TxAt, Gives, Of
      <4>3. Holds(m) # None  BY <3>6, <4>2 DEF TxAt
      <4>4. Holds(m) = m /\ m # None  BY <3>3, <4>3, Tree DEF Holds
      <4>5. utxo[Tx[m]] # None  BY <3>1, <4>3 DEF Shows
      <4> QED  BY <3>6, <4>4, <4>5 DEF TxAt
    <3> QED  BY <3>5, <3>6, <3>7
  <2> QED  BY <2>4, <2>5
<1> QED  BY <1>1, FollowInvariant, PTL

(* A handle with a record keeps its minting data.                           *)
LEMMA MintStep == FollowInv /\ MintDataKept /\ [Next]_vars => MintDataKept'
<1> SUFFICES ASSUME FollowInv, MintDataKept, [Next]_vars,
                    NEW h \in Handles, h \notin disturbed', record'[h] # None
             PROVE  MintsOf(h)' # {}
  BY DEF MintDataKept
<1>1. TypeInv /\ job \in JobType  BY DEF FollowInv, TypeInv
<1>2. CASE mint \subseteq mint' /\ record'[h] = record[h] /\ h \notin disturbed
  BY <1>2 DEF MintDataKept, MintsOf, Of
<1>3. CASE Advance \/ List \/ ListNothing \/ Fetch \/ Commit \/ NextChunk \/ EndScan \/ Probe
           \/ AskTxs \/ ReindexThrows \/ Stop \/ UNCHANGED vars
  <2>1. UNCHANGED <<record, mint, disturbed>>
    BY <1>3 DEF Advance, List, ListNothing, Fetch, Commit, NextChunk, EndScan, Probe, AskTxs, ReindexThrows,
                Stop, vars, store
  <2> QED  BY <1>2, <2>1
<1>4. CASE ReadWindow \/ AskUtxos
  <2>1. UNCHANGED <<record, mint>> /\ \/ UNCHANGED disturbed
                                      \/ \E w : Snap(w, {})
    BY <1>4 DEF ReadWindow, AskUtxos, store
  <2>2. Touched({}) = {}  BY DEF Touched
  <2>3. h \notin disturbed  BY <2>1, <2>2 DEF Snap
  <2> QED  BY <1>2, <2>1, <2>3
<1>5. CASE RemoveStale
  <2>1. record' = record /\ mint' = mint \ StaleMints /\ disturbed' = disturbed \union job.repair
    BY <1>5 DEF RemoveStale
  <2>2. h \notin disturbed /\ h \notin job.repair  BY <2>1
  <2>3. PICK b \in Of(h, mint) : TRUE  BY <2>1, <2>2 DEF MintDataKept, MintsOf
  <2>4. b \notin StaleMints  BY <2>2, <2>3 DEF StaleMints, Of
  <2> QED  BY <2>1, <2>3, <2>4 DEF MintsOf, Of
<1>6. CASE AddCanonical
  BY <1>2, <1>6 DEF AddCanonical
<1>7. CASE Reindex
  <2>1. /\ mint' = mint /\ Snap(job.window, job.promised) /\ job.at = "reindex"
        /\ \A b \in Found : MintsOf(HandleOf[Tx[b]]) # {}
        /\ record' = [g \in Handles |->
                        IF job.canonical[g] \in Found /\ g \in job.repair /\ Writes(g, job.canonical[g])
                        THEN job.canonical[g] ELSE record[g]]
    BY <1>7 DEF Reindex
  <2>2. Repairing /\ job.repair \subseteq disturbed  BY <2>1 DEF Repairing, FollowInv, PlanInv
  <2>3. CASE h \in Touched(job.promised)
    <3>1. PICK o \in job.promised : HandleOf[Tx[o]] = h  BY <2>3 DEF Touched
    <3>2. o \in Found  BY <2>2, <3>1, FoundOfRepair
    <3> QED  BY <2>1, <3>1, <3>2 DEF MintsOf
  <2>4. CASE h \notin Touched(job.promised)
    <3>1. h \notin disturbed  BY <2>1, <2>4 DEF Snap
    <3>2. record'[h] = record[h]  BY <2>1, <2>2, <3>1
    <3> QED  BY <1>2, <2>1, <3>1, <3>2
  <2> QED  BY <2>3, <2>4
<1>8. CASE Apply
  <2> DEFINE b == Head(job.todo)
  <2>1. CASE UNCHANGED <<record, mint, disturbed>>  BY <1>2, <2>1
  <2>2. CASE /\ ~NoMintData(b) /\ Effects(b)
             /\ disturbed' = disturbed \ (IF Overwrites(b) THEN Touched({b}) ELSE {})
    <3>1. job.todo \in Seq(Blocks) /\ job.chunk \in Nat /\ job.chunk > 0 /\ job.chunk <= Len(job.todo)
      BY <1>1, <1>8 DEF Apply, JobType, FollowInv, ScanInv
    <3>2. job.todo # <<>>  BY <3>1
    <3>3. b \in Blocks  BY <3>1, <3>2
    <3> HIDE DEF b
    <3>4. CASE Tx[b] = NoTx  BY <1>2, <2>2, <3>4 DEF Effects, Overwrites
    <3>5. CASE Tx[b] # NoTx /\ HandleOf[Tx[b]] # h
      <4>1. record'[h] = record[h] /\ mint \subseteq mint'  BY <1>1, <2>2, <3>5 DEF Effects, TypeInv
      <4>2. h \notin disturbed  BY <2>2, <3>5 DEF Touched
      <4> QED  BY <1>2, <4>1, <4>2
    <3>6. CASE Tx[b] # NoTx /\ HandleOf[Tx[b]] = h
      <4>1. Op[Tx[b]] \in {"mint", "move", "burn"}  BY <3>3, <3>6, Ledger
      <4>2. mint' = mint \union (IF Op[Tx[b]] = "mint" THEN {b} ELSE {})  BY <2>2, <3>6 DEF Effects
      <4>3. CASE Op[Tx[b]] = "mint"
        <5>1. b \in mint'  BY <4>2, <4>3
        <5> QED  BY <3>6, <5>1 DEF MintsOf, Of
      <4>4. CASE Op[Tx[b]] = "move"
        <5>1. MintsOf(h) # {}  BY <2>2, <3>6, <4>4 DEF NoMintData
        <5> QED  BY <4>2, <5>1 DEF MintsOf, Of
      <4>5. CASE Op[Tx[b]] = "burn"
        <5>1. record' = [record EXCEPT ![h] = None]  BY <2>2, <3>6, <4>5 DEF Effects
        <5> QED  BY <1>1, <5>1 DEF TypeInv
      <4> QED  BY <4>1, <4>3, <4>4, <4>5
    <3> QED  BY <3>4, <3>5, <3>6
  <2> QED  BY <1>8, <2>1, <2>2 DEF Apply, Covered
<1> QED  BY <1>3, <1>4, <1>5, <1>6, <1>7, <1>8 DEF Next, Work

(* A repair takes no minting data away that a later block needs.            *)
THEOREM MintDataCorrect == Spec => []MintDataKept
<1>1. Init => FollowInv /\ MintDataKept
  <2>1. Init => MintDataKept  BY DEF Init, MintDataKept
  <2> QED  BY <2>1, FollowInit
<1>2. (FollowInv /\ MintDataKept) /\ [Next]_vars => (FollowInv /\ MintDataKept)'
  BY FollowNext, MintStep
<1> QED  BY <1>1, <1>2, PTL DEF Spec
=============================================================================
