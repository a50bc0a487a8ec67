------------------------- MODULE BlockStreamProofs -------------------------
(***************************************************************************)
(* Both sources follow the chain block by block, and what the store has of *)
(* a handle that no rollback disturbed is what it has at the block they    *)
(* are at, for every tree of blocks and every number of faults, as long as *)
(* WatchTx leaves no block out right after the intersection.               *)
(***************************************************************************)
EXTENDS BlockStream, WellFoundedInduction, TLAPS

JobType == [at : {"idle", "watch", "failed", "rollback"},
            start : Blocks \union {None}, target : Blocks \union {None},
            sent : Blocks \union {None}, part : Nat,
            pending : Blocks \union {None}, got : SUBSET TxIds]
SocketType == [open : {"off", "on", "lost"}, asked : Nat, pos : Blocks \union {None}]

(* The block held back is the last one told of and the child of the cursor; *)
(* before the first event the stream stands at the cursor.                   *)
Watching ==
    job.at = "watch" =>
        /\ job.sent \in Blocks
        /\ job.pending = None => job.sent = cursor /\ job.part = Len(Txs[job.sent])
        /\ job.pending # None => job.sent = job.pending /\ Parent[job.pending] = cursor

IInv ==
    /\ tip \in Blocks /\ cursor \in Blocks
    /\ job \in JobType /\ socket \in SocketType
    /\ job.at # "idle" => source = "demeter"
    /\ socket.open # "off" => source = "ogmios" /\ socket.pos \in Blocks
    /\ Watching

(* The tree, one fact at a time. *)
LEMMA Tree ==
    /\ None \notin Blocks /\ Root \in Blocks
    /\ \A b \in Blocks : Parent[b] # b /\ Chain[b] \subseteq Blocks /\ Root \in Chain[b]
    /\ \A b \in Blocks : \A c \in Chain[b] : Slot[c] <= Slot[b]
    /\ Txs \in [Blocks -> Seq(TxIds)]
    /\ Height \in [Blocks -> Nat]
BY StreamAssumption DEF None

(* One more transaction received keeps the type. *)
LEMMA GotType == \A t \in TxIds \union {NoTx} : \A got \in SUBSET TxIds :
                    {t} \ {NoTx} \in SUBSET TxIds /\ got \union ({t} \ {NoTx}) \in SUBSET TxIds
OBVIOUS

(* What the steps of an invocation make of its record. *)
LEMMA JobSteps ==
    ASSUME job \in JobType
    PROVE  /\ Idle \in JobType
           /\ \A step \in {"idle", "watch", "failed", "rollback"} :
                 At(step) \in JobType /\ At(step).at = step
           /\ \A b \in Blocks, t \in TxIds \union {NoTx} :
                 /\ Held(b, t) \in JobType /\ Held(b, t).at = job.at
                 /\ Held(b, t).sent = b /\ Held(b, t).pending = b
<1>1. Idle \in JobType  BY DEF Idle, JobType
<1>2. \A step \in {"idle", "watch", "failed", "rollback"} : At(step) \in JobType /\ At(step).at = step
  BY DEF At, JobType
<1>3. ASSUME NEW b \in Blocks, NEW t \in TxIds \union {NoTx}
      PROVE  /\ Held(b, t) \in JobType /\ Held(b, t).at = job.at
             /\ Held(b, t).sent = b /\ Held(b, t).pending = b
  <2> DEFINE got == {t} \ {NoTx}
             part == IF t = NoTx THEN 0 ELSE 1
  <2>1. got \in SUBSET TxIds  BY GotType
  <2>2. part \in Nat  OBVIOUS
  <2>3. Held(b, t) = [job EXCEPT !.pending = b, !.got = got, !.sent = b, !.part = part]  BY DEF Held
  <2> HIDE DEF got, part
  <2> QED  BY <2>1, <2>2, <2>3 DEF JobType
<1> QED  BY <1>1, <1>2, <1>3

(* One event of the stream keeps the invariant and takes in at most the     *)
(* block held back, whichever block the event is of, provided that the      *)
(* first one is the child of the cursor.                                    *)
LEMMA EventStep ==
    ASSUME IInv, job.at = "watch", NEW b \in Blocks, NEW t \in TxIds \union {NoTx},
           Receive(b, t), UNCHANGED <<source, tip, socket>>,
           job.pending = None => Parent[b] = cursor /\ b # job.pending,
           job.pending # None => b = job.pending \/ Parent[b] = job.pending \/ ~Contiguous(b)
    PROVE  IInv' /\ [Follower!Next]_Follower!vars
<1>1. source = "demeter" /\ socket.open = "off"  BY DEF IInv, SocketType
<1>2. Handled = cursor /\ Handled' = cursor'  BY <1>1 DEF Handled
<1>3. job \in JobType  BY DEF IInv
<1>4. CASE SameBlock(b, t)
  <2>1. cursor' = cursor  BY <1>4 DEF SameBlock
  <2>2. \/ job' = At("failed")
        \/ /\ job.pending # None
           /\ job' = [job EXCEPT !.got = @ \union ({t} \ {NoTx}),
                                 !.part = IF t = NoTx THEN @ ELSE @ + 1]
    <3>1. job.pending # None  BY <1>4, Tree DEF SameBlock
    <3>2. CASE Unreadable(t)  BY <1>4, <3>2 DEF SameBlock
    <3>3. CASE ~Unreadable(t)  BY <1>4, <3>1, <3>3 DEF SameBlock
    <3> QED  BY <3>2, <3>3
  <2>3. CASE job' = At("failed")
    <3>1. job' \in JobType /\ job'.at = "failed"  BY <1>3, <2>3, JobSteps
    <3> QED  BY <1>1, <1>2, <2>1, <3>1 DEF IInv, Watching, Follower!vars
  <2>4. CASE /\ job.pending # None
             /\ job' = [job EXCEPT !.got = @ \union ({t} \ {NoTx}), !.part = IF t = NoTx THEN @ ELSE @ + 1]
    <3> DEFINE got == job.got \union ({t} \ {NoTx})
               part == IF t = NoTx THEN job.part ELSE job.part + 1
    <3>1. got \in SUBSET TxIds  BY <1>3, GotType DEF JobType
    <3>2. part \in Nat  BY <1>3 DEF JobType
    <3>3. job' = [job EXCEPT !.got = got, !.part = part]  BY <2>4
    <3> HIDE DEF got, part
    <3>4. job' \in JobType /\ job'.at = job.at /\ job'.sent = job.sent /\ job'.pending = job.pending
      BY <1>3, <3>1, <3>2, <3>3 DEF JobType
    <3> QED  BY <1>1, <1>2, <2>1, <2>4, <3>4 DEF IInv, Watching, Follower!vars
  <2> QED  BY <2>2, <2>3, <2>4
<1>5. CASE NewBlock(b, t)
  <2>1. CASE Refused(b) /\ job' = At("failed") /\ UNCHANGED <<cursor, store>>
    <3>1. job' \in JobType /\ job'.at = "failed"  BY <1>3, <2>1, JobSteps
    <3> QED  BY <1>1, <1>2, <2>1, <3>1 DEF IInv, Watching, Follower!vars
  <2>2. CASE ~Refused(b) /\ Completed /\ job' \in {Idle, At("failed"), Held(b, t)}
    <3>1. \/ cursor' = cursor /\ job.pending = None
          \/ cursor' = job.pending /\ job.pending \in Blocks /\ Parent[job.pending] = cursor
      <4>1. CASE job.pending = None
        BY <2>2, <4>1 DEF Completed
      <4>2. CASE job.pending # None
        BY <2>2, <4>2 DEF Completed, IInv, Watching
      <4> QED  BY <4>1, <4>2
    <3>2. Parent[b] = cursor'
      BY <1>5, <2>2, <3>1, Tree DEF NewBlock, Refused
    <3>3. job' \in JobType  BY <1>3, <2>2, JobSteps
    <3>4. Watching'
      <4>1. CASE job' = Held(b, t)
        <5>1. job'.sent = b /\ job'.pending = b  BY <1>3, <4>1, JobSteps
        <5> QED  BY <3>2, <5>1, Tree DEF Watching
      <4>2. CASE job' \in {Idle, At("failed")}
        <5>1. job'.at # "watch"  BY <1>3, <4>2, JobSteps DEF Idle
        <5> QED  BY <5>1 DEF Watching
      <4> QED  BY <2>2, <4>1, <4>2
    <3>5. [Follower!Next]_Follower!vars
      BY <1>2, <3>1 DEF Follower!Next, Follower!Take, Follower!vars
    <3> QED  BY <1>1, <3>1, <3>3, <3>4, <3>5 DEF IInv
  <2> QED  BY <1>5, <2>1, <2>2 DEF NewBlock
<1> QED  BY <1>4, <1>5 DEF Receive

(* The first event of a block is of one of its transactions or of none. *)
LEMMA FirstOfType == \A b \in Blocks : FirstOf(b) \in TxIds \union {NoTx}
<1> SUFFICES ASSUME NEW b \in Blocks PROVE FirstOf(b) \in TxIds \union {NoTx}  OBVIOUS
<1>1. Txs[b] \in Seq(TxIds)  BY Tree
<1>2. Txs[b] = <<>> \/ Txs[b][1] \in TxIds  BY <1>1
<1> QED  BY <1>2 DEF FirstOf

(* The invariant and the abstract start hold at the beginning. *)
LEMMA StreamInit == Init => IInv /\ Follower!Init
BY StreamAssumption DEF Init, IInv, JobType, SocketType, Idle, Closed, Watching, Follower!Init, Handled, None

(* Every step keeps the invariant and is one of BlockFollower or none. *)
LEMMA StreamStep == ASSUME SkipsFirst = FALSE, IInv, [Next]_vars
                    PROVE  IInv' /\ [Follower!Next]_Follower!vars
<1>1. CASE CatchUp
  <2>1. PICK b \in Blocks : Parent[b] = cursor /\ cursor' = b
    BY <1>1, Tree DEF CatchUp, Canonical, IInv
  <2>2. Handled = cursor /\ Handled' = cursor'
    BY <1>1 DEF CatchUp, Handled, IInv, SocketType
  <2>3. [Follower!Next]_Follower!vars
    BY <2>1, <2>2 DEF Follower!Next, Follower!Take
  <2> QED  BY <1>1, <2>1, <2>3 DEF CatchUp, IInv, Watching
<1>2. CASE CatchUpOrphaned
  <2>1. job' \in JobType /\ job'.at = "rollback"
    BY <1>2 DEF CatchUpOrphaned, JobType, Idle
  <2> QED  BY <1>2, <2>1 DEF CatchUpOrphaned, IInv, Watching, Handled, Follower!vars
<1>3. CASE Watch
  <2>1. Len(Txs[cursor]) \in Nat
    BY Tree DEF IInv
  <2>2. job' = [at |-> "watch", start |-> cursor, target |-> tip, sent |-> cursor,
                part |-> Len(Txs[cursor]), pending |-> None, got |-> {}]
    BY <1>3 DEF Watch, Idle
  <2>3. job' \in JobType
    BY <2>1, <2>2 DEF IInv, JobType
  <2>4. Watching'
    <3>1. job'.sent = cursor /\ job'.part = Len(Txs[cursor]) /\ job'.pending = None  BY <2>2
    <3>2. cursor' = cursor /\ cursor \in Blocks  BY <1>3 DEF Watch, IInv
    <3> QED  BY <3>1, <3>2 DEF Watching
  <2> QED  BY <1>3, <2>3, <2>4 DEF Watch, IInv, Handled, Follower!vars
<1>4. CASE Event
  <2>1. CASE job.part < Len(Txs[job.sent])
    <3>1. job.sent \in Blocks /\ job.pending # None /\ job.pending = job.sent
      <4>1. Len(Txs[job.sent]) \in Nat /\ job.part \in Nat
        BY <1>4, Tree DEF Event, IInv, Watching, JobType
      <4> QED  BY <1>4, <2>1, <4>1 DEF Event, IInv, Watching
    <3>2. Txs[job.sent][job.part + 1] \in TxIds
      <4>1. Txs[job.sent] \in Seq(TxIds) /\ job.part \in Nat  BY <3>1, Tree DEF IInv, JobType
      <4> QED  BY <2>1, <4>1
    <3>3. Receive(job.sent, Txs[job.sent][job.part + 1])
      BY <1>4, <2>1 DEF Event
    <3> QED  BY <1>4, <3>1, <3>2, <3>3, EventStep DEF Event
  <2>2. CASE ~(job.part < Len(Txs[job.sent]))
    <3>1. PICK b \in Blocks : Parent[b] = job.sent /\ Receive(b, FirstOf(b))
      BY <1>4, <2>2, Tree DEF Event, Canonical, IInv
    <3>2. job.pending = None => Parent[b] = cursor /\ b # job.pending
      BY <1>4, <3>1, Tree DEF Event, IInv, Watching
    <3>3. job.pending # None => Parent[b] = job.pending
      BY <1>4, <3>1 DEF Event, IInv, Watching
    <3> QED  BY <1>4, <3>1, <3>2, <3>3, FirstOfType, EventStep DEF Event
  <2> QED  BY <2>1, <2>2
<1>5. CASE Repeated
  <2>1. PICK t \in job.got \union {NoTx} : job' = [job EXCEPT !.got = @ \union ({t} \ {NoTx})]
    BY <1>5 DEF Repeated
  <2>2. job' \in JobType /\ job'.at = job.at /\ job'.sent = job.sent /\ job'.pending = job.pending
        /\ job'.part = job.part
    <3> DEFINE got == job.got \union ({t} \ {NoTx})
    <3>1. got \in SUBSET TxIds  BY <2>1 DEF IInv, JobType
    <3>2. job' = [job EXCEPT !.got = got]  BY <2>1
    <3> HIDE DEF got
    <3> QED  BY <3>1, <3>2 DEF IInv, JobType
  <2> QED  BY <1>5, <2>2 DEF Repeated, IInv, Watching, Handled, Follower!vars
<1>6. CASE Skipping
  <2>1. PICK b \in Blocks : Height[b] = Height[job.sent] + 2 /\ Receive(b, FirstOf(b))
    BY <1>6, Tree DEF Skipping, Canonical, IInv
  <2>2. job.pending # None /\ job.sent = job.pending /\ job.sent \in Blocks
    BY <1>6 DEF Skipping, IInv, Watching
  <2>3. ~Contiguous(b)
    <3>1. Height[b] \in Nat /\ Height[job.pending] \in Nat  BY <2>2, Tree
    <3> QED  BY <2>1, <2>2, <3>1 DEF Contiguous
  <2> QED  BY <1>6, <2>1, <2>2, <2>3, FirstOfType, EventStep DEF Skipping
<1>7. CASE Undo \/ Cancelled \/ Broken \/ Classify \/ ClassifyFails
  <2>1. job' \in {At("failed"), At("rollback"), Idle} /\ job.at # "idle" /\ UNCHANGED <<source, tip, cursor, socket>>
    BY <1>7 DEF Undo, Cancelled, Broken, Classify, ClassifyFails
  <2>2. job' \in JobType /\ job'.at # "watch"
    <3>1. job \in JobType /\ Idle.at = "idle"  BY DEF IInv, Idle
    <3> QED  BY <2>1, <3>1, JobSteps
  <2> QED  BY <2>1, <2>2 DEF IInv, Watching, Handled, Follower!vars
<1>8. CASE Rollback
  <2>1. PICK b \in Blocks : Slot[b] <= Slot[cursor] /\ cursor' \in {b, cursor}
    BY <1>8, Tree DEF Rollback, Canonical, IInv
  <2>2. Handled = cursor /\ Handled' = cursor'
    BY <1>8 DEF Rollback, Handled, IInv, SocketType
  <2>3. [Follower!Next]_Follower!vars
    BY <2>1, <2>2 DEF Follower!Next, Follower!Back, Follower!vars
  <2> QED  BY <1>8, <2>1, <2>3 DEF Rollback, IInv, Watching, JobType, Idle
<1>9. CASE Connect
  <2>1. socket' \in SocketType /\ socket'.open = "on" /\ socket'.pos \in {cursor, Root}
    BY <1>9, StreamAssumption, Tree DEF Connect, IInv, SocketType
  <2>2. Handled = cursor /\ Handled' = socket'.pos /\ cursor' = cursor
    BY <1>9, <2>1 DEF Connect, Handled
  <2>3. Root \in Chain[cursor] /\ Slot[Root] <= Slot[cursor]
    BY Tree DEF IInv
  <2>4. [Follower!Next]_Follower!vars
    <3>1. CASE socket'.pos = cursor
      BY <2>2, <3>1 DEF Follower!vars
    <3>2. CASE socket'.pos = Root
      BY <2>2, <2>3, <3>2, Tree DEF Follower!Next, Follower!Back
    <3> QED  BY <2>1, <3>1, <3>2
  <2> QED  BY <1>9, <2>1, <2>4, Tree DEF Connect, IInv, Watching
<1>10. CASE RollForward
  <2>1. PICK b \in Blocks :
          /\ Parent[b] = socket.pos
          /\ socket' = [socket EXCEPT !.pos = b, !.asked = Answered]
          /\ cursor' \in {cursor, b}
    BY <1>10, Tree DEF RollForward, Canonical, IInv
  <2>2. socket' \in SocketType /\ socket'.open = "on" /\ socket'.pos = b
    BY <1>10, <2>1 DEF RollForward, IInv, SocketType, Answered
  <2>3. Handled = socket.pos /\ Handled' = b
    BY <1>10, <2>2 DEF RollForward, Handled
  <2>4. [Follower!Next]_Follower!vars
    BY <2>1, <2>3 DEF Follower!Next, Follower!Take, Follower!Miss
  <2> QED  BY <1>10, <2>1, <2>2, <2>4 DEF RollForward, IInv, Watching
<1>11. CASE RollBackward
  <2>1. PICK b \in Blocks : b \in Chain[socket.pos] /\ socket' = [socket EXCEPT !.pos = b, !.asked = Answered]
    BY <1>11, Tree DEF RollBackward, Common, Canonical, IInv
  <2>2. socket' \in SocketType /\ socket'.open = "on" /\ socket'.pos = b
    BY <1>11, <2>1 DEF RollBackward, IInv, SocketType, Answered
  <2>3. Handled = socket.pos /\ Handled' = b /\ cursor' = cursor
    BY <1>11, <2>2 DEF RollBackward, Handled
  <2>4. Slot[b] <= Slot[socket.pos]
    BY <1>11, <2>1, Tree DEF RollBackward, IInv
  <2>5. [Follower!Next]_Follower!vars
    BY <2>3, <2>4 DEF Follower!Next, Follower!Back
  <2> QED  BY <1>11, <2>1, <2>2, <2>5 DEF RollBackward, IInv, Watching
<1>12. CASE Malformed \/ Exit
  <2>1. socket' = Closed /\ UNCHANGED <<source, tip, cursor, job>>
    BY <1>12 DEF Malformed, Exit
  <2>2. Handled' = cursor /\ cursor' = cursor
    BY <2>1 DEF Handled, Closed
  <2>3. [Follower!Next]_Follower!vars
    BY <2>2 DEF Follower!Next, Follower!Resume
  <2> QED  BY <2>1, <2>3 DEF IInv, Watching, Closed, SocketType
<1>13. CASE Lost
  <2>1. socket' \in SocketType /\ socket'.open = "lost" /\ socket'.pos = socket.pos
    BY <1>13 DEF Lost, IInv, SocketType
  <2> QED  BY <1>13, <2>1 DEF Lost, IInv, Watching, Handled, Follower!vars
<1>14. CASE Advance
  BY <1>14 DEF Advance, IInv, Watching, Handled, Follower!vars
<1>15. CASE UNCHANGED vars
  BY <1>15 DEF vars, IInv, Watching, Handled, Follower!vars
<1> QED
  BY <1>1, <1>2, <1>3, <1>4, <1>5, <1>6, <1>7, <1>8, <1>9, <1>10, <1>11, <1>12, <1>13, <1>14, <1>15
  DEF Next, DemeterWork, OgmiosWork

(* A stream that leaves no block out after the intersection: Demeter and    *)
(* Ogmios hand the blocks to the index as BlockFollower has it, whatever    *)
(* is repeated, left out later, cut off or refused.                         *)
THEOREM StreamFollowsBlocks == ASSUME SkipsFirst = FALSE PROVE Spec => FollowsBlocks
<1>1. Init => IInv /\ Follower!Init  BY StreamInit
<1>2. IInv /\ [Next]_vars => IInv' /\ [Follower!Next]_Follower!vars  BY StreamStep
<1> QED  BY <1>1, <1>2, PTL DEF Spec, FollowsBlocks, Follower!Spec

-----------------------------------------------------------------------------
(***************************************************************************)
(* The store.  The ledger and the loop over a block are recursive: what    *)
(* follows proves their equations, by induction for sets of naturals, and  *)
(* from them that a whole block takes the store of its parent to its own.  *)
(***************************************************************************)

(* Induction over the naturals, for a set.                                  *)
LEMMA SetInduction ==
  ASSUME NEW S, 0 \in S, \A n \in Nat : n \in S => n + 1 \in S
  PROVE  Nat \subseteq S
<1> SUFFICES ASSUME ~(Nat \subseteq S) PROVE FALSE  OBVIOUS
<1> DEFINE T == Nat \ S
           R == OpToRel(<, Nat)
<1>1. T # {} /\ T \subseteq Nat  OBVIOUS
<1>2. IsWellFoundedOn(R, Nat)  BY NatLessThanWellFounded
<1> HIDE DEF R, T
<1>3. PICK x \in T : \A y \in T : ~(<<y, x>> \in R)  BY <1>1, <1>2, WFMin
<1>4. x \in Nat /\ x \notin S /\ x # 0  BY <1>3 DEF T
<1>5. x - 1 \in Nat /\ x - 1 \notin S  BY <1>4
<1>6. x - 1 \in T /\ <<x - 1, x>> \in R  BY <1>4, <1>5 DEF T, R, OpToRel
<1> QED  BY <1>3, <1>6

(* A bounded set of positions has a last one, any set a first one.          *)
LEMMA LastPosition ==
  ASSUME NEW n \in Nat, NEW T, T \subseteq 1 .. n, T # {}
  PROVE  Max(T) \in T /\ \A y \in T : y <= Max(T)
<1> DEFINE S == {m \in Nat : \A U \in SUBSET (1 .. m) : U # {} => \E x \in U : \A y \in U : x >= y}
<1>1. 0 \in S
  <2>1. 1 .. 0 = {}  OBVIOUS
  <2> QED  BY <2>1
<1>2. ASSUME NEW m \in Nat, m \in S PROVE m + 1 \in S
  <2> SUFFICES ASSUME NEW U \in SUBSET (1 .. m + 1), U # {} PROVE \E x \in U : \A y \in U : x >= y
    OBVIOUS
  <2>1. CASE m + 1 \in U  BY <2>1
  <2>2. CASE m + 1 \notin U
    <3>1. U \in SUBSET (1 .. m)  BY <2>2
    <3> QED  BY <1>2, <3>1
  <2> QED  BY <2>1, <2>2
<1>3. Nat \subseteq S
  <2> HIDE DEF S
  <2> QED  BY <1>1, <1>2, SetInduction
<1>4. \E x \in T : \A y \in T : x >= y  BY <1>3
<1>5. Max(T) \in T /\ \A y \in T : Max(T) >= y  BY <1>4 DEF Max
<1> QED  BY <1>5

(* Any set of positions has a first one. *)
LEMMA FirstPosition ==
  ASSUME NEW T, T \subseteq Nat, T # {}
  PROVE  \E x \in T : \A y \in T : x <= y
<1> DEFINE R == OpToRel(<, Nat)
<1>1. IsWellFoundedOn(R, Nat)  BY NatLessThanWellFounded
<1> HIDE DEF R
<1>2. PICK x \in T : \A y \in T : ~(<<y, x>> \in R)  BY <1>1, WFMin
<1>3. \A y \in T : ~(y < x)  BY <1>2 DEF R, OpToRel
<1> QED  BY <1>3

(* A definition by recursion on a set of naturals: the value at the root is *)
(* given, any other comes from that at a smaller number.                    *)
Recursive(D, root, par, V, base, step) ==
    /\ D \subseteq Nat /\ root \in D
    /\ \A b \in D \ {root} : par[b] \in D /\ par[b] < b
    /\ base \in V /\ step \in [D \X V -> V]
Solves(f, D, root, par, base, step) ==
    f[root] = base /\ \A b \in D \ {root} : f[b] = step[<<b, f[par[b]]>>]

(* Such a function exists, and has its type.                                *)
LEMMA Recursion ==
  ASSUME NEW D, NEW root, NEW par, NEW V, NEW base, NEW step, Recursive(D, root, par, V, base, step)
  PROVE  \E f \in [D -> V] : Solves(f, D, root, par, base, step)
<1> USE DEF Recursive
<1> DEFINE Below(n) == {b \in D : b < n}
           Body(b, f) == IF b = root THEN base ELSE step[<<b, f[par[b]]>>]
           Sol(n, f) == f \in [Below(n) -> V] /\ \A b \in Below(n) : f[b] = Body(b, f)
<1>b. \A n \in Nat : \A b : b \in Below(n) <=> b \in D /\ b \in Nat /\ b < n  OBVIOUS
<1>p. \A b \in D : b # root => par[b] \in D /\ par[b] \in Nat /\ b \in Nat /\ par[b] < b  OBVIOUS
<1>1. ASSUME NEW m \in Nat, NEW n \in Nat, NEW f, NEW g,
             \A b \in Below(m) : f[b] = Body(b, f), \A b \in Below(n) : g[b] = Body(b, g)
      PROVE  \A b \in Below(m) \cap Below(n) : f[b] = g[b]
  <2> DEFINE S == {k \in Nat : \A b \in Below(m) \cap Below(n) : b < k => f[b] = g[b]}
  <2>1. 0 \in S  OBVIOUS
  <2>2. ASSUME NEW k \in Nat, k \in S PROVE k + 1 \in S
    <3> HIDE DEF Below, Body
    <3> SUFFICES ASSUME NEW b \in Below(m) \cap Below(n), b < k + 1 PROVE f[b] = g[b]
      BY DEF S
    <3> USE DEF Below, Body
    <3>1. CASE b = root  BY <1>1, <3>1
    <3>2. CASE b # root
      <4>1. par[b] \in D /\ par[b] \in Nat /\ b \in Nat /\ par[b] < b /\ b < m /\ b < n
        BY <3>2, <1>b, <1>p
      <4>2. par[b] < k /\ par[b] < m /\ par[b] < n  BY <4>1
      <4>3. par[b] \in Below(m) \cap Below(n)  BY <1>b, <4>1, <4>2
      <4>4. f[par[b]] = g[par[b]]  BY <2>2, <4>2, <4>3
      <4> QED  BY <1>1, <3>2, <4>4
    <3> QED  BY <3>1, <3>2
  <2>3. Nat \subseteq S
    <3> HIDE DEF S
    <3> QED  BY <2>1, <2>2, SetInduction
  <2> SUFFICES ASSUME NEW b \in Below(m) \cap Below(n) PROVE f[b] = g[b]  OBVIOUS
  <2>4. b \in Nat /\ b + 1 \in Nat /\ b < b + 1  OBVIOUS
  <2>5. b + 1 \in S  BY <2>3, <2>4
  <2> QED  BY <2>4, <2>5
<1>2. \A n \in Nat : \E f : Sol(n, f)
  <2> DEFINE S == {n \in Nat : \E f : Sol(n, f)}
  <2>1. 0 \in S
    <3>1. Below(0) = {}  BY <1>b
    <3>2. Sol(0, [b \in {} |-> base])  BY <3>1
    <3> QED  BY <3>2
  <2>2. ASSUME NEW n \in Nat, n \in S PROVE n + 1 \in S
    <3>1. PICK f : Sol(n, f)  BY <2>2
    <3>2. CASE n \notin D
      <4>1. Below(n + 1) = Below(n)
        <5> SUFFICES ASSUME NEW b PROVE b \in Below(n + 1) <=> b \in Below(n)  OBVIOUS
        <5>1. b \in Nat => (b < n + 1 <=> b < n \/ b = n)  OBVIOUS
        <5>2. n + 1 \in Nat  OBVIOUS
        <5> HIDE DEF Below
        <5> QED  BY <1>b, <3>2, <5>1, <5>2
      <4>2. Sol(n + 1, f)
        <5> HIDE DEF Below, Body
        <5> QED  BY <3>1, <4>1
      <4>3. n + 1 \in Nat  OBVIOUS
      <4> HIDE DEF Sol
      <4> QED  BY <4>2, <4>3
    <3>3. CASE n \in D
      <4> DEFINE g == [b \in Below(n + 1) |-> IF b = n THEN Body(n, f) ELSE f[b]]
      <4>1. \A b \in Below(n + 1) : b # n => b \in Below(n)  OBVIOUS
      <4>2. \A b \in Below(n + 1) : b # root => par[b] \in Below(n) /\ g[par[b]] = f[par[b]]
        <5> SUFFICES ASSUME NEW b \in Below(n + 1), b # root
                     PROVE  par[b] \in Below(n) /\ g[par[b]] = f[par[b]]  OBVIOUS
        <5>1. par[b] \in D /\ par[b] \in Nat /\ b \in Nat /\ par[b] < b /\ b < n + 1
          <6> HIDE DEF Below
          <6>1. n + 1 \in Nat  OBVIOUS
          <6> QED  BY <1>b, <1>p, <6>1
        <5>2. par[b] < n /\ par[b] < n + 1 /\ par[b] # n  BY <5>1
        <5>3. par[b] \in Below(n) /\ par[b] \in Below(n + 1)  BY <5>1, <5>2
        <5> QED  BY <5>2, <5>3
      <4>3. \A b \in Below(n + 1) : Body(b, g) = Body(b, f)  BY <4>2
      <4>4. \A b \in Below(n + 1) : g[b] = Body(b, g)
        <5> SUFFICES ASSUME NEW b \in Below(n + 1) PROVE g[b] = Body(b, g)  OBVIOUS
        <5>1. CASE b = n  BY <4>3, <5>1
        <5>2. CASE b # n  
          <6>1. b \in Below(n)  BY <4>1, <5>2
          <6>2. g[b] = f[b] /\ f[b] = Body(b, f)  BY <3>1, <5>2, <6>1
          <6>3. Body(b, g) = Body(b, f)  BY <4>3
          <6> HIDE DEF Body, g
          <6> QED  BY <6>2, <6>3
        <5> QED  BY <5>1, <5>2
      <4>5. Body(n, f) \in V
        <5>1. CASE n = root  BY <5>1
        <5>2. CASE n # root
          <6>1. n \in Below(n + 1)  BY <3>3
          <6>2. par[n] \in Below(n)  BY <4>2, <5>2, <6>1
          <6>3. f[par[n]] \in V  BY <3>1, <6>2
          <6> QED  BY <3>3, <5>2, <6>3
        <5> QED  BY <5>1, <5>2
      <4>6. g \in [Below(n + 1) -> V]
        <5>1. \A b \in Below(n + 1) : b # n => f[b] \in V  BY <3>1, <4>1
        <5> HIDE DEF Body
        <5> QED  BY <4>5, <5>1
      <4>7. Sol(n + 1, g)  
        <5> HIDE DEF g, Body
        <5> QED BY <4>4, <4>6
      <4>8. n + 1 \in Nat  OBVIOUS
      <4> HIDE DEF Sol
      <4> QED  BY <4>7, <4>8
    <3> QED  BY <3>2, <3>3
  <2>3. Nat \subseteq S
    <3> HIDE DEF S
    <3> QED  BY <2>1, <2>2, SetInduction
  <2> QED  BY <2>3
<1> DEFINE F(n) == CHOOSE f : Sol(n, f)
           w == [b \in D |-> F(b + 1)[b]]
<1>3. \A n \in Nat : Sol(n, F(n))
  <2> HIDE DEF Sol
  <2> QED  BY <1>2
<1> HIDE DEF F
<1>4. \A b \in D : F(b + 1)[b] \in V /\ F(b + 1)[b] = Body(b, F(b + 1))
  <2> SUFFICES ASSUME NEW b \in D PROVE F(b + 1)[b] \in V /\ F(b + 1)[b] = Body(b, F(b + 1))  OBVIOUS
  <2>1. b + 1 \in Nat /\ b \in Below(b + 1)  OBVIOUS
  <2>2. Sol(b + 1, F(b + 1))  BY <1>3, <2>1
  <2> QED  BY <2>1, <2>2
<1>5. w \in [D -> V]  BY <1>4
<1>6. \A b \in D : w[b] = Body(b, w)
  <2> SUFFICES ASSUME NEW b \in D PROVE w[b] = Body(b, w)  OBVIOUS
  <2>1. CASE b = root  BY <1>4, <2>1
  <2>2. CASE b # root
    <3> DEFINE q == par[b]
    <3>1. q \in D /\ q < b  BY <2>2
    <3>2. b + 1 \in Nat /\ q + 1 \in Nat /\ q \in Below(b + 1) \cap Below(q + 1)
      <4>1. b \in Nat /\ q \in Nat  BY <3>1
      <4>2. b + 1 \in Nat /\ q + 1 \in Nat /\ q < b + 1 /\ q < q + 1  BY <3>1, <4>1
      <4> HIDE DEF Below, q
      <4> QED  BY <1>b, <3>1, <4>2
    <3>3. Sol(b + 1, F(b + 1)) /\ Sol(q + 1, F(q + 1))  BY <1>3, <3>2
    <3>4. \A k \in Below(b + 1) : F(b + 1)[k] = Body(k, F(b + 1))  BY <3>3
    <3>5. \A k \in Below(q + 1) : F(q + 1)[k] = Body(k, F(q + 1))  BY <3>3
    <3> HIDE DEF q, Below, Body, Sol
    <3>6. F(b + 1)[q] = F(q + 1)[q]  BY <1>1, <3>2, <3>4, <3>5
    <3>7. w[q] = F(q + 1)[q] /\ w[b] = F(b + 1)[b]  BY <3>1
    <3>8. w[b] = Body(b, F(b + 1))  BY <1>4, <3>7
    <3>9. Body(b, w) = Body(b, F(b + 1))  BY <2>2, <3>6, <3>7 DEF Body, q
    <3> QED  BY <3>8, <3>9
  <2> QED  BY <2>1, <2>2
<1>7. w[root] = base /\ \A b \in D \ {root} : w[b] = step[<<b, w[par[b]]>>]
  <2> HIDE DEF w
  <2> QED  BY <1>6
<1> HIDE DEF w
<1> QED  BY <1>5, <1>7 DEF Solves

(* Who holds each handle.                                                   *)
Owner == [Handles -> TxIds \union {NoTx}]

(* What holds of every block on its parent's ground holds of every block.   *)
LEMMA BlockInduction ==
  ASSUME NEW S, Root \in S, \A b \in Blocks \ {Root} : Parent[b] \in S => b \in S
  PROVE  Blocks \subseteq S
<1> DEFINE N == {n \in Nat : \A b \in Blocks : b < n => b \in S}
<1>1. \A b \in Blocks : b \in Nat  BY StreamAssumption
<1>2. 0 \in N  BY <1>1
<1>3. ASSUME NEW n \in Nat, n \in N PROVE n + 1 \in N
  <2> SUFFICES ASSUME NEW b \in Blocks, b < n + 1 PROVE b \in S  OBVIOUS
  <2>1. CASE b = Root  BY <2>1
  <2>2. CASE b # Root
    <3>1. Parent[b] \in Blocks /\ Parent[b] < b  BY <2>2, StreamAssumption
    <3>2. Parent[b] < n  BY <1>1, <3>1
    <3> QED  BY <1>3, <2>2, <3>1, <3>2
  <2> QED  BY <2>1, <2>2
<1>4. Nat \subseteq N
  <2> HIDE DEF N
  <2> QED  BY <1>2, <1>3, SetInduction
<1> SUFFICES ASSUME NEW b \in Blocks PROVE b \in S  OBVIOUS
<1>5. b \in Nat /\ b + 1 \in Nat /\ b < b + 1  BY <1>1
<1>6. b + 1 \in N  BY <1>4, <1>5
<1> QED  BY <1>5, <1>6

(* The transactions of a block, and who holds a handle after the first n.   *)
LEMMA TxTypes ==
  /\ \A b \in Blocks : Len(Txs[b]) \in Nat /\ DOMAIN Txs[b] = 1 .. Len(Txs[b])
  /\ \A b \in Blocks : \A i \in 1 .. Len(Txs[b]) : Txs[b][i] \in TxIds
  /\ \A t \in TxIds : HandleOf[t] \in Handles /\ Op[t] \in {"mint", "move", "burn"}
                      /\ Input[t] \in TxIds \union {NoTx} /\ t # NoTx
<1>1. \A b \in Blocks : Txs[b] \in Seq(TxIds)  BY StreamAssumption
<1>2. \A t \in TxIds : HandleOf[t] \in Handles /\ Op[t] \in {"mint", "move", "burn"}
                       /\ Input[t] \in TxIds \union {NoTx} /\ t # NoTx
  BY StreamAssumption, LedgerAssumption
<1> QED  BY <1>1, <1>2

(* The first n transactions of a block do not touch the handle, or the last *)
(* of them that does left x.                                                *)
Untouched(b, h, n) == Touching(b, h, n) = {}
Touched(b, h, n) ==
    {i \in Touching(b, h, n) :
        /\ \A k \in Touching(b, h, n) : k <= i
        /\ i \in 1 .. Len(Txs[b]) /\ Txs[b][i] \in TxIds \ Failed /\ HandleOf[Txs[b][i]] = h}
ByLast(b, h, n, x) == \E i \in Touched(b, h, n) : x = Left(Txs[b][i])

(* Who holds a handle after n transactions: whoever held it, or the last.   *)
LEMMA HolderCases ==
  ASSUME NEW before, NEW b \in Blocks, NEW h, NEW n \in 0 .. Len(Txs[b])
  PROVE  /\ Touching(b, h, n) \subseteq 1 .. n
         /\ Untouched(b, h, n) => HolderAfter(before, b, h, n) = before[h]
         /\ ~Untouched(b, h, n) => ByLast(b, h, n, HolderAfter(before, b, h, n))
<1> DEFINE T == Touching(b, h, n)
<1>1. n \in Nat /\ Len(Txs[b]) \in Nat /\ n <= Len(Txs[b])  BY TxTypes
<1>2. T \subseteq 1 .. n /\ \A i \in T : Txs[b][i] \notin Failed /\ HandleOf[Txs[b][i]] = h
  BY DEF Touching
<1>3. T = {} => HolderAfter(before, b, h, n) = before[h]  BY DEF HolderAfter
<1>4. ASSUME T # {}
      PROVE  \E i \in Touched(b, h, n) : HolderAfter(before, b, h, n) = Left(Txs[b][i])
  <2> DEFINE i == Max(T)
  <2>1. HolderAfter(before, b, h, n) = Left(Txs[b][i])  BY <1>4 DEF HolderAfter
  <2>2. i \in T /\ \A k \in T : k <= i
    <3> HIDE DEF T
    <3> QED  BY <1>1, <1>2, <1>4, LastPosition
  <2> HIDE DEF i, T
  <2>3. i \in 1 .. Len(Txs[b])  BY <1>1, <1>2, <2>2
  <2>4. Txs[b][i] \in TxIds  BY <2>3, TxTypes
  <2>5. i \in Touched(b, h, n)
    <3> USE DEF T
    <3> QED  BY <1>2, <2>2, <2>3, <2>4 DEF Touched
  <2> QED  BY <2>1, <2>5
<1> QED  BY <1>2, <1>3, <1>4 DEF Untouched, ByLast

(* Who holds a handle is a transaction or nobody. *)
LEMMA HolderType ==
  ASSUME NEW before \in Owner, NEW b \in Blocks, NEW h \in Handles, NEW n \in 0 .. Len(Txs[b])
  PROVE  HolderAfter(before, b, h, n) \in TxIds \union {NoTx}
<1>1. before[h] \in TxIds \union {NoTx}  BY DEF Owner
<1>2. \A t \in TxIds : Left(t) \in TxIds \union {NoTx}  BY DEF Left
<1>3. ByLast(b, h, n, HolderAfter(before, b, h, n)) => HolderAfter(before, b, h, n) \in TxIds \union {NoTx}
  BY <1>2 DEF ByLast, Touched
<1> QED  BY <1>1, <1>3, HolderCases

(* The ledger is what its definition says.                                  *)
LEMMA LedgerIs ==
  /\ Ledger \in [Blocks -> Owner]
  /\ Ledger[Root] = [h \in Handles |-> NoTx]
  /\ \A b \in Blocks \ {Root} :
        Ledger[b] = [h \in Handles |-> HolderAfter(Ledger[Parent[b]], b, h, Len(Txs[b]))]
<1> DEFINE base == [h \in Handles |-> NoTx]
           step == [p \in Blocks \X Owner |->
                      [h \in Handles |-> HolderAfter(p[2], p[1], h, Len(Txs[p[1]]))]]
           Def(g) == g = [b \in Blocks |->
                            [h \in Handles |-> IF b = Root THEN NoTx
                                               ELSE HolderAfter(g[Parent[b]], b, h, Len(Txs[b]))]]
<1>1. Blocks \subseteq Nat /\ Root \in Blocks
  BY StreamAssumption
<1>2. \A b \in Blocks \ {Root} : Parent[b] \in Blocks /\ Parent[b] < b  BY StreamAssumption
<1>3. base \in Owner  BY DEF Owner
<1>4. step \in [Blocks \X Owner -> Owner]
  <2> SUFFICES ASSUME NEW b \in Blocks, NEW o \in Owner
               PROVE  [h \in Handles |-> HolderAfter(o, b, h, Len(Txs[b]))] \in Owner
    OBVIOUS
  <2>1. Len(Txs[b]) \in 0 .. Len(Txs[b])  BY TxTypes
  <2>2. \A h \in Handles : HolderAfter(o, b, h, Len(Txs[b])) \in TxIds \union {NoTx}  BY <2>1, HolderType
  <2> QED  BY <2>2 DEF Owner
<1>5. PICK f \in [Blocks -> Owner] :
         f[Root] = base /\ \A b \in Blocks \ {Root} : f[b] = step[<<b, f[Parent[b]]>>]
  <2> HIDE DEF base, step
  <2>1. Recursive(Blocks, Root, Parent, Owner, base, step)  BY <1>1, <1>2, <1>3, <1>4 DEF Recursive
  <2>2. \E f \in [Blocks -> Owner] : Solves(f, Blocks, Root, Parent, base, step)  BY <2>1, Recursion
  <2> QED  BY <2>2 DEF Solves
<1>6. \A b \in Blocks \ {Root} : step[<<b, f[Parent[b]]>>]
                                  = [h \in Handles |-> HolderAfter(f[Parent[b]], b, h, Len(Txs[b]))]
  <2> SUFFICES ASSUME NEW b \in Blocks \ {Root}
               PROVE  step[<<b, f[Parent[b]]>>]
                        = [h \in Handles |-> HolderAfter(f[Parent[b]], b, h, Len(Txs[b]))]
    OBVIOUS
  <2>1. <<b, f[Parent[b]]>> \in Blocks \X Owner  BY <1>2
  <2> QED  BY <2>1
<1>7. Def(f)
  <2>1. \A b \in Blocks : f[b] = [h \in Handles |-> IF b = Root THEN NoTx
                                               ELSE HolderAfter(f[Parent[b]], b, h, Len(Txs[b]))]
    <3> SUFFICES ASSUME NEW b \in Blocks
                 PROVE  f[b] = [h \in Handles |-> IF b = Root THEN NoTx
                                               ELSE HolderAfter(f[Parent[b]], b, h, Len(Txs[b]))]
      OBVIOUS
    <3>1. CASE b = Root  BY <1>5, <3>1
    <3>2. CASE b # Root
      <4>1. f[b] = [h \in Handles |-> HolderAfter(f[Parent[b]], b, h, Len(Txs[b]))]
        <5> HIDE DEF step
        <5> QED  BY <1>5, <1>6, <3>2
      <4> QED  BY <3>2, <4>1
    <3> QED  BY <3>1, <3>2
  <2>2. f = [b \in Blocks |-> f[b]]  OBVIOUS
  <2> QED  BY <2>1, <2>2
<1>8. Ledger = CHOOSE g : Def(g)  BY DEF Ledger
<1> HIDE DEF Def
<1>9. Def(Ledger)  BY <1>7, <1>8
<1>10. \A b \in Blocks : Ledger[b] = [h \in Handles |-> IF b = Root THEN NoTx
                                               ELSE HolderAfter(Ledger[Parent[b]], b, h, Len(Txs[b]))]
  BY <1>9 DEF Def
<1>11. Ledger \in [Blocks -> Owner]
  <2> DEFINE S == {b \in Blocks : Ledger[b] \in Owner}
  <2>1. Root \in S  BY <1>1, <1>10 DEF Owner
  <2>2. ASSUME NEW b \in Blocks \ {Root}, Parent[b] \in S PROVE b \in S
    <3>1. Ledger[b] = [h \in Handles |-> HolderAfter(Ledger[Parent[b]], b, h, Len(Txs[b]))]  BY <1>10
    <3>2. Len(Txs[b]) \in 0 .. Len(Txs[b])  BY TxTypes
    <3>3. \A h \in Handles : HolderAfter(Ledger[Parent[b]], b, h, Len(Txs[b])) \in TxIds \union {NoTx}
      BY <2>2, <3>2, HolderType
    <3> QED  BY <3>1, <3>3 DEF Owner
  <2>3. Blocks \subseteq S
    <3> HIDE DEF S
    <3> QED  BY <2>1, <2>2, BlockInduction
  <2>4. Ledger = [b \in Blocks |-> Ledger[b]]  BY <1>9 DEF Def
  <2> QED  BY <2>3, <2>4
<1> QED  BY <1>1, <1>10, <1>11

(* The blocks of a chain are not above its end; its end is none of its      *)
(* parent's.                                                                *)
LEMMA ChainBelow == \A b \in Blocks : \A c \in Chain[b] : c <= b
<1> DEFINE S == {b \in Blocks : \A c \in Chain[b] : c <= b}
<1>1. Root \in S  BY StreamAssumption
<1>2. ASSUME NEW b \in Blocks \ {Root}, Parent[b] \in S PROVE b \in S
  <2>1. Chain[b] = Chain[Parent[b]] \union {b} /\ Parent[b] < b /\ Parent[b] \in Blocks
        /\ b \in Nat /\ Parent[b] \in Nat /\ Chain[Parent[b]] \subseteq Nat
    BY StreamAssumption
  <2>2. \A c \in Chain[b] : c <= b  BY <1>2, <2>1
  <2> QED  BY <2>2
<1>3. Blocks \subseteq S
  <2> HIDE DEF S
  <2> QED  BY <1>1, <1>2, BlockInduction
<1> QED  BY <1>3

(* Who holds a handle is a transaction of the chain, and of that handle.    *)
HeldOnChain(b, h) ==
    Ledger[b][h] # NoTx =>
        /\ Ledger[b][h] \in TxIds /\ HandleOf[Ledger[b][h]] = h
        /\ \E c \in Chain[b] : \E i \in 1 .. Len(Txs[c]) : Txs[c][i] = Ledger[b][h]
LEMMA HoldersOnChain == \A b \in Blocks : \A h \in Handles : HeldOnChain(b, h)
<1> DEFINE S == {b \in Blocks : \A h \in Handles : HeldOnChain(b, h)}
<1>1. Root \in S
  <2>1. \A h \in Handles : Ledger[Root][h] = NoTx  BY LedgerIs
  <2> QED  BY <2>1, Tree DEF HeldOnChain
<1>2. ASSUME NEW b \in Blocks \ {Root}, Parent[b] \in S PROVE b \in S
  <2> SUFFICES ASSUME NEW h \in Handles, Ledger[b][h] # NoTx
               PROVE  /\ Ledger[b][h] \in TxIds /\ HandleOf[Ledger[b][h]] = h
                      /\ \E c \in Chain[b] : \E i \in 1 .. Len(Txs[c]) : Txs[c][i] = Ledger[b][h]
    BY DEF HeldOnChain
  <2>1. Chain[b] = Chain[Parent[b]] \union {b} /\ Parent[b] \in Blocks  BY StreamAssumption
  <2>2. Ledger[b][h] = HolderAfter(Ledger[Parent[b]], b, h, Len(Txs[b]))  BY LedgerIs
  <2>3. Len(Txs[b]) \in 0 .. Len(Txs[b])  BY TxTypes
  <2>4. CASE Untouched(b, h, Len(Txs[b]))
    <3>1. Ledger[b][h] = Ledger[Parent[b]][h]  BY <2>2, <2>3, <2>4, HolderCases
    <3> QED  BY <1>2, <2>1, <3>1 DEF HeldOnChain
  <2>5. CASE ~Untouched(b, h, Len(Txs[b]))
    <3>1. PICK i \in 1 .. Len(Txs[b]) :
             /\ Ledger[b][h] = Left(Txs[b][i]) /\ Txs[b][i] \in TxIds /\ HandleOf[Txs[b][i]] = h
      <4>1. ByLast(b, h, Len(Txs[b]), Ledger[b][h])  BY <2>2, <2>3, <2>5, HolderCases
      <4> QED  BY <4>1 DEF ByLast, Touched
    <3>2. Ledger[b][h] = Txs[b][i]  BY <3>1 DEF Left
    <3> QED  BY <2>1, <3>1, <3>2
  <2> QED  BY <2>4, <2>5
<1>3. Blocks \subseteq S
  <2> HIDE DEF S
  <2> QED  BY <1>1, <1>2, BlockInduction
<1> QED  BY <1>3

(* A block is on its own chain, with that of its parent; a chain holds a    *)
(* transaction at one place.                                                *)
LEMMA TwoPlaces ==
  ASSUME NEW b \in Blocks \ {Root}
  PROVE  /\ Parent[b] \in Blocks /\ Parent[b] < b /\ b \in Chain[b]
         /\ Chain[b] = Chain[Parent[b]] \union {b} /\ b \notin Chain[Parent[b]]
         /\ Ledger[Parent[b]] \in Owner
<1>1. /\ Parent[b] \in Blocks /\ Parent[b] < b /\ b \in Chain[b]
      /\ Chain[b] = Chain[Parent[b]] \union {b} /\ Parent[b] \in Nat /\ b \in Nat
  BY StreamAssumption
<1>2. b \notin Chain[Parent[b]]  BY <1>1, ChainBelow
<1>3. Ledger[Parent[b]] \in Owner  BY <1>1, LedgerIs
<1> QED  BY <1>1, <1>2, <1>3

(* A block has a transaction at one position. *)
LEMMA Once ==
  \A b \in Blocks \ {Root} : \A i, j \in 1 .. Len(Txs[b]) : Txs[b][i] = Txs[b][j] => i = j
<1> SUFFICES ASSUME NEW b \in Blocks \ {Root}, NEW i \in 1 .. Len(Txs[b]), NEW j \in 1 .. Len(Txs[b]),
                    Txs[b][i] = Txs[b][j]
             PROVE  i = j
  OBVIOUS
<1>1. b \in Chain[b] /\ DOMAIN Txs[b] = 1 .. Len(Txs[b])  BY TwoPlaces, TxTypes
<1> QED  BY <1>1, LedgerAssumption

(* What held a handle before a block is no transaction of the block. *)
LEMMA Apart ==
  \A b \in Blocks \ {Root} : \A h \in Handles : \A i \in 1 .. Len(Txs[b]) :
      Ledger[Parent[b]][h] # Txs[b][i]
<1> SUFFICES ASSUME NEW b \in Blocks \ {Root}, NEW h \in Handles, NEW i \in 1 .. Len(Txs[b]),
                    Ledger[Parent[b]][h] = Txs[b][i]
             PROVE  FALSE
  OBVIOUS
<1>1. Parent[b] \in Blocks  BY TwoPlaces
<1>2. Txs[b][i] # NoTx  BY TxTypes
<1>3. PICK c \in Chain[Parent[b]] : \E k \in 1 .. Len(Txs[c]) : Txs[c][k] = Ledger[Parent[b]][h]
  <2>1. HeldOnChain(Parent[b], h)  BY <1>1, HoldersOnChain
  <2> QED  BY <1>2, <2>1 DEF HeldOnChain
<1>4. c \in Chain[b] /\ b \in Chain[b] /\ c # b  BY TwoPlaces
<1>5. c \in Blocks  BY <1>4, StreamAssumption
<1>k. PICK k \in 1 .. Len(Txs[c]) : Txs[c][k] = Ledger[Parent[b]][h]  BY <1>3
<1>6. k \in DOMAIN Txs[c] /\ i \in DOMAIN Txs[b]  BY <1>5, TxTypes
<1> QED  BY <1>k, <1>4, <1>6, LedgerAssumption

(* What a transaction of a block spends: what held its handle before the    *)
(* block, or the last of the block before it that touched the handle.       *)
Before(b, h, n, x) ==
    \/ Untouched(b, h, n) /\ x = Ledger[Parent[b]][h]
    \/ \E j \in Touched(b, h, n) : x = Txs[b][j]
LEMMA SpentBefore ==
  ASSUME NEW b \in Blocks \ {Root}, NEW i \in 1 .. Len(Txs[b]),
         Txs[b][i] \notin Failed, Input[Txs[b][i]] # NoTx
  PROVE  /\ HandleOf[Input[Txs[b][i]]] = HandleOf[Txs[b][i]]
         /\ Before(b, HandleOf[Txs[b][i]], i - 1, Input[Txs[b][i]])
<1> DEFINE t == Txs[b][i]
           h == HandleOf[t]
           x == Input[t]
           o == Ledger[Parent[b]]
           n == i - 1
<1>1. t \in TxIds /\ h \in Handles /\ x \in TxIds  BY TxTypes
<1>2. n \in 0 .. Len(Txs[b])  BY TxTypes
<1>3. x = HolderAfter(o, b, h, n)  BY LedgerAssumption, TxTypes
<1>4. Parent[b] \in Blocks /\ x # NoTx  BY TwoPlaces
<1>5. SUFFICES HandleOf[x] = h /\ Before(b, h, n, x)  OBVIOUS
<1> HIDE DEF t, h, x, n
<1>6. CASE Untouched(b, h, n)
  <2>1. x = Ledger[Parent[b]][h]  BY <1>2, <1>3, <1>6, HolderCases
  <2>2. HandleOf[x] = h  BY <1>1, <1>4, <2>1, HoldersOnChain DEF HeldOnChain
  <2> QED  BY <1>6, <2>1, <2>2 DEF Before
<1>7. CASE ~Untouched(b, h, n)
  <2> HIDE DEF o
  <2>1. ByLast(b, h, n, x)  BY <1>2, <1>3, <1>7, HolderCases
  <2>2. PICK j \in Touched(b, h, n) : x = Left(Txs[b][j])  BY <2>1 DEF ByLast
  <2>3. x = Txs[b][j]  BY <1>4, <2>2 DEF Left
  <2>4. HandleOf[Txs[b][j]] = h  BY DEF Touched
  <2> QED  BY <2>2, <2>3, <2>4 DEF Before
<1> QED  BY <1>6, <1>7

(* A transaction of a block that is spent in it is spent further on, for   *)
(* the same handle.                                                        *)
LEMMA SpentLater ==
  ASSUME NEW b \in Blocks \ {Root}, NEW i \in 1 .. Len(Txs[b]), NEW j \in 1 .. Len(Txs[b]),
         Txs[b][j] \notin Failed, Input[Txs[b][j]] = Txs[b][i]
  PROVE  i < j /\ HandleOf[Txs[b][i]] = HandleOf[Txs[b][j]]
<1> DEFINE h == HandleOf[Txs[b][j]]
           n == j - 1
<1>1. Txs[b][i] \in TxIds /\ Txs[b][i] # NoTx /\ h \in Handles /\ n \in Nat  BY TxTypes
<1>2. HandleOf[Txs[b][i]] = h /\ Before(b, h, n, Txs[b][i])  BY <1>1, SpentBefore
<1>3. Txs[b][i] # Ledger[Parent[b]][h]  BY <1>1, Apart
<1>4. PICK k \in Touched(b, h, n) : Txs[b][i] = Txs[b][k]  BY <1>2, <1>3 DEF Before
<1>5. k \in 1 .. n /\ k \in 1 .. Len(Txs[b])  
  <2> HIDE DEF n, h
  <2> QED  BY DEF Touched, Touching
<1>6. k = i  BY <1>4, <1>5, Once
<1>7. i < j  BY <1>5, <1>6, TxTypes
<1> QED  BY <1>2, <1>7

(* The members of a block that the scanner takes.                           *)
Taken(b) == Converted(ToSet(Txs[b]))
LEMMA Members ==
  ASSUME NEW b \in Blocks
  PROVE  /\ ToSet(Txs[b]) \subseteq TxIds
         /\ \A i \in 1 .. Len(Txs[b]) : Txs[b][i] \in ToSet(Txs[b])
         /\ \A t \in ToSet(Txs[b]) : \E i \in 1 .. Len(Txs[b]) : t = Txs[b][i]
         /\ \A t \in Taken(b) : t \in TxIds \ Failed /\ \E i \in 1 .. Len(Txs[b]) : t = Txs[b][i]
         /\ \A i \in 1 .. Len(Txs[b]) : Txs[b][i] \notin Failed => Txs[b][i] \in Taken(b)
BY TxTypes DEF ToSet, Taken, Converted

(* The outputs that hold handles after a block.                             *)
Outputs(b) == {Ledger[b][h] : h \in Handles} \ {NoTx}
Net(b) == (Outputs(Parent[b]) \union Made(Taken(b))) \ Spent(Taken(b))

(* The first transaction after position k that touches a handle spends what *)
(* k left.                                                                  *)
LEMMA NetIsHeld ==
  ASSUME NEW b \in Blocks \ {Root}, NEW x \in Net(b)
  PROVE  x # NoTx /\ x \in TxIds /\ x = Ledger[b][HandleOf[x]]
<1> DEFINE p == Parent[b]
           N == Len(Txs[b])
           h == HandleOf[x]
           o == Ledger[p]
<1>0. p \in Blocks /\ N \in Nat /\ N \in 0 .. N /\ o \in Owner  BY TwoPlaces, TxTypes
<1>1. ASSUME NEW i \in 1 .. N, Txs[b][i] \notin Failed PROVE Input[Txs[b][i]] # x
  <2>1. Txs[b][i] \in Taken(b)  BY <1>1, Members
  <2> QED  BY <2>1 DEF Net, Spent
<1>2. ASSUME NEW i \in 1 .. N, Txs[b][i] \notin Failed, h = HandleOf[Txs[b][i]]
      PROVE  HolderAfter(o, b, h, i - 1) # x
  <2>1. Input[Txs[b][i]] = HolderAfter(o, b, h, i - 1)  BY <1>2, TxTypes, LedgerAssumption
  <2> QED  BY <1>1, <1>2, <2>1
<1>3. Ledger[b] = [g \in Handles |-> HolderAfter(o, b, g, N)]  BY LedgerIs
<1>4. CASE x \in Outputs(p)
  <2>1. PICK g \in Handles : x = Ledger[p][g] /\ x # NoTx  BY <1>4 DEF Outputs
  <2>2. x \in TxIds /\ h = g /\ h \in Handles /\ x = o[h]
    BY <1>0, <2>1, HoldersOnChain DEF HeldOnChain
  <2>3. Untouched(b, h, N)
    <3> SUFFICES ASSUME ~Untouched(b, h, N) PROVE FALSE  OBVIOUS
    <3> DEFINE T == Touching(b, h, N)
    <3> HIDE DEF p, h, o, N
    <3>1. T # {} /\ T \subseteq 1 .. N /\ T \subseteq Nat  BY <1>0 DEF Untouched, Touching
    <3> HIDE DEF T
    <3>2. PICK i \in T : \A y \in T : i <= y  BY <3>1, FirstPosition
    <3>3. i \in 1 .. N /\ Txs[b][i] \notin Failed /\ HandleOf[Txs[b][i]] = h  BY <3>2 DEF T, Touching
    <3>4. Untouched(b, h, i - 1)
      <4>1. \A k \in 1 .. i - 1 : k \in 1 .. N /\ ~(i <= k)  BY <1>0, <3>3
      <4>2. \A k \in Touching(b, h, i - 1) : k \in 1 .. i - 1 /\ (k \in 1 .. N => k \in T)
        BY DEF Touching, T
      <4>3. \A k : k \notin Touching(b, h, i - 1)  BY <3>2, <4>1, <4>2
      <4> QED  BY <4>3 DEF Untouched
    <3>5. i - 1 \in 0 .. N  BY <1>0, <3>3
    <3>6. HolderAfter(o, b, h, i - 1) = o[h]  BY <3>4, <3>5, HolderCases DEF N
    <3> QED  BY <1>2, <2>2, <3>3, <3>6
  <2>4. HolderAfter(o, b, h, N) = o[h]  BY <1>0, <2>3, HolderCases
  <2> QED  BY <1>3, <2>1, <2>2, <2>4
<1>5. CASE x \in Made(Taken(b))
  <2>1. x \in TxIds \ Failed /\ Op[x] # "burn" /\ \E k \in 1 .. N : x = Txs[b][k]
    BY <1>5, Members DEF Made
  <2>2. PICK k \in 1 .. N : x = Txs[b][k]  BY <2>1
  <2>3. h \in Handles /\ x # NoTx /\ Left(x) = x  BY <2>1, TxTypes DEF Left
  <2>4. ~Untouched(b, h, N)
    <3> HIDE DEF N
    <3>1. k \in Touching(b, h, N)  BY <2>1, <2>2 DEF Touching
    <3> QED  BY <3>1 DEF Untouched
  <2>5. ByLast(b, h, N, HolderAfter(o, b, h, N))  BY <1>0, <2>4, HolderCases
  <2>6. PICK m \in Touched(b, h, N) : HolderAfter(o, b, h, N) = Left(Txs[b][m])  BY <2>5 DEF ByLast
  <2>7. m = k
    <3> SUFFICES ASSUME m # k PROVE FALSE  OBVIOUS
    <3> DEFINE T == {q \in Touching(b, h, N) : q > k}
    <3> HIDE DEF p, h, o, N
    <3>1. m \in Touching(b, h, N) /\ k \in Touching(b, h, N) /\ k <= m /\ m \in Nat /\ k \in Nat
      BY <1>0, <2>1, <2>2 DEF Touched, Touching, h
    <3>2. m \in T /\ T \subseteq Nat  BY <1>0, <3>1 DEF Touching
    <3> HIDE DEF T
    <3>3. PICK i \in T : \A y \in T : i <= y  BY <3>2, FirstPosition
    <3>4. i \in 1 .. N /\ Txs[b][i] \notin Failed /\ HandleOf[Txs[b][i]] = h /\ i > k
      BY <3>3 DEF T, Touching
    <3>5. i - 1 \in 0 .. N /\ k \in 1 .. i - 1  BY <1>0, <3>1, <3>4
    <3>6. k \in Touching(b, h, i - 1)  BY <3>1, <3>5 DEF Touching
    <3>7. ~Untouched(b, h, i - 1)  BY <3>6 DEF Untouched
    <3> DEFINE n == i - 1
               w == HolderAfter(o, b, h, n)
    <3>8. ByLast(b, h, n, w)  BY <3>5, <3>7, HolderCases DEF N
    <3> HIDE DEF w
    <3>9. PICK j \in Touched(b, h, n) : w = Left(Txs[b][j])  BY <3>8 DEF ByLast
    <3>10. j \in 1 .. n /\ j \in 1 .. N /\ k <= j /\ Txs[b][j] \notin Failed /\ HandleOf[Txs[b][j]] = h
      BY <3>6, <3>9 DEF Touched, Touching, N
    <3>11. j \in Touching(b, h, N)  BY <3>10 DEF Touching
    <3>12. j = k
      <4>1. j > k => i <= j  BY <3>3, <3>11 DEF T
      <4> QED  BY <1>0, <3>1, <3>4, <3>10, <4>1
    <3>13. w = x  BY <2>2, <2>3, <3>9, <3>12
    <3> QED  BY <1>2, <3>4, <3>13 DEF w
  <2>8. HolderAfter(o, b, h, N) = x  BY <2>2, <2>3, <2>6, <2>7
  <2> QED  BY <1>3, <2>1, <2>3, <2>8
<1> QED  BY <1>4, <1>5 DEF Net

(* What holds a handle after a block is among the outputs the net effect   *)
(* leaves: nothing in the block spends it.                                 *)
LEMMA HeldIsNet ==
  ASSUME NEW b \in Blocks \ {Root}, NEW h \in Handles, Ledger[b][h] # NoTx
  PROVE  Ledger[b][h] \in Net(b)
<1> DEFINE p == Parent[b]
           N == Len(Txs[b])
           o == Ledger[p]
           x == Ledger[b][h]
<1>0. p \in Blocks /\ N \in Nat /\ N \in 0 .. N /\ o \in Owner  BY TwoPlaces, TxTypes
<1>1. x = HolderAfter(o, b, h, N)  BY LedgerIs
<1>2. x \in TxIds /\ HandleOf[x] = h /\ x # NoTx  BY HoldersOnChain DEF HeldOnChain
<1>3. CASE Untouched(b, h, N)
  <2>1. x = o[h]  BY <1>0, <1>1, <1>3, HolderCases
  <2>2. x \in Outputs(p)  BY <1>2, <2>1 DEF Outputs
  <2>3. ASSUME x \in Spent(Taken(b)) PROVE FALSE
    <3>1. PICK i \in 1 .. N : Txs[b][i] \notin Failed /\ x = Input[Txs[b][i]]
      BY <2>3, Members DEF Spent
    <3>2. HandleOf[Txs[b][i]] = h  BY <1>2, <3>1, SpentBefore
    <3>3. i \in Touching(b, h, N)  BY <3>1, <3>2 DEF Touching
    <3> QED  BY <1>3, <3>3 DEF Untouched
  <2> QED  BY <2>2, <2>3 DEF Net
<1>4. CASE ~Untouched(b, h, N)
  <2>1. ByLast(b, h, N, x)  BY <1>0, <1>1, <1>4, HolderCases
  <2>2. PICK m \in Touched(b, h, N) : x = Left(Txs[b][m])  BY <2>1 DEF ByLast
  <2>3. x = Txs[b][m] /\ Op[x] # "burn"  BY <1>2, <2>2 DEF Left
  <2>4. m \in 1 .. N /\ Txs[b][m] \notin Failed  BY DEF Touched
  <2>5. x \in Made(Taken(b))  BY <2>3, <2>4, Members DEF Made
  <2>6. ASSUME x \in Spent(Taken(b)) PROVE FALSE
    <3>1. PICK i \in 1 .. N : Txs[b][i] \notin Failed /\ x = Input[Txs[b][i]]
      BY <2>6, Members DEF Spent
    <3>a. Input[Txs[b][i]] = Txs[b][m]  BY <2>3, <3>1
    <3>b. m < i /\ HandleOf[Txs[b][m]] = HandleOf[Txs[b][i]]  BY <2>4, <3>1, <3>a, SpentLater
    <3>2. m < i /\ HandleOf[Txs[b][i]] = h  BY <1>2, <2>3, <3>b
    <3>3. i \in Touching(b, h, N)  BY <3>1, <3>2 DEF Touching
    <3>4. i <= m  BY <2>2, <3>3 DEF Touched
    <3> QED  BY <1>0, <2>4, <3>1, <3>2, <3>4
  <2> QED  BY <2>5, <2>6 DEF Net
<1> QED  BY <1>3, <1>4

(* The net effect of a whole block on the store of its parent.              *)
LEMMA MintedStep ==
  ASSUME NEW b \in Blocks \ {Root}
  PROVE  Minted(b) = Minted(Parent[b]) \union MintedBy(Taken(b))
<1>1. Chain[b] = Chain[Parent[b]] \union {b}  BY TwoPlaces
<1>2. \A t : t \in Taken(b) <=> t \in ToSet(Txs[b]) /\ t \in TxIds \ Failed
  BY Members DEF Taken, Converted
<1>3. \A t \in TxIds : HandleOf[t] \in Handles  BY TxTypes
<1> QED  BY <1>1, <1>2, <1>3 DEF Minted, MintedBy

(* So the net effect leaves exactly the outputs that hold handles.         *)
LEMMA NetOutputs ==
  ASSUME NEW b \in Blocks \ {Root}
  PROVE  Net(b) = Outputs(b)
<1>1. ASSUME NEW x \in Net(b) PROVE x \in Outputs(b)
  <2>1. x # NoTx /\ x \in TxIds /\ x = Ledger[b][HandleOf[x]]  BY NetIsHeld
  <2>2. HandleOf[x] \in Handles  BY <2>1, TxTypes
  <2> QED  BY <2>1, <2>2 DEF Outputs
<1>2. ASSUME NEW x \in Outputs(b) PROVE x \in Net(b)
  BY HeldIsNet DEF Outputs
<1> QED  BY <1>1, <1>2

(* Of the outputs a block makes and does not spend, one of a handle at most *)
(* and that is the holder.                                                  *)
LEMMA SurvivorHolds ==
  ASSUME NEW b \in Blocks \ {Root}
  PROVE  /\ \A t \in Surviving(Taken(b)) : t \in TxIds /\ Ledger[b][HandleOf[t]] = t
         /\ \A h \in Handles :
              \/ Ledger[b][h] \in Surviving(Taken(b)) /\ HandleOf[Ledger[b][h]] = h
              \/ Ledger[b][h] = NoTx /\ h \in BurntBy(Taken(b))
              \/ Ledger[b][h] = Ledger[Parent[b]][h] /\ h \notin BurntBy(Taken(b))
<1> DEFINE N == Len(Txs[b])
           S == Taken(b)
           o == Ledger[Parent[b]]
<1>1. ASSUME NEW t \in Surviving(S) PROVE t \in TxIds /\ Ledger[b][HandleOf[t]] = t
  <2>1. t \in Net(b)  BY DEF Surviving, Net
  <2> QED  BY <2>1, NetIsHeld
<1>2. ASSUME NEW h \in Handles
      PROVE  \/ Ledger[b][h] \in Surviving(S) /\ HandleOf[Ledger[b][h]] = h
             \/ Ledger[b][h] = NoTx /\ h \in BurntBy(S)
             \/ Ledger[b][h] = Ledger[Parent[b]][h] /\ h \notin BurntBy(S)
  <2>1. Ledger[b][h] = HolderAfter(o, b, h, N) /\ N \in 0 .. N /\ o \in Owner  BY LedgerIs, TxTypes, TwoPlaces
  <2>2. CASE Untouched(b, h, N)
    <3>1. Ledger[b][h] = o[h]  BY <2>1, <2>2, HolderCases
    <3>2. h \notin BurntBy(S)
      <4> SUFFICES ASSUME h \in BurntBy(S) PROVE FALSE  OBVIOUS
      <4>1. PICK t \in S : HandleOf[t] = h  BY DEF BurntBy
      <4>2. PICK i \in 1 .. N : t = Txs[b][i] /\ t \notin Failed  BY Members
      <4>3. i \in Touching(b, h, N)  BY <4>1, <4>2 DEF Touching
      <4> QED  BY <2>2, <4>3 DEF Untouched
    <3> QED  BY <3>1, <3>2
  <2>3. CASE ~Untouched(b, h, N)
    <3>0. ByLast(b, h, N, HolderAfter(o, b, h, N))  BY <2>1, <2>3, HolderCases
    <3>1. ByLast(b, h, N, Ledger[b][h])  BY <2>1, <3>0
    <3>2. PICK m \in Touched(b, h, N) : Ledger[b][h] = Left(Txs[b][m])  BY <3>1 DEF ByLast
    <3>3. m \in 1 .. N /\ Txs[b][m] \in TxIds \ Failed /\ HandleOf[Txs[b][m]] = h  BY DEF Touched
    <3>4. Txs[b][m] \in S  BY <3>3, Members
    <3>5. CASE Op[Txs[b][m]] = "burn"
      <4>1. Ledger[b][h] = NoTx  BY <3>2, <3>5 DEF Left
      <4>2. h \in BurntBy(S)  BY <3>3, <3>4, <3>5 DEF BurntBy
      <4> QED  BY <4>1, <4>2
    <3>6. CASE Op[Txs[b][m]] # "burn"
      <4>1. Ledger[b][h] = Txs[b][m] /\ Ledger[b][h] # NoTx  BY <3>2, <3>3, <3>6, TxTypes DEF Left
      <4>2. Ledger[b][h] \in Net(b)  BY <4>1, HeldIsNet
      <4>3. Ledger[b][h] \in Made(S)  BY <3>4, <3>6, <4>1 DEF Made
      <4> QED  BY <3>3, <4>1, <4>2, <4>3 DEF Net, Surviving
    <3> QED  BY <3>5, <3>6
  <2> QED  BY <2>2, <2>3
<1> QED  BY <1>1, <1>2

(* processScannerBlock takes what the store has of a handle from the parent *)
(* to the block, whatever it has of other handles and whichever of their    *)
(* records stand at a later slot.                                           *)
LEMMA NetStep ==
  ASSUME NEW b \in Blocks \ {Root}, NEW h \in Handles, NEW ahead, h \notin ahead,
         Share(store, h) = Share(StoreAt(Parent[b]), h)
  PROVE  Share(NetEffect(Taken(b), ahead), h) = Share(StoreAt(b), h)
<1> DEFINE p == Parent[b]
           S == Taken(b)
           of(U) == {t \in U : HandleOf[t] = h}
           new(g) == IF g \notin ahead /\ \E t \in Surviving(S) : HandleOf[t] = g
                     THEN CHOOSE t \in Surviving(S) : HandleOf[t] = g
                     ELSE IF g \in BurntBy(S) THEN NoTx ELSE store.record[g]
           m == store.mint \union MintedBy(S)
           u == (store.utxo \union Surviving(S)) \ Spent(S)
<1>1. /\ store.record[h] = Ledger[p][h] /\ store.mint \intersect {h} = Minted(p) \intersect {h}
      /\ of(store.utxo) = of(Outputs(p))
  BY DEF Share, StoreAt, Outputs
<1>2. of(u) = of(Outputs(b))
  <2>1. of(u) = of(Net(b))
    <3>1. \A t : t \in of(store.utxo) <=> t \in of(Outputs(p))  BY <1>1
    <3>2. \A t : HandleOf[t] = h => (t \in store.utxo <=> t \in Outputs(p))  BY <3>1
    <3>3. \A t : t \in of(u) <=> t \in of(Net(b))  BY <3>2 DEF Surviving, Net
    <3> HIDE DEF u
    <3> QED  BY <3>3
  <2> QED  BY <2>1, NetOutputs
<1>3. m \intersect {h} = Minted(b) \intersect {h}
  <2>1. h \in m <=> h \in Minted(b)
    <3>1. h \in store.mint <=> h \in Minted(p)  BY <1>1
    <3> QED  BY <3>1, MintedStep
  <2> QED  BY <2>1
<1>4. new(h) = Ledger[b][h]
  <2>1. \A t \in Surviving(S) : HandleOf[t] = h => t = Ledger[b][h]  BY SurvivorHolds
  <2>2. CASE \E t \in Surviving(S) : HandleOf[t] = h
    <3>1. new(h) = CHOOSE t \in Surviving(S) : HandleOf[t] = h  BY <2>2
    <3>2. new(h) \in Surviving(S) /\ HandleOf[new(h)] = h
      <4> HIDE DEF S
      <4> QED BY <2>2, <3>1
    <3> HIDE DEF new
    <3> QED  BY <2>1, <3>2
  <2>3. CASE ~\E t \in Surviving(S) : HandleOf[t] = h
    <3>1. new(h) = IF h \in BurntBy(S) THEN NoTx ELSE store.record[h]  BY <2>3
    <3> HIDE DEF new
    <3>2. \/ Ledger[b][h] = NoTx /\ h \in BurntBy(S)
          \/ Ledger[b][h] = Ledger[p][h] /\ h \notin BurntBy(S)
      BY <2>3, SurvivorHolds
    <3> QED  BY <1>1, <3>1, <3>2
  <2> QED  BY <2>2, <2>3
<1>5. NetEffect(S, ahead) = [record |-> [g \in Handles |-> new(g)], mint |-> m, utxo |-> u]
  BY DEF NetEffect
<1> HIDE DEF new, m, u, S
<1>6. Share(NetEffect(S, ahead), h) = [record |-> new(h), mint |-> m \intersect {h}, utxo |-> of(u)]
  BY <1>5 DEF Share
<1>7. Share(StoreAt(b), h) = [record |-> Ledger[b][h], mint |-> Minted(b) \intersect {h}, utxo |-> of(Outputs(b))]
  BY DEF Share, StoreAt, Outputs
<1> QED  BY <1>2, <1>3, <1>4, <1>6, <1>7 DEF S

(* The type of the records, the minting data and the outputs.               *)
StoreType == [record : Owner, mint : SUBSET Handles, utxo : SUBSET TxIds]

(* Who holds a handle after one more transaction.                           *)
LEMMA HolderStep ==
  ASSUME NEW b \in Blocks, NEW h \in Handles, NEW before, NEW n \in 0 .. Len(Txs[b]),
         n + 1 <= Len(Txs[b]), Txs[b][n + 1] \notin Failed
  PROVE  HolderAfter(before, b, h, n + 1)
           = IF HandleOf[Txs[b][n + 1]] = h THEN Left(Txs[b][n + 1]) ELSE HolderAfter(before, b, h, n)
<1> DEFINE m == n + 1
           w == HolderAfter(before, b, h, m)
<1>1. n \in Nat /\ m \in 0 .. Len(Txs[b]) /\ m \in 1 .. m /\ m = n + 1 /\ Len(Txs[b]) \in Nat  BY TxTypes
<1>2. CASE HandleOf[Txs[b][m]] = h
  <2>1. m \in Touching(b, h, m)
    <3> HIDE DEF m
    <3> QED  BY <1>1, <1>2 DEF Touching, m
  <2>2. ~Untouched(b, h, m)  BY <2>1 DEF Untouched
  <2> HIDE DEF m
  <2>3. ByLast(b, h, m, w)  BY <1>1, <2>2, HolderCases
  <2> HIDE DEF w
  <2>4. PICK j \in Touched(b, h, m) : w = Left(Txs[b][j])  BY <2>3 DEF ByLast
  <2>5. m <= j /\ j \in 1 .. m  BY <2>1, <2>4 DEF Touched, Touching
  <2>6. j = m  BY <1>1, <2>5
  <2> QED  BY <1>2, <2>4, <2>6 DEF w, m
<1>3. CASE HandleOf[Txs[b][m]] # h
  <2>1. Touching(b, h, m) = Touching(b, h, n)
    <3>1. \A i : i \in 1 .. m <=> i \in 1 .. n \/ i = m  BY <1>1
    <3> HIDE DEF m
    <3> QED  BY <1>3, <3>1 DEF Touching
  <2> HIDE DEF m
  <2>2. HolderAfter(before, b, h, m) = HolderAfter(before, b, h, n)  BY <2>1 DEF HolderAfter
  <2> QED  BY <1>3, <2>2 DEF m
<1> QED  BY <1>2, <1>3

(* What one transaction of the Ogmios loop makes of the store.             *)
LEMMA OneByOneIs ==
  ASSUME NEW s \in StoreType, NEW t \in TxIds
  PROVE  /\ OneByOne(s, t) \in StoreType
         /\ OneByOne(s, t).record = [s.record EXCEPT ![HandleOf[t]] = Left(t)]
         /\ OneByOne(s, t).mint = s.mint
         /\ OneByOne(s, t).utxo = (s.utxo \union Made({t})) \ Spent({t})
<1> DEFINE r == [s.record EXCEPT ![HandleOf[t]] = Left(t)]
           u == (s.utxo \union Made({t})) \ Spent({t})
<1>1. s.record \in Owner /\ s.mint \in SUBSET Handles /\ s.utxo \in SUBSET TxIds  BY DEF StoreType
<1>2. Left(t) \in TxIds \union {NoTx}  BY DEF Left
<1>3. r \in Owner  BY <1>1, <1>2, TxTypes DEF Owner
<1>4. u \in SUBSET TxIds  BY <1>1 DEF Made
<1>5. OneByOne(s, t) = [s EXCEPT !.record = r, !.utxo = u]
  <2>1. s = [record |-> s.record, mint |-> s.mint, utxo |-> s.utxo]  BY DEF StoreType
  <2> QED  BY <2>1 DEF OneByOne, Left
<1> HIDE DEF r, u
<1>6. OneByOne(s, t) = [record |-> r, mint |-> s.mint, utxo |-> u]  BY <1>5 DEF StoreType
<1> QED  BY <1>1, <1>3, <1>4, <1>6 DEF StoreType, r, u

(* The loop over the transactions of a block, step by step.                 *)
FirstOnes(b, n) == {Txs[b][i] : i \in 1 .. n}
LEMMA InOrderIs ==
  ASSUME NEW b \in Blocks, store \in StoreType
  PROVE  \E f \in [0 .. Len(Txs[b]) -> StoreType] :
            /\ f[0] = [store EXCEPT !.mint = @ \union MintedBy(ToSet(Txs[b]))]
            /\ \A n \in 0 .. Len(Txs[b]) \ {0} : f[n] = OneByOne(f[n - 1], Txs[b][n])
            /\ InOrder(Txs[b]) = f[Len(Txs[b])]
<1> DEFINE N == Len(Txs[b])
           D == 0 .. N
           base == [store EXCEPT !.mint = @ \union MintedBy(ToSet(Txs[b]))]
           par == [n \in D |-> n - 1]
           step == [q \in D \X StoreType |-> IF q[1] = 0 THEN q[2] ELSE OneByOne(q[2], Txs[b][q[1]])]
           Def(g) == g = [n \in D |-> IF n = 0 THEN base ELSE OneByOne(g[n - 1], Txs[b][n])]
<1>1. N \in Nat /\ D \subseteq Nat /\ 0 \in D  BY TxTypes
<1>2. \A n \in D \ {0} : n - 1 \in D /\ n - 1 < n /\ n \in 1 .. N  BY <1>1
<1>3. base \in StoreType
  <2>1. ToSet(Txs[b]) \subseteq TxIds  BY Members
  <2>2. MintedBy(ToSet(Txs[b])) \subseteq Handles  BY <2>1, TxTypes DEF MintedBy
  <2> QED  BY <2>2 DEF StoreType
<1>4. step \in [D \X StoreType -> StoreType]
  <2> SUFFICES ASSUME NEW n \in D, NEW s \in StoreType
               PROVE  (IF n = 0 THEN s ELSE OneByOne(s, Txs[b][n])) \in StoreType
    OBVIOUS
  <2>1. CASE n = 0  BY <2>1
  <2>2. CASE n # 0
    <3>1. Txs[b][n] \in TxIds  BY <1>2, <2>2, TxTypes
    <3> QED  BY <2>2, <3>1, OneByOneIs
  <2> QED  BY <2>1, <2>2
<1>5. Recursive(D, 0, par, StoreType, base, step)
  <2> HIDE DEF base, step
  <2> QED  BY <1>1, <1>2, <1>3, <1>4 DEF Recursive
<1>6. PICK f \in [D -> StoreType] : Solves(f, D, 0, par, base, step)
  <2> HIDE DEF base, step, D, par
  <2> QED  BY <1>5, Recursion
<1>7. f[0] = base /\ \A n \in D \ {0} : f[n] = OneByOne(f[n - 1], Txs[b][n])
  <2>1. f[0] = base  BY <1>6 DEF Solves
  <2>2. ASSUME NEW n \in D \ {0} PROVE f[n] = OneByOne(f[n - 1], Txs[b][n])
    <3>1. f[n] = step[<<n, f[par[n]]>>]
      <4> HIDE DEF step, par, base, D
      <4> QED  BY <1>6 DEF Solves
    <3>2. par[n] = n - 1 /\ n - 1 \in D  BY <1>2
    <3>3. f[n - 1] \in StoreType  BY <3>2
    <3>4. step[<<n, f[n - 1]>>] = OneByOne(f[n - 1], Txs[b][n])  BY <3>3
    <3> QED  BY <3>1, <3>2, <3>4
  <2> HIDE DEF base, step, D, par
  <2> QED  BY <2>1, <2>2
<1>8. Def(f)
  <2>1. f = [n \in D |-> f[n]]  OBVIOUS
  <2> HIDE DEF base, D
  <2> QED  BY <1>7, <2>1
<1>9. InOrder(Txs[b]) = (CHOOSE g : Def(g))[N]  BY DEF InOrder
<1> DEFINE g == CHOOSE g : Def(g)
<1>10. Def(g)
  <2> HIDE DEF Def
  <2> QED  BY <1>8
<1> HIDE DEF g
<1>11. g[0] = base /\ \A n \in D \ {0} : g[n] = OneByOne(g[n - 1], Txs[b][n])
  <2> HIDE DEF base
  <2> QED  BY <1>1, <1>10
<1>12. \A n \in D : g[n] = f[n]
  <2> DEFINE S == {n \in Nat : n \in D => g[n] = f[n]}
  <2>1. 0 \in S
    <3> HIDE DEF base
    <3> QED  BY <1>7, <1>11
  <2>2. ASSUME NEW n \in Nat, n \in S PROVE n + 1 \in S
    <3> SUFFICES ASSUME n + 1 \in D PROVE g[n + 1] = f[n + 1]  OBVIOUS
    <3> DEFINE m == n + 1
    <3>1. m \in D \ {0} /\ m - 1 = n /\ n \in D  BY <1>1
    <3>2. g[n] = f[n]  BY <2>2, <3>1
    <3> HIDE DEF m, S, base, D
    <3>3. g[m] = OneByOne(g[m - 1], Txs[b][m]) /\ f[m] = OneByOne(f[m - 1], Txs[b][m])
      BY <1>7, <1>11, <3>1
    <3>4. g[m] = f[m]  BY <3>1, <3>2, <3>3
    <3> QED  BY <3>4 DEF m
  <2>3. Nat \subseteq S
    <3> HIDE DEF S
    <3> QED  BY <2>1, <2>2, SetInduction
  <2> QED  BY <1>1, <2>3
<1>13. InOrder(Txs[b]) = f[N]
  <2>1. N \in D  BY <1>1
  <2>2. InOrder(Txs[b]) = g[N]  BY <1>9 DEF g
  <2> HIDE DEF D, base, Def
  <2> QED  BY <1>12, <2>1, <2>2
<1> HIDE DEF base
<1>14. /\ f[0] = base
       /\ \A n \in 0 .. Len(Txs[b]) \ {0} : f[n] = OneByOne(f[n - 1], Txs[b][n])
       /\ InOrder(Txs[b]) = f[Len(Txs[b])]
  BY <1>7, <1>13
<1> USE DEF base
<1> QED  BY <1>14

(* The transactions of a block without failed ones, one by one, come to     *)
(* what the ledger makes of it.                                             *)
LEMMA InOrderStep ==
  ASSUME NEW b \in Blocks \ {Root}, store = StoreAt(Parent[b]), ToSet(Txs[b]) \intersect Failed = {}
  PROVE  InOrder(Txs[b]) = StoreAt(b)
<1> DEFINE p == Parent[b]
           N == Len(Txs[b])
           o == Ledger[p]
           First(n) == FirstOnes(b, n)
<1>1. p \in Blocks /\ N \in Nat /\ o \in Owner  BY TwoPlaces, TxTypes
<1>2. \A i \in 1 .. N : Txs[b][i] \in TxIds \ Failed  BY Members, TxTypes
<1>3. store = [record |-> o, mint |-> Minted(p), utxo |-> Outputs(p)]  BY DEF StoreAt, Outputs
<1>4. store \in StoreType
  <2>1. Outputs(p) \subseteq TxIds  BY <1>1 DEF Outputs, Owner
  <2>2. Minted(p) \subseteq Handles  BY DEF Minted
  <2> QED  BY <1>1, <1>3, <2>1, <2>2 DEF StoreType
<1>5. PICK f \in [0 .. N -> StoreType] :
            /\ f[0] = [store EXCEPT !.mint = @ \union MintedBy(ToSet(Txs[b]))]
            /\ \A n \in 0 .. N \ {0} : f[n] = OneByOne(f[n - 1], Txs[b][n])
            /\ InOrder(Txs[b]) = f[N]
  BY <1>4, InOrderIs
<1> DEFINE Good(n) == /\ \A h \in Handles : f[n].record[h] = HolderAfter(o, b, h, n)
                      /\ f[n].mint = Minted(p) \union MintedBy(ToSet(Txs[b]))
                      /\ f[n].utxo = (Outputs(p) \union Made(First(n))) \ Spent(First(n))
<1>6. Good(0)
  <2>1. First(0) = {}  
    <3>1. 1 .. 0 = {}  OBVIOUS
    <3> QED  BY <3>1 DEF FirstOnes
  <2>2. Made(First(0)) = {} /\ Spent(First(0)) = {}  BY <2>1 DEF Made, Spent
  <2>3. f[0].record = o /\ f[0].mint = Minted(p) \union MintedBy(ToSet(Txs[b])) /\ f[0].utxo = Outputs(p)
    BY <1>3, <1>5
  <2>4. \A h \in Handles : HolderAfter(o, b, h, 0) = o[h]
    <3> SUFFICES ASSUME NEW h \in Handles PROVE HolderAfter(o, b, h, 0) = o[h]  OBVIOUS
    <3>1. Touching(b, h, 0) = {}
      <4>1. 1 .. 0 = {}  OBVIOUS
      <4> QED  BY <4>1 DEF Touching
    <3> QED  BY <3>1 DEF HolderAfter
  <2> QED  BY <2>2, <2>3, <2>4
<1>7. ASSUME NEW n \in Nat, n \in 0 .. N => Good(n), n + 1 \in 0 .. N PROVE Good(n + 1)
  <2> DEFINE m == n + 1
             t == Txs[b][m]
  <2>1. n \in 0 .. N /\ m \in 1 .. N /\ m \in 0 .. N \ {0} /\ m - 1 = n /\ n + 1 <= Len(Txs[b])
    <3> HIDE DEF Good
    <3>1. n + 1 \in 0 .. N  BY <1>7
    <3> QED  BY <1>1, <3>1
  <2>2. Good(n)  BY <1>7, <2>1
  <2>3. f[m] = OneByOne(f[n], t) /\ f[n] \in StoreType
    <3> HIDE DEF m
    <3> QED  BY <1>5, <2>1
  <2>4. t \in TxIds \ Failed  BY <1>2, <2>1
  <2>5. /\ f[m].record = [f[n].record EXCEPT ![HandleOf[t]] = Left(t)]
        /\ f[m].mint = f[n].mint
        /\ f[m].utxo = (f[n].utxo \union Made({t})) \ Spent({t})
    <3> DEFINE s == f[n]
    <3>1. f[m] = OneByOne(s, t) /\ s \in StoreType /\ t \in TxIds  BY <2>3, <2>4
    <3> HIDE DEF s, t, m
    <3>2. /\ OneByOne(s, t).record = [s.record EXCEPT ![HandleOf[t]] = Left(t)]
          /\ OneByOne(s, t).mint = s.mint
          /\ OneByOne(s, t).utxo = (s.utxo \union Made({t})) \ Spent({t})
      BY <3>1, OneByOneIs
    <3>3. /\ f[m].record = [s.record EXCEPT ![HandleOf[t]] = Left(t)]
          /\ f[m].mint = s.mint
          /\ f[m].utxo = (s.utxo \union Made({t})) \ Spent({t})
      BY <3>1, <3>2
    <3> QED  BY <3>3 DEF s
  <2>6. \A h \in Handles : f[m].record[h] = HolderAfter(o, b, h, m)
    <3> SUFFICES ASSUME NEW h \in Handles PROVE f[m].record[h] = HolderAfter(o, b, h, m)  OBVIOUS
    <3>1. HolderAfter(o, b, h, n + 1)
           = IF HandleOf[Txs[b][n + 1]] = h THEN Left(Txs[b][n + 1]) ELSE HolderAfter(o, b, h, n)
      <4>1. b \in Blocks /\ n \in 0 .. Len(Txs[b]) /\ n + 1 <= Len(Txs[b]) /\ Txs[b][n + 1] \notin Failed
        BY <2>1, <2>4
      <4> HIDE DEF o
      <4> QED  BY <4>1, HolderStep
    <3>2. f[n].record \in Owner  BY <2>3 DEF StoreType
    <3>3. f[m].record[h] = IF HandleOf[t] = h THEN Left(t) ELSE f[n].record[h]  
      <4> HIDE DEF t, m
      <4> QED  BY <2>5, <3>2 DEF Owner
    <3>4. f[n].record[h] = HolderAfter(o, b, h, n)  BY <2>2
    <3> QED  BY <3>1, <3>3, <3>4
  <2>7. First(m) = First(n) \union {t}
    <3>1. \A i : i \in 1 .. m <=> i \in 1 .. n \/ i = m  OBVIOUS
    <3> HIDE DEF m
    <3> QED  BY <3>1 DEF FirstOnes
  <2>8. t \notin Spent(First(n))
    <3> SUFFICES ASSUME t \in Spent(First(n)) PROVE FALSE  OBVIOUS
    <3>1. PICK i \in 1 .. n : t = Input[Txs[b][i]]  BY DEF Spent, FirstOnes
    <3>2. i \in 1 .. N /\ i < m  BY <1>1, <2>1
    <3>3. Txs[b][i] \notin Failed  BY <1>2, <3>2
    <3> HIDE DEF m
    <3>4. m < i  BY <2>1, <3>1, <3>2, <3>3, SpentLater
    <3> QED  BY <2>1, <3>2, <3>4
  <2>9. f[m].utxo = (Outputs(p) \union Made(First(m))) \ Spent(First(m))
    <3>1. Made(First(m)) = Made(First(n)) \union Made({t})  BY <2>7 DEF Made
    <3>2. Spent(First(m)) = Spent(First(n)) \union Spent({t})  BY <2>7 DEF Spent
    <3>3. Made({t}) \subseteq {t}  BY DEF Made
    <3>4. Made({t}) \intersect Spent(First(n)) = {}  BY <2>8, <3>3
    <3>5. f[n].utxo = (Outputs(p) \union Made(First(n))) \ Spent(First(n))  BY <2>2
    <3> DEFINE mf == Made(First(m))
               nf == Made(First(n))
               sm == Spent(First(m))
               sn == Spent(First(n))
               mt == Made({t})
               st == Spent({t})
               u == f[m].utxo
               v == f[n].utxo
    <3>6. u = (v \union mt) \ st  BY <2>5
    <3> HIDE DEF mf, nf, sm, sn, mt, st, u, v
    <3>7. u = (Outputs(p) \union mf) \ sm  BY <3>1, <3>2, <3>4, <3>5, <3>6 DEF mf, nf, sm, sn, mt, st, v
    <3> QED  BY <3>7 DEF u, mf, sm
  <2> QED  BY <2>2, <2>5, <2>6, <2>9
<1>8. Good(N)
  <2> DEFINE S == {n \in Nat : n \in 0 .. N => Good(n)}
  <2> HIDE DEF Good
  <2>1. 0 \in S  BY <1>6
  <2>2. ASSUME NEW n \in Nat, n \in S PROVE n + 1 \in S  BY <1>7, <2>2
  <2>3. Nat \subseteq S
    <3> HIDE DEF S
    <3> QED  BY <2>1, <2>2, SetInduction
  <2> QED  BY <1>1, <2>3
<1>9. First(N) = ToSet(Txs[b]) /\ ToSet(Txs[b]) = Taken(b)
  <2>1. First(N) = ToSet(Txs[b])  BY <1>1, Members DEF FirstOnes
  <2> QED  BY <2>1 DEF Taken, Converted
<1>10. f[N].record = Ledger[b]
  <2>1. Ledger[b] = [h \in Handles |-> HolderAfter(o, b, h, N)]  BY LedgerIs
  <2>2. f[N] \in StoreType  BY <1>1, <1>5
  <2>3. f[N].record \in Owner  BY <2>2 DEF StoreType
  <2>4. \A h \in Handles : f[N].record[h] = HolderAfter(o, b, h, N)  BY <1>8
  <2>5. f[N].record = [h \in Handles |-> f[N].record[h]]  BY <2>3 DEF Owner
  <2> DEFINE r == f[N].record
  <2> HIDE DEF r
  <2>6. r = [h \in Handles |-> r[h]] /\ \A h \in Handles : r[h] = HolderAfter(o, b, h, N)  BY <2>4, <2>5 DEF r
  <2> HIDE DEF o, N
  <2>7. r = Ledger[b]  BY <2>1, <2>6
  <2> QED  BY <2>7 DEF r
<1>11. f[N].mint = Minted(b)  BY <1>8, <1>9, MintedStep
<1>12. f[N].utxo = Outputs(b)
  <2>1. f[N].utxo = Net(b)  BY <1>8, <1>9 DEF Net
  <2> QED  BY <2>1, NetOutputs
<1>13. f[N] \in StoreType  BY <1>1, <1>5
<1>14. f[N] = [record |-> f[N].record, mint |-> f[N].mint, utxo |-> f[N].utxo]  BY <1>13 DEF StoreType
<1> QED  BY <1>5, <1>10, <1>11, <1>12, <1>14 DEF StoreAt, Outputs

-----------------------------------------------------------------------------
(* What Demeter has received of the block it holds back is the transactions *)
(* sent so far; Ogmios that did not stray stands at the cursor, with the    *)
(* whole store of it.                                                       *)
Received ==
    job.at = "watch" /\ job.pending # None =>
        job.part \in 0 .. Len(Txs[job.pending]) /\ job.got = FirstOnes(job.pending, job.part)
AtCursor == socket.open # "off" /\ ~strayed => socket.pos = cursor
Whole ==
    /\ disturbed \subseteq Handles
    /\ source = "ogmios" => disturbed = {} /\ (~strayed => store = StoreAt(cursor))
StoreInv == Received /\ AtCursor /\ Whole /\ StoreFollowsCursor

(* All transactions of a block are its first so many.                      *)
LEMMA AllReceived ==
  ASSUME NEW b \in Blocks
  PROVE  FirstOnes(b, Len(Txs[b])) = ToSet(Txs[b])
BY TxTypes, Members DEF FirstOnes

(* A step that changes nothing of these keeps their part of the invariant.  *)
LEMMA StoreKept ==
  ASSUME Whole, StoreFollowsCursor, UNCHANGED <<source, cursor, store, disturbed>>, strayed => strayed'
  PROVE  Whole' /\ StoreFollowsCursor'
BY DEF Whole, StoreFollowsCursor, StoreAt, Share

(* Each of the changes of the store a step can make.                        *)
LEMMA BlockTaken ==
  ASSUME IInv, Whole, StoreFollowsCursor, NEW b \in Blocks, Parent[b] = cursor, source = "demeter",
         TakeIn(Converted(ToSet(Txs[b]))), cursor' = b, UNCHANGED <<source, strayed, disturbed>>
  PROVE  Whole' /\ StoreFollowsCursor'
<1>1. PICK ahead \in SUBSET disturbed : store' = NetEffect(Taken(b), ahead)  BY DEF TakeIn, Taken
<1>2. b # Root  BY Tree, StreamAssumption DEF IInv
<1>3. SUFFICES ASSUME ~strayed, NEW h \in Handles \ disturbed
               PROVE  Share(store', h) = Share(StoreAt(b), h)
  BY DEF Whole, StoreFollowsCursor, StoreAt, Share
<1>4. Share(store, h) = Share(StoreAt(Parent[b]), h)  BY <1>3 DEF StoreFollowsCursor
<1>5. Share(NetEffect(Taken(b), ahead), h) = Share(StoreAt(b), h)  BY <1>2, <1>3, <1>4, NetStep
<1> QED  BY <1>1, <1>5

(* Who holds a handle is decided by the last block of the chain that        *)
(* touches it.                                                              *)
Quiet(b, h) == Untouched(b, h, Len(Txs[b]))
ByLastBlock(b, h) ==
    \/ (\A c \in Chain[b] : Quiet(c, h)) /\ Ledger[b][h] = NoTx
    \/ \E c \in Chain[b] : /\ ~Quiet(c, h) /\ \A d \in Chain[b] : ~Quiet(d, h) => d <= c
                          /\ Ledger[b][h] = Ledger[c][h]
LEMMA LastBlock == \A b \in Blocks : \A h \in Handles : ByLastBlock(b, h)
<1> DEFINE S == {b \in Blocks : \A h \in Handles : ByLastBlock(b, h)}
<1>1. Root \in S
  <2>1. Chain[Root] = {Root} /\ Root \in Blocks /\ Txs[Root] = <<>>  BY StreamAssumption
  <2>2. \A h \in Handles : Quiet(Root, h)
    <3>1. Len(Txs[Root]) = 0 /\ 1 .. 0 = {}  BY <2>1
    <3> QED  BY <3>1 DEF Quiet, Untouched, Touching
  <2>3. \A h \in Handles : Ledger[Root][h] = NoTx  BY LedgerIs
  <2> QED  BY <2>1, <2>2, <2>3 DEF ByLastBlock
<1>2. ASSUME NEW b \in Blocks \ {Root}, Parent[b] \in S PROVE b \in S
  <2> SUFFICES ASSUME NEW h \in Handles PROVE ByLastBlock(b, h)  OBVIOUS
  <2> DEFINE p == Parent[b]
  <2>1. p \in Blocks /\ b \in Chain[b] /\ Chain[b] = Chain[p] \union {b}  BY TwoPlaces
  <2>2. Ledger[b][h] = HolderAfter(Ledger[p], b, h, Len(Txs[b]))  BY LedgerIs
  <2>3. ByLastBlock(p, h)  BY <1>2
  <2>4. CASE Quiet(b, h)
    <3>1. Len(Txs[b]) \in 0 .. Len(Txs[b])  BY TxTypes
    <3>2. Ledger[b][h] = Ledger[p][h]  BY <2>2, <2>4, <3>1, HolderCases DEF Quiet
    <3> QED  BY <2>1, <2>3, <2>4, <3>2 DEF ByLastBlock
  <2>5. CASE ~Quiet(b, h)
    <3>1. \A d \in Chain[b] : d <= b  BY ChainBelow
    <3> QED  BY <2>1, <2>5, <3>1 DEF ByLastBlock
  <2> QED  BY <2>4, <2>5
<1>3. Blocks \subseteq S
  <2> HIDE DEF S
  <2> QED  BY <1>1, <1>2, BlockInduction
<1> QED  BY <1>3

(* A handle that no block touches of those one of two chains has and the    *)
(* other has not is the same at the end of both.                            *)
LEMMA SameOnBoth ==
  ASSUME NEW b \in Blocks, NEW c \in Blocks, NEW h \in Handles,
         \A d \in (Chain[b] \ Chain[c]) \union (Chain[c] \ Chain[b]) : Quiet(d, h)
  PROVE  Share(StoreAt(b), h) = Share(StoreAt(c), h)
<1>1. ByLastBlock(b, h) /\ ByLastBlock(c, h)  BY LastBlock
<1>2. \A d : ~Quiet(d, h) => (d \in Chain[b] <=> d \in Chain[c])  OBVIOUS
<1>3. Chain[b] \subseteq Nat /\ Chain[c] \subseteq Nat  BY StreamAssumption
<1>4. Ledger[b][h] = Ledger[c][h]
  <2>1. CASE \A d \in Chain[b] : Quiet(d, h)
    <3>1. Ledger[b][h] = NoTx  BY <1>1, <2>1 DEF ByLastBlock
    <3>2. Ledger[c][h] = NoTx  BY <1>1, <1>2, <2>1 DEF ByLastBlock
    <3> QED  BY <3>1, <3>2
  <2>2. CASE ~\A d \in Chain[b] : Quiet(d, h)
    <3>1. PICK d \in Chain[b] : /\ ~Quiet(d, h) /\ \A e \in Chain[b] : ~Quiet(e, h) => e <= d
                               /\ Ledger[b][h] = Ledger[d][h]
      BY <1>1, <2>2 DEF ByLastBlock
    <3>2. PICK e \in Chain[c] : /\ ~Quiet(e, h) /\ \A g \in Chain[c] : ~Quiet(g, h) => g <= e
                               /\ Ledger[c][h] = Ledger[e][h]
      BY <1>1, <1>2, <2>2 DEF ByLastBlock
    <3>3. d <= e /\ e <= d  BY <1>2, <3>1, <3>2
    <3>4. d = e  BY <1>3, <3>1, <3>2, <3>3
    <3> QED  BY <3>1, <3>2, <3>4
  <2> QED  BY <2>1, <2>2
<1>5. \A d \in Blocks : \A t \in ToSet(Txs[d]) : t \in TxIds \ Failed /\ HandleOf[t] = h => ~Quiet(d, h)
  <2> SUFFICES ASSUME NEW d \in Blocks, NEW t \in ToSet(Txs[d]), t \notin Failed, HandleOf[t] = h
               PROVE  ~Quiet(d, h)
    OBVIOUS
  <2>1. PICK i \in 1 .. Len(Txs[d]) : t = Txs[d][i]  BY Members
  <2>2. i \in Touching(d, h, Len(Txs[d]))  BY <2>1 DEF Touching
  <2> QED  BY <2>2 DEF Quiet, Untouched
<1>6. Minted(b) \intersect {h} = Minted(c) \intersect {h}
  <2>1. Chain[b] \subseteq Blocks /\ Chain[c] \subseteq Blocks  BY Tree
  <2>2. h \in Minted(b) <=> h \in Minted(c)  BY <1>2, <1>5, <2>1 DEF Minted
  <2> QED  BY <2>2
<1>7. {t \in Outputs(b) : HandleOf[t] = h} = {t \in Outputs(c) : HandleOf[t] = h}
  <2>1. \A d \in Blocks : \A t : t \in Outputs(d) /\ HandleOf[t] = h <=> t = Ledger[d][h] /\ t # NoTx
    <3> SUFFICES ASSUME NEW d \in Blocks, NEW t
                 PROVE  t \in Outputs(d) /\ HandleOf[t] = h <=> t = Ledger[d][h] /\ t # NoTx
      OBVIOUS
    <3>1. \A g \in Handles : HeldOnChain(d, g)  BY HoldersOnChain
    <3> QED  BY <3>1 DEF HeldOnChain, Outputs
  <2> QED  BY <1>4, <2>1
<1> QED  BY <1>4, <1>6, <1>7 DEF Share, StoreAt, Outputs

(* A repair leaves alone the handles that are not repaired.                 *)
LEMMA RepairStep ==
  ASSUME NEW some, some \subseteq Handles, Repair(some), NEW h \in Handles, h \notin some
  PROVE  Share(store', h) = Share(store, h)
<1> DEFINE all == UNION {Answers(g) : g \in some}
<1>1. PICK told \in [some -> all] :
        /\ \A g \in some : told[g] \in Answers(g)
        /\ \E written \in SUBSET {g \in some : told[g] # NoTx},
              stale \in SUBSET {t \in store.utxo : HandleOf[t] \in some},
              lost \in SUBSET (store.mint \intersect some) :
              store' = [record |-> [g \in Handles |-> IF g \in written THEN told[g] ELSE store.record[g]],
                        mint |-> (store.mint \ lost) \union
                                   {g \in some : told[g] # NoTx /\ Op[told[g]] = "mint"},
                        utxo |-> (store.utxo \ stale) \union ({told[g] : g \in some} \ {NoTx})]
  BY DEF Repair
<1>2. PICK written \in SUBSET {g \in some : told[g] # NoTx},
           stale \in SUBSET {t \in store.utxo : HandleOf[t] \in some},
           lost \in SUBSET (store.mint \intersect some) :
           store' = [record |-> [g \in Handles |-> IF g \in written THEN told[g] ELSE store.record[g]],
                     mint |-> (store.mint \ lost) \union
                                {g \in some : told[g] # NoTx /\ Op[told[g]] = "mint"},
                     utxo |-> (store.utxo \ stale) \union ({told[g] : g \in some} \ {NoTx})]
  BY <1>1
<1>3. store'.record[h] = store.record[h]  BY <1>2
<1>4. store'.mint \intersect {h} = store.mint \intersect {h}  BY <1>2
<1>5. \A g \in some : told[g] # NoTx => HandleOf[told[g]] = g
  <2> SUFFICES ASSUME NEW g \in some, told[g] # NoTx PROVE HandleOf[told[g]] = g  OBVIOUS
  <2>1. PICK c \in Blocks : told[g] = Ledger[c][g]  BY <1>1 DEF Answers
  <2>2. g \in Handles  OBVIOUS
  <2>3. HeldOnChain(c, g)  BY <2>2, HoldersOnChain
  <2> QED  BY <2>1, <2>3 DEF HeldOnChain
<1>6. {t \in store'.utxo : HandleOf[t] = h} = {t \in store.utxo : HandleOf[t] = h}
  <2>1. store'.utxo = (store.utxo \ stale) \union ({told[g] : g \in some} \ {NoTx})  BY <1>2
  <2>2. \A t \in stale : HandleOf[t] # h  OBVIOUS
  <2>3. \A t \in {told[g] : g \in some} \ {NoTx} : HandleOf[t] # h  BY <1>5
  <2> QED  BY <2>1, <2>2, <2>3
<1>7. /\ Share(store', h) = [record |-> store'.record[h], mint |-> store'.mint \intersect {h},
                              utxo |-> {t \in store'.utxo : HandleOf[t] = h}]
      /\ Share(store, h) = [record |-> store.record[h], mint |-> store.mint \intersect {h},
                             utxo |-> {t \in store.utxo : HandleOf[t] = h}]
  BY DEF Share
<1> QED  BY <1>3, <1>4, <1>6, <1>7

(* So a rollback, one that fails on its way included, leaves the others as  *)
(* the new cursor has them.                                                 *)
LEMMA RollbackStore ==
  ASSUME IInv, Whole, StoreFollowsCursor, Rollback
  PROVE  Whole' /\ StoreFollowsCursor'
<1>1. PICK b \in Blocks :
        /\ disturbed' = disturbed \union TouchedIn(Between(b)) /\ Repair(disturbed')
        /\ cursor' \in {b, cursor}
  BY Tree DEF Rollback, Canonical, IInv
<1>2. source = "demeter" /\ source' = source /\ strayed' = strayed /\ cursor \in Blocks
  BY DEF Rollback, IInv
<1>3. disturbed' \subseteq Handles  BY <1>1 DEF TouchedIn, Whole
<1>4. ASSUME ~strayed, NEW h \in Handles \ disturbed'
      PROVE  Share(store', h) = Share(StoreAt(cursor'), h)
  <2>1. Share(store', h) = Share(store, h)  BY <1>1, <1>3, <1>4, RepairStep
  <2>2. Share(store, h) = Share(StoreAt(cursor), h)  BY <1>1, <1>4 DEF StoreFollowsCursor
  <2>3. \A d \in Between(b) : Quiet(d, h)  BY <1>1, <1>4 DEF TouchedIn, Quiet, Untouched
  <2>4. Share(StoreAt(cursor), h) = Share(StoreAt(b), h)  BY <1>2, <2>3, SameOnBoth DEF Between
  <2> QED  BY <1>1, <2>1, <2>2, <2>4
<1> QED  BY <1>2, <1>3, <1>4 DEF Whole, StoreFollowsCursor, Share, StoreAt

(* An event takes in the block held back when all of it was received, or    *)
(* nothing.                                                                 *)
LEMMA EventStore ==
  ASSUME IInv, StoreInv, job.at = "watch", NEW b \in Blocks, NEW t \in TxIds \union {NoTx},
         Receive(b, t), UNCHANGED <<source, tip, socket, strayed, disturbed>>,
         b = job.pending => job.part < Len(Txs[b]) /\ t = Txs[b][job.part + 1],
         b # job.pending => \/ job.pending # None /\ ~Contiguous(b)
                            \/ (job.pending # None => job.part >= Len(Txs[job.pending])) /\ t = FirstOf(b)
  PROVE  StoreInv'
<1>0. job \in JobType /\ b # None /\ Len(Txs[b]) \in Nat  BY Tree, TxTypes DEF IInv
<1>1. CASE SameBlock(b, t)
  <2>1. cursor' = cursor /\ store' = store /\ b = job.pending  BY <1>1 DEF SameBlock
  <2>2. AtCursor' /\ Whole' /\ StoreFollowsCursor'  BY <2>1, StoreKept DEF StoreInv, AtCursor
  <2>3. Received'
    <3>1. CASE Unreadable(t)
      <4>1. job' = At("failed")  BY <1>1, <3>1 DEF SameBlock
      <4>2. job'.at = "failed"  BY <1>0, <4>1, JobSteps
      <4> QED  BY <4>2 DEF Received
    <3>2. CASE ~Unreadable(t)
      <4> DEFINE got == job.got \union ({t} \ {NoTx})
                 part == IF t = NoTx THEN job.part ELSE job.part + 1
                 n == job.part
      <4>1. job' = [job EXCEPT !.got = got, !.part = part]  BY <1>1, <3>2 DEF SameBlock
      <4> HIDE DEF got, part
      <4>2. job'.got = got /\ job'.part = part /\ job'.pending = job.pending
        BY <1>0, <4>1 DEF JobType
      <4>3. n \in Nat /\ n < Len(Txs[b]) /\ job.got = FirstOnes(b, n)  
        BY <1>0, <2>1 DEF StoreInv, Received, JobType
      <4>4. t = Txs[b][n + 1] /\ n + 1 \in 1 .. Len(Txs[b])  BY <1>0, <2>1, <4>3
      <4>5. t \in TxIds /\ t # NoTx  BY <4>4, TxTypes
      <4>6. part = n + 1 /\ got = FirstOnes(b, n) \union {Txs[b][n + 1]}  BY <4>3, <4>4, <4>5 DEF part, got
      <4>7. FirstOnes(b, n + 1) = FirstOnes(b, n) \union {Txs[b][n + 1]}
        <5>1. \A i : i \in 1 .. n + 1 <=> i \in 1 .. n \/ i = n + 1  BY <4>3
        <5> HIDE DEF n
        <5> QED  BY <5>1 DEF FirstOnes
      <4>8. part \in 0 .. Len(Txs[b])  BY <1>0, <4>3, <4>6
      <4> QED  BY <2>1, <4>2, <4>6, <4>7, <4>8 DEF Received
    <3> QED  BY <3>1, <3>2
  <2> QED  BY <2>2, <2>3 DEF StoreInv
<1>2. CASE NewBlock(b, t)
  <2>1. CASE Refused(b) /\ job' = At("failed") /\ UNCHANGED <<cursor, store>>
    <3>1. job'.at = "failed"  BY <1>0, <2>1, JobSteps
    <3>2. AtCursor' /\ Whole' /\ StoreFollowsCursor'  BY <2>1, StoreKept DEF StoreInv, AtCursor
    <3> QED  BY <3>1, <3>2 DEF StoreInv, Received
  <2>2. CASE ~Refused(b) /\ Completed /\ job' \in {Idle, At("failed"), Held(b, t)}
    <3>1. b # job.pending  BY <1>2 DEF NewBlock
    <3>2. (job.pending # None => job.part >= Len(Txs[job.pending])) /\ t = FirstOf(b)
      BY <2>2, <3>1 DEF Refused
    <3>3. Whole' /\ StoreFollowsCursor'
      <4>1. CASE job.pending = None
        BY <2>2, <4>1, StoreKept DEF Completed, StoreInv
      <4>2. CASE job.pending # None
        <5> DEFINE q == job.pending
        <5>1. q \in Blocks /\ Parent[q] = cursor  BY <4>2 DEF IInv, Watching, JobType
        <5>2. job.part = Len(Txs[q]) /\ job.got = FirstOnes(q, Len(Txs[q]))
          BY <1>0, <3>2, <4>2, <5>1, TxTypes DEF StoreInv, Received, JobType
        <5>3. job.got = ToSet(Txs[q])  BY <5>1, <5>2, AllReceived
        <5>4. TakeIn(Converted(ToSet(Txs[q]))) /\ cursor' = q /\ source = "demeter"  BY <2>2, <4>2, <5>3 DEF Completed, IInv
        <5> HIDE DEF q
        <5> QED  BY <5>1, <5>4, BlockTaken DEF StoreInv
      <4> QED  BY <4>1, <4>2
    <3>4. AtCursor'
      <4>1. socket.open = "off"  BY DEF IInv
      <4> QED  BY <4>1 DEF AtCursor
    <3>5. Received'
      <4>1. CASE job' = Held(b, t)
        <5> DEFINE got == {t} \ {NoTx}
                   part == IF t = NoTx THEN 0 ELSE 1
        <5>1. job' = [job EXCEPT !.pending = b, !.got = got, !.sent = b, !.part = part]  BY <4>1 DEF Held
        <5> HIDE DEF got, part
        <5>2. job'.pending = b /\ job'.got = got /\ job'.part = part  BY <1>0, <5>1 DEF JobType
        <5>3. CASE Txs[b] = <<>>
          <6>1. t = NoTx /\ Len(Txs[b]) = 0  BY <3>2, <5>3 DEF FirstOf
          <6>2. got = {} /\ part = 0  BY <6>1 DEF got, part
          <6>3. FirstOnes(b, 0) = {}
            <7>1. 1 .. 0 = {}  OBVIOUS
            <7> QED  BY <7>1 DEF FirstOnes
          <6> QED  BY <5>2, <6>1, <6>2, <6>3 DEF Received
        <5>4. CASE Txs[b] # <<>>
          <6>1. Txs[b] \in Seq(TxIds)  BY Tree
          <6>2. 1 \in 1 .. Len(Txs[b])  BY <5>4, <6>1
          <6>3. t = Txs[b][1] /\ t # NoTx  BY <3>2, <5>4, <6>2, TxTypes DEF FirstOf
          <6>4. got = {Txs[b][1]} /\ part = 1  BY <6>3 DEF got, part
          <6>5. FirstOnes(b, 1) = {Txs[b][1]}
            <7>1. \A i : i \in 1 .. 1 <=> i = 1  OBVIOUS
            <7> QED  BY <7>1 DEF FirstOnes
          <6>6. part \in 0 .. Len(Txs[b])  BY <1>0, <6>2, <6>4
          <6> QED  BY <5>2, <6>4, <6>5, <6>6 DEF Received
        <5> QED  BY <5>3, <5>4
      <4>2. CASE job' \in {Idle, At("failed")}
        <5>1. job'.at # "watch"  BY <1>0, <4>2, JobSteps DEF Idle
        <5> QED  BY <5>1 DEF Received
      <4> QED  BY <2>2, <4>1, <4>2
    <3> QED  BY <3>3, <3>4, <3>5 DEF StoreInv
  <2> QED  BY <1>2, <2>1, <2>2 DEF NewBlock
<1> QED  BY <1>1, <1>2 DEF Receive

(* At the start the store is that of the first block.                      *)
LEMMA StoreInit == Init => StoreInv
BY DEF Init, StoreInv, Received, AtCursor, Whole, StoreFollowsCursor, Idle, Closed

(* Every step keeps the store that of the cursor.                          *)
LEMMA StoreStep == ASSUME SkipsFirst = FALSE, IInv, StoreInv, [Next]_vars PROVE StoreInv'
<1>0. job \in JobType /\ tip \in Blocks /\ cursor \in Blocks  BY DEF IInv
<1>1. CASE CatchUp
  <2>1. PICK b \in Blocks : /\ Parent[b] = cursor /\ cursor' = b
                            /\ TakeIn(Converted(ToSet(Txs[b])))
    BY <1>1, Tree DEF CatchUp, Canonical, IInv
  <2>2. UNCHANGED <<source, strayed, disturbed, job, socket>> /\ source = "demeter"  BY <1>1 DEF CatchUp
  <2>3. Whole' /\ StoreFollowsCursor'  BY <2>1, <2>2, BlockTaken DEF StoreInv
  <2>4. job.at = "idle" /\ socket.open = "off"  BY <1>1 DEF CatchUp, IInv
  <2> QED  BY <2>2, <2>3, <2>4 DEF StoreInv, Received, AtCursor
<1>2. CASE CatchUpOrphaned
  <2>1. job'.at = "rollback"  BY <1>2 DEF CatchUpOrphaned, Idle
  <2> QED  BY <1>2, <2>1, StoreKept DEF CatchUpOrphaned, StoreInv, Received, AtCursor
<1>3. CASE Watch
  <2>1. job'.pending = None  BY <1>3 DEF Watch, Idle
  <2> QED  BY <1>3, <2>1, StoreKept DEF Watch, StoreInv, Received, AtCursor
<1>4. CASE Event
  <2>0. job.at = "watch" /\ job.sent \in Blocks /\ job.part \in Nat /\ Len(Txs[job.sent]) \in Nat
        /\ UNCHANGED <<source, tip, socket, strayed, disturbed>>
    BY <1>4, TxTypes DEF Event, IInv, Watching, JobType
  <2>1. CASE job.part < Len(Txs[job.sent])
    <3>1. job.pending # None /\ job.pending = job.sent
      BY <2>0, <2>1 DEF IInv, Watching
    <3> DEFINE t == Txs[job.sent][job.part + 1]
    <3>2. t \in TxIds
      <4>1. job.part + 1 \in 1 .. Len(Txs[job.sent])  BY <2>0, <2>1
      <4> QED  BY <2>0, <4>1, TxTypes
    <3>3. Receive(job.sent, t)  BY <1>4, <2>1 DEF Event
    <3> DEFINE b == job.sent
    <3>4. b \in Blocks /\ b = job.pending /\ job.part < Len(Txs[b]) /\ t = Txs[b][job.part + 1]
      BY <2>0, <2>1, <3>1
    <3> HIDE DEF t, b
    <3>5. Receive(b, t) /\ t \in TxIds \union {NoTx}  BY <3>2, <3>3 DEF b
    <3> QED  BY <2>0, <3>4, <3>5, EventStore
  <2>2. CASE ~(job.part < Len(Txs[job.sent]))
    <3>1. PICK b \in Blocks : Parent[b] = job.sent /\ Receive(b, FirstOf(b))
      BY <1>4, <2>2, Tree DEF Event, Canonical, IInv
    <3>2. b # job.pending
      <4>1. job.pending # None => job.sent = job.pending  BY <2>0 DEF IInv, Watching
      <4> QED  BY <3>1, <4>1, Tree
    <3>3. job.pending # None => job.part >= Len(Txs[job.pending])
      <4>1. job.pending # None => job.sent = job.pending  BY <2>0 DEF IInv, Watching
      <4> QED  BY <2>0, <2>2, <4>1
    <3> DEFINE t == FirstOf(b)
    <3>4. t \in TxIds \union {NoTx} /\ Receive(b, t) /\ t = FirstOf(b)  BY <3>1, FirstOfType
    <3> HIDE DEF t
    <3> QED  BY <2>0, <3>2, <3>3, <3>4, EventStore
  <2> QED  BY <2>1, <2>2
<1>5. CASE Repeated
  <2>1. PICK t \in job.got \union {NoTx} : job' = [job EXCEPT !.got = @ \union ({t} \ {NoTx})]
    BY <1>5 DEF Repeated
  <2>2. job.got \union ({t} \ {NoTx}) = job.got  BY <2>1
  <2>3. job' = job
    <3>1. job' = [job EXCEPT !.got = job.got]  BY <2>1, <2>2
    <3> QED  BY <1>0, <3>1 DEF JobType
  <2> QED  BY <1>5, <2>3, StoreKept DEF Repeated, StoreInv, Received, AtCursor
<1>6. CASE Skipping
  <2>1. PICK b \in Blocks : Height[b] = Height[job.sent] + 2 /\ Receive(b, FirstOf(b))
    BY <1>6, Tree DEF Skipping, Canonical, IInv
  <2>2. job.at = "watch" /\ job.pending # None /\ job.sent = job.pending /\ job.sent \in Blocks
        /\ UNCHANGED <<source, tip, socket, strayed, disturbed>>
    BY <1>6 DEF Skipping, IInv, Watching
  <2>3. ~Contiguous(b) /\ b # job.pending
    <3>1. Height[b] \in Nat /\ Height[job.pending] \in Nat  BY <2>2, Tree
    <3> QED  BY <2>1, <2>2, <3>1 DEF Contiguous
  <2> DEFINE t == FirstOf(b)
  <2>4. t \in TxIds \union {NoTx} /\ Receive(b, t)  BY <2>1, FirstOfType
  <2> HIDE DEF t
  <2> QED  BY <2>2, <2>3, <2>4, EventStore
<1>7. CASE Undo \/ Cancelled \/ Broken \/ Classify \/ ClassifyFails
  <2>1. job' \in {At("failed"), At("rollback"), Idle} /\ UNCHANGED <<source, cursor, store, socket, strayed, disturbed>>
    BY <1>7 DEF Undo, Cancelled, Broken, Classify, ClassifyFails
  <2>2. job'.at # "watch"
    <3>1. Idle.at = "idle"  BY DEF Idle
    <3> QED  BY <1>0, <2>1, <3>1, JobSteps
  <2> QED  BY <2>1, <2>2, StoreKept DEF StoreInv, Received, AtCursor
<1>8. CASE Rollback
  <2>1. Whole' /\ StoreFollowsCursor'  BY <1>8, RollbackStore DEF StoreInv
  <2>2. job'.at = "idle" /\ socket' = socket /\ job.at = "rollback"  BY <1>8 DEF Rollback, Idle
  <2>3. socket.open = "off"  BY <2>2 DEF IInv
  <2> QED  BY <2>1, <2>2, <2>3 DEF StoreInv, Received, AtCursor
<1>9. CASE Connect
  <2>1. UNCHANGED <<source, cursor, store, job, disturbed>> /\ strayed' = (strayed \/ cursor \notin Canonical)
        /\ socket'.pos = IF cursor \in Canonical THEN cursor ELSE Root
    BY <1>9 DEF Connect
  <2> QED  BY <2>1, StoreKept DEF StoreInv, Received, AtCursor
<1>10. CASE RollForward
  <2>1. PICK b \in Blocks :
          /\ Parent[b] = socket.pos
          /\ socket' = [socket EXCEPT !.pos = b, !.asked = Answered]
          /\ IF Unsupported(b) \/ Unindexed(Txs[b])
             THEN strayed' = TRUE /\ UNCHANGED <<cursor, store>>
             ELSE /\ cursor' = b /\ store' = InOrder(Txs[b])
                  /\ strayed' = (strayed \/ ToSet(Txs[b]) \intersect Failed # {})
    BY <1>10, Tree DEF RollForward, Canonical, IInv
  <2>2. socket.open = "on" /\ job' = job /\ socket'.pos = b
    BY <1>10, <2>1 DEF RollForward, IInv, SocketType
  <2>3. job.at = "idle" /\ source = "ogmios" /\ disturbed = {}
        /\ UNCHANGED <<source, disturbed>>
    <3>1. source = "ogmios"  BY <1>10, <2>2 DEF IInv
    <3> QED  BY <1>10, <3>1 DEF RollForward, IInv, JobType, StoreInv, Whole
  <2>4. Received'  BY <2>2, <2>3 DEF Received
  <2>5. CASE strayed'
    BY <2>3, <2>4, <2>5 DEF StoreInv, AtCursor, Whole, StoreFollowsCursor
  <2>6. CASE ~strayed'
    <3>1. ~strayed /\ cursor' = b /\ store' = InOrder(Txs[b]) /\ ToSet(Txs[b]) \intersect Failed = {}
      <4>1. ~(Unsupported(b) \/ Unindexed(Txs[b]))  BY <2>1, <2>6
      <4> QED  BY <2>1, <2>6, <4>1
    <3>2. socket.pos = cursor /\ store = StoreAt(cursor)
      BY <2>2, <2>3, <3>1 DEF StoreInv, AtCursor, Whole
    <3>3. store = StoreAt(Parent[b]) /\ b # Root
      <4>1. Parent[b] \in Blocks  BY <1>0, <2>1, <3>2
      <4> QED  BY <2>1, <3>2, <4>1, StreamAssumption
    <3>4. InOrder(Txs[b]) = StoreAt(b)  BY <3>1, <3>3, InOrderStep
    <3>5. Whole' /\ StoreFollowsCursor'
      <4>1. store' = StoreAt(b)  BY <3>1, <3>4
      <4>2. StoreAt(b)' = StoreAt(b)  BY DEF StoreAt
      <4> QED  BY <2>3, <3>1, <4>1, <4>2 DEF Whole, StoreFollowsCursor, Share
    <3>6. AtCursor'  BY <2>2, <3>1 DEF AtCursor
    <3> QED  BY <2>4, <3>5, <3>6 DEF StoreInv
  <2> QED  BY <2>5, <2>6
<1>11. CASE RollBackward
  <2>1. strayed' /\ UNCHANGED <<source, job, disturbed>>  BY <1>11 DEF RollBackward
  <2> QED  BY <2>1 DEF StoreInv, Received, AtCursor, Whole, StoreFollowsCursor
<1>12. CASE Malformed \/ Exit
  <2>1. socket' = Closed /\ UNCHANGED <<source, cursor, store, job, strayed, disturbed>>  BY <1>12 DEF Malformed, Exit
  <2> QED  BY <2>1, StoreKept DEF Closed, StoreInv, Received, AtCursor
<1>13. CASE Lost
  <2>1. socket'.pos = socket.pos /\ socket.open = "on" /\ UNCHANGED <<source, cursor, store, job, strayed, disturbed>>
    BY <1>13 DEF Lost, IInv, SocketType
  <2> QED  BY <2>1, StoreKept DEF StoreInv, Received, AtCursor
<1>14. CASE Advance
  BY <1>14, StoreKept DEF Advance, StoreInv, Received, AtCursor
<1>15. CASE UNCHANGED vars
  BY <1>15, StoreKept DEF vars, StoreInv, Received, AtCursor
<1> QED
  BY <1>1, <1>2, <1>3, <1>4, <1>5, <1>6, <1>7, <1>8, <1>9, <1>10, <1>11, <1>12, <1>13, <1>14, <1>15
  DEF Next, DemeterWork, OgmiosWork

(***************************************************************************)
(* For every tree of blocks, every order of events, repetitions, cuts and  *)
(* undos: what the store has of a handle is what it has at the cursor's    *)
(* block, with Ogmios until it strays, with Demeter until a rollback       *)
(* leaves or passes over a block that touches the handle.                  *)
(***************************************************************************)
THEOREM StreamStoreCorrect == ASSUME SkipsFirst = FALSE PROVE Spec => []StoreFollowsCursor
<1>1. Init => IInv /\ StoreInv  BY StreamInit, StoreInit
<1>2. IInv /\ StoreInv /\ [Next]_vars => IInv' /\ StoreInv'  BY StreamStep, StoreStep
<1>3. StoreInv => StoreFollowsCursor  BY DEF StoreInv
<1> QED  BY <1>1, <1>2, <1>3, PTL DEF Spec

(* The store of a block, the net effect and the loop are well typed.       *)
LEMMA StoreAtType == \A b \in Blocks : StoreAt(b) \in StoreType
<1> SUFFICES ASSUME NEW b \in Blocks PROVE StoreAt(b) \in StoreType  OBVIOUS
<1>1. Ledger[b] \in Owner  BY LedgerIs
<1>2. {Ledger[b][h] : h \in Handles} \ {NoTx} \subseteq TxIds  BY <1>1 DEF Owner
<1>3. Minted(b) \subseteq Handles  BY DEF Minted
<1> QED  BY <1>1, <1>2, <1>3 DEF StoreAt, StoreType

(* The net effect of any transactions is well typed.                       *)
LEMMA NetEffectType ==
  ASSUME store \in StoreType, NEW txs, txs \subseteq TxIds, NEW ahead
  PROVE  NetEffect(Converted(txs), ahead) \in StoreType
<1> DEFINE S == Converted(txs)
           new(h) == IF h \notin ahead /\ \E t \in Surviving(S) : HandleOf[t] = h
                     THEN CHOOSE t \in Surviving(S) : HandleOf[t] = h
                     ELSE IF h \in BurntBy(S) THEN NoTx ELSE store.record[h]
           m == store.mint \union MintedBy(S)
           u == (store.utxo \union Surviving(S)) \ Spent(S)
<1>1. S \subseteq TxIds /\ Surviving(S) \subseteq TxIds  BY DEF Converted, Surviving, Made
<1>2. store.record \in Owner /\ store.mint \in SUBSET Handles /\ store.utxo \in SUBSET TxIds
  BY DEF StoreType
<1>3. \A h \in Handles : new(h) \in TxIds \union {NoTx}
  <2> SUFFICES ASSUME NEW h \in Handles PROVE new(h) \in TxIds \union {NoTx}  OBVIOUS
  <2>1. store.record[h] \in TxIds \union {NoTx}  BY <1>2 DEF Owner
  <2> HIDE DEF S
  <2> QED  BY <1>1, <2>1
<1>4. m \subseteq Handles
  <2>1. MintedBy(S) \subseteq Handles  BY <1>1, TxTypes DEF MintedBy
  <2> QED  BY <1>2, <2>1
<1>5. u \subseteq TxIds  BY <1>1, <1>2
<1>6. NetEffect(S, ahead) = [record |-> [h \in Handles |-> new(h)], mint |-> m, utxo |-> u]  BY DEF NetEffect
<1> HIDE DEF new, m, u
<1>7. [h \in Handles |-> new(h)] \in Owner  BY <1>3 DEF Owner
<1> QED  BY <1>4, <1>5, <1>6, <1>7 DEF StoreType

(* So is what a repair leaves.                                             *)
LEMMA RepairType ==
  ASSUME store \in StoreType, NEW some, some \subseteq Handles, Repair(some)
  PROVE  store' \in StoreType
<1> DEFINE all == UNION {Answers(g) : g \in some}
<1>1. all \subseteq TxIds \union {NoTx}
  <2> SUFFICES ASSUME NEW g \in some, NEW c \in Blocks PROVE Ledger[c][g] \in TxIds \union {NoTx}
    BY DEF Answers
  <2>1. Ledger[c] \in Owner /\ g \in Handles  BY LedgerIs
  <2> QED  BY <2>1 DEF Owner
<1>2. PICK told \in [some -> all] :
         \E written \in SUBSET {g \in some : told[g] # NoTx},
           stale \in SUBSET {t \in store.utxo : HandleOf[t] \in some},
           lost \in SUBSET (store.mint \intersect some) :
           store' = [record |-> [g \in Handles |-> IF g \in written THEN told[g] ELSE store.record[g]],
                     mint |-> (store.mint \ lost) \union
                                {g \in some : told[g] # NoTx /\ Op[told[g]] = "mint"},
                     utxo |-> (store.utxo \ stale) \union ({told[g] : g \in some} \ {NoTx})]
  BY DEF Repair
<1> HIDE DEF all
<1>3. \A g \in some : told[g] \in TxIds \union {NoTx}  BY <1>1
<1>4. store.record \in Owner /\ store.mint \in SUBSET Handles /\ store.utxo \in SUBSET TxIds
  BY DEF StoreType
<1>5. \A written \in SUBSET {g \in some : told[g] # NoTx} :
         [g \in Handles |-> IF g \in written THEN told[g] ELSE store.record[g]] \in Owner
  BY <1>3, <1>4 DEF Owner
<1>6. \A stale : (store.utxo \ stale) \union ({told[g] : g \in some} \ {NoTx}) \in SUBSET TxIds
  BY <1>3, <1>4
<1>7. \A lost : (store.mint \ lost) \union {g \in some : told[g] # NoTx /\ Op[told[g]] = "mint"} \in SUBSET Handles
  BY <1>4
<1> QED  BY <1>2, <1>5, <1>6, <1>7 DEF StoreType

(* The loop over a block is well typed.                                    *)
LEMMA InOrderType == ASSUME store \in StoreType, NEW b \in Blocks PROVE InOrder(Txs[b]) \in StoreType
<1>1. Len(Txs[b]) \in 0 .. Len(Txs[b])  BY TxTypes
<1>2. PICK f \in [0 .. Len(Txs[b]) -> StoreType] : InOrder(Txs[b]) = f[Len(Txs[b])]  BY InOrderIs
<1> QED  BY <1>1, <1>2

(* The types beyond those of the invariant of the stream.                   *)
MoreTypes ==
    /\ source \in Sources /\ store \in StoreType
    /\ socket.asked \in 0 .. Window + 1
    /\ faults \in 0 .. MaxFaults /\ strayed \in BOOLEAN /\ disturbed \subseteq Handles

(* These types hold at the start.                                          *)
LEMMA MoreTypesInit == Init => MoreTypes
<1>1. Root \in Blocks /\ MaxFaults \in Nat /\ Window \in Nat  BY StreamAssumption
<1> SUFFICES ASSUME Init PROVE MoreTypes  OBVIOUS
<1>2. store \in StoreType
  <2>1. store = StoreAt(Root)  BY DEF Init
  <2>2. StoreAt(Root) \in StoreType  BY <1>1, StoreAtType
  <2> QED  BY <2>1, <2>2
<1>3. socket.asked \in 0 .. Window + 1  BY <1>1 DEF Init, Closed
<1>4. source \in Sources /\ faults = 0 /\ strayed \in BOOLEAN /\ disturbed = {}  BY DEF Init
<1>5. faults \in 0 .. MaxFaults  BY <1>1, <1>4
<1> QED  BY <1>2, <1>3, <1>4, <1>5 DEF MoreTypes

(* Every step keeps them.                                                  *)
LEMMA MoreTypesStep == ASSUME IInv, MoreTypes, [Next]_vars PROVE MoreTypes'
<1>0. MaxFaults \in Nat /\ Window \in Nat /\ job.got \subseteq TxIds  BY StreamAssumption DEF IInv, JobType
<1>1. source' \in Sources
  <2>1. source' = source
    BY DEF Next, vars, DemeterWork, OgmiosWork, CatchUp, CatchUpOrphaned, Watch, Event, Undo, Cancelled,
      Classify, Rollback, Repeated, Skipping, Broken, ClassifyFails, Connect, RollForward, RollBackward,
      Malformed, Exit, Lost, Advance
  <2> QED  BY <2>1 DEF MoreTypes
<1>2. faults' \in 0 .. MaxFaults
  <2>1. faults' = faults \/ Fault
    BY DEF Next, vars, DemeterWork, OgmiosWork, CatchUp, CatchUpOrphaned, Watch, Event, Undo, Cancelled,
      Classify, Rollback, Repeated, Skipping, Broken, ClassifyFails, Connect, RollForward, RollBackward,
      Malformed, Exit, Lost, Advance
  <2> QED  BY <1>0, <2>1 DEF MoreTypes, Fault
<1>3. strayed' \in BOOLEAN
  <2>1. strayed' = strayed \/ strayed' = TRUE \/ (\E B \in BOOLEAN : strayed' = (strayed \/ B))
    <3>1. CASE Connect \/ RollForward \/ RollBackward
      BY <3>1 DEF Connect, RollForward, RollBackward
    <3>2. CASE ~(Connect \/ RollForward \/ RollBackward)
      BY <3>2 DEF Next, vars, DemeterWork, OgmiosWork, CatchUp, CatchUpOrphaned, Watch, Event, Undo, Cancelled,
        Classify, Rollback, Repeated, Skipping, Broken, ClassifyFails, Malformed, Exit, Lost, Advance
    <3> QED  BY <3>1, <3>2
  <2> QED  BY <2>1 DEF MoreTypes
<1>4. socket'.asked \in 0 .. Window + 1
  <2>1. socket \in SocketType  BY DEF IInv
  <2>2. CASE Connect
    <3>1. socket'.asked = Window + 1  BY <2>2 DEF Connect
    <3> QED  BY <1>0, <3>1
  <2>3. CASE RollForward \/ RollBackward \/ Lost
    <3>1. socket'.asked = socket.asked
      BY <2>1, <2>3 DEF RollForward, RollBackward, Lost, Answered, SocketType
    <3> QED  BY <3>1 DEF MoreTypes
  <2>4. CASE Malformed \/ Exit
    <3>1. socket'.asked = 0  BY <2>4 DEF Malformed, Exit, Closed
    <3> QED  BY <1>0, <3>1
  <2>5. CASE ~(Connect \/ RollForward \/ RollBackward \/ Lost \/ Malformed \/ Exit)
    <3>1. socket' = socket
      BY <2>5 DEF Next, vars, DemeterWork, OgmiosWork, CatchUp, CatchUpOrphaned, Watch, Event, Undo, Cancelled,
        Classify, Rollback, Repeated, Skipping, Broken, ClassifyFails, Advance
    <3> QED  BY <3>1 DEF MoreTypes
  <2> QED  BY <2>2, <2>3, <2>4, <2>5
<1>6. disturbed' \subseteq Handles
  <2>1. disturbed' = disturbed \/ \E b : disturbed' = disturbed \union TouchedIn(Between(b))
    BY DEF Next, vars, DemeterWork, OgmiosWork, CatchUp, CatchUpOrphaned, Watch, Event, Undo, Cancelled,
      Classify, Rollback, Repeated, Skipping, Broken, ClassifyFails, Connect, RollForward, RollBackward,
      Malformed, Exit, Lost, Advance
  <2> QED  BY <2>1 DEF MoreTypes, TouchedIn
<1>5. store' \in StoreType
  <2>0. store \in StoreType  BY DEF MoreTypes
  <2>1. CASE CatchUp
    <3>1. PICK b \in Blocks : TakeIn(Converted(ToSet(Txs[b])))
      BY <2>1, Tree DEF CatchUp, Canonical, IInv
    <3>2. ToSet(Txs[b]) \subseteq TxIds  BY Members
    <3> QED  BY <2>0, <3>1, <3>2, NetEffectType DEF TakeIn
  <2>2. CASE Event \/ Skipping
    <3>1. store' = store \/ TakeIn(Converted(job.got))
      BY <2>2 DEF Event, Skipping, Receive, SameBlock, NewBlock, Completed
    <3> QED  BY <1>0, <2>0, <3>1, NetEffectType DEF TakeIn
  <2>3. CASE Rollback
    <3>1. Repair(disturbed') /\ disturbed' \subseteq Handles  BY <1>6, <2>3 DEF Rollback
    <3> QED  BY <2>0, <3>1, RepairType
  <2>4. CASE RollForward
    <3>1. PICK b \in Blocks : store' = store \/ store' = InOrder(Txs[b])
      BY <2>4, Tree DEF RollForward, Canonical, IInv
    <3> QED  BY <2>0, <3>1, InOrderType
  <2>5. CASE ~(CatchUp \/ Event \/ Skipping \/ Rollback \/ RollForward)
    <3>1. store' = store
      BY <2>5 DEF Next, vars, DemeterWork, OgmiosWork, CatchUpOrphaned, Watch, Undo, Cancelled, Repeated,
        Classify, Broken, ClassifyFails, Connect, RollBackward, Malformed, Exit, Lost, Advance
    <3> QED  BY <2>0, <3>1
  <2> QED  BY <2>1, <2>2, <2>3, <2>4, <2>5
<1> QED  BY <1>1, <1>2, <1>3, <1>4, <1>5, <1>6 DEF MoreTypes

(* Every reachable state of both sources is well typed.                    *)
THEOREM StreamTypeCorrect == ASSUME SkipsFirst = FALSE PROVE Spec => []TypeOK
<1>1. Init => IInv /\ MoreTypes  BY StreamInit, MoreTypesInit
<1>2. IInv /\ MoreTypes /\ [Next]_vars => IInv' /\ MoreTypes'  BY StreamStep, MoreTypesStep
<1>3. IInv /\ MoreTypes => TypeOK
  BY DEF IInv, MoreTypes, TypeOK, StoreType, Owner, JobType, SocketType
<1> QED  BY <1>1, <1>2, <1>3, PTL DEF Spec
=============================================================================
