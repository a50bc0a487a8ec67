------------------------- MODULE HandleIndexProofs -------------------------
(***************************************************************************)
(* Proofs about HandleIndex for every set of names, addresses, holders and *)
(* tokens and for every bound.  First what every state keeps: the indexes  *)
(* agree with the records.  Then what a committed block leaves behind: the *)
(* UTXO index, the records and their companion fields agree with the chain *)
(* (UtxosCorrect, HandlesCorrect, CompanionsCorrect).  Those hold between  *)
(* blocks only, so their inductive invariants say what the store may look  *)
(* like in every phase of a pass, the passes replayed after a crash too.   *)
(***************************************************************************)
EXTENDS HandleIndex, FiniteSetTheorems, TLAPS

(* What HANDLE may hold for a name.                                        *)
Entry == Handle \union {NoHandle}

(* A set of names is finite, and its size is a number.                     *)
LEMMA NamesFinite ==
    ASSUME NEW S \in SUBSET Name
    PROVE  IsFiniteSet(S) /\ Cardinality(S) \in Nat
BY FS_Subset, FS_CardinalityType, HandleIndexAssumption

(* Each label takes a record, or none, to a record or none, keeps a record *)
(* a record, and every label but 100 makes one.                            *)
LEMMA AfterType ==
    ASSUME NEW u \in UTxO, NEW n \in Name, NEW h \in Entry
    PROVE  /\ Read(h, u) \in Handle
           /\ After000(h, n, u) \in Entry
           /\ After001(h, n, u) \in Entry
           /\ After100(h, n, u) \in Entry
           /\ After222(h, n, u) \in Entry
           /\ h # NoHandle => /\ After000(h, n, u) # NoHandle
                              /\ After001(h, n, u) # NoHandle
                              /\ After100(h, n, u) # NoHandle
                              /\ After222(h, n, u) # NoHandle
           /\ <<n, "000">> \in u.assets => After000(h, n, u) # NoHandle
           /\ <<n, "001">> \in u.assets => After001(h, n, u) # NoHandle
           /\ <<n, "222">> \in u.assets => After222(h, n, u) # NoHandle
<1>1. Read(h, u) \in Handle
  BY DEF Read, Built, Entry, Handle, UTxO, AnyAddr
<1>2. NoHandle \notin Handle
  BY HandleIndexAssumption
<1>3. /\ After000(h, n, u) \in Entry
      /\ h # NoHandle => After000(h, n, u) # NoHandle
      /\ <<n, "000">> \in u.assets => After000(h, n, u) # NoHandle
  BY <1>1, <1>2 DEF After000, Entry, Handle, UTxO, AnyAddr
<1>4. /\ After001(h, n, u) \in Entry
      /\ h # NoHandle => After001(h, n, u) # NoHandle
      /\ <<n, "001">> \in u.assets => After001(h, n, u) # NoHandle
  <2> DEFINE e == Read(h, u)
             f == [e EXCEPT !.labels = @ \union {"001"},
                            !.slot = IF u.slot >= @ /\ u.datum # NoDatum THEN u.slot ELSE @]
  <2>1. f \in Handle
    <3>1. e \in Handle /\ u.slot \in Nat
      BY <1>1 DEF UTxO
    <3> HIDE DEF e
    <3>2. e.labels \union {"001"} \in SUBSET Tracked
      BY <3>1 DEF Handle, Tracked
    <3> QED
      BY <3>1, <3>2 DEF Handle
  <2>2. After001(h, n, u) = IF <<n, "001">> \notin u.assets THEN h ELSE f
    BY DEF After001
  <2> QED
    BY <1>2, <2>1, <2>2 DEF Entry
<1>5. /\ After100(h, n, u) \in Entry
      /\ h # NoHandle => After100(h, n, u) # NoHandle
  BY <1>1, <1>2 DEF After100, Entry, Handle, UTxO, AnyAddr
<1>6. /\ After222(h, n, u) \in Entry
      /\ h # NoHandle => After222(h, n, u) # NoHandle
      /\ <<n, "222">> \in u.assets => After222(h, n, u) # NoHandle
  <2> DEFINE e == Read(h, u)
             f == [e EXCEPT !.addr = u.addr, !.utxo = u.id, !.slot = u.slot,
                            !.amount = IF DoubleMint(h, n, u) THEN @ + 1 ELSE @]
  <2>1. f \in Handle
    <3>1. e \in Handle /\ u.slot \in Nat /\ u.id \in Nat /\ u.addr \in AnyAddr
      BY <1>1 DEF UTxO, AnyAddr
    <3>2. PICK m : m = IF DoubleMint(h, n, u) THEN e.amount + 1 ELSE e.amount
      OBVIOUS
    <3>3. f = [e EXCEPT !.addr = u.addr, !.utxo = u.id, !.slot = u.slot, !.amount = m]
      BY <3>2
    <3> HIDE DEF e, f
    <3>4. m \in Nat
      BY <3>1, <3>2 DEF Handle
    <3> QED
      BY <3>1, <3>3, <3>4 DEF Handle
  <2>2. After222(h, n, u) = IF <<n, "222">> \notin u.assets THEN h
                            ELSE IF u.slot >= e.slot \/ e.utxo = NoUtxo THEN f ELSE e
    BY DEF After222
  <2> QED
    BY <1>1, <1>2, <2>1, <2>2 DEF Entry
<1> QED
  BY <1>1, <1>3, <1>4, <1>5, <1>6

(* What updateHandleIndexes makes of a record is a record for every name   *)
(* it saves.                                                               *)
LEMMA IndexedType ==
    ASSUME TypeOK, NEW u \in UTxO, NEW n \in Saved(u)
    PROVE  n \in Name /\ Indexed(n, u) \in Handle
<1>1. n \in Name
  BY HandleIndexAssumption DEF Saved, NamesOf, UTxO
<1>2. handle[n] \in Entry
  BY <1>1 DEF TypeOK, Entry
<1>3. PICK h1 : h1 = After000(handle[n], n, u)
  OBVIOUS
<1>4. PICK h2 : h2 = After001(h1, n, u)
  OBVIOUS
<1>5. PICK h3 : h3 = After100(h2, n, u)
  OBVIOUS
<1>6. h1 \in Entry /\ (handle[n] # NoHandle \/ <<n, "000">> \in u.assets => h1 # NoHandle)
  BY <1>1, <1>2, <1>3, AfterType
<1>7. h2 \in Entry /\ (h1 # NoHandle \/ <<n, "001">> \in u.assets => h2 # NoHandle)
  BY <1>1, <1>4, <1>6, AfterType
<1>8. h3 \in Entry /\ (h2 # NoHandle => h3 # NoHandle)
  BY <1>1, <1>5, <1>7, AfterType
<1>9. Indexed(n, u) = After222(h3, n, u)
  BY <1>3, <1>4, <1>5 DEF Indexed
<1>10. /\ Indexed(n, u) \in Entry
       /\ h3 # NoHandle \/ <<n, "222">> \in u.assets => Indexed(n, u) # NoHandle
  BY <1>1, <1>8, <1>9, AfterType
<1>11. \/ <<n, "222">> \in u.assets \/ <<n, "000">> \in u.assets \/ <<n, "001">> \in u.assets
       \/ Indexed(n, u) # NoHandle
       \/ handle[n] # NoHandle
  BY DEF Saved, Main, Tracked, Stored
<1> QED
  BY <1>1, <1>6, <1>7, <1>8, <1>10, <1>11 DEF Entry

(* The outputs of the block are outputs.                                   *)
LEMMA BlockOutsType ==
    ASSUME TypeOK
    PROVE  /\ BlockOuts \subseteq UTxO
           /\ MintedInBlock \subseteq Name
<1>1. \A t \in Txs : t.outs \subseteq UTxO
  <2> TAKE t \in Txs
  <2>1. PICK i \in DOMAIN block : t = block[i]
    BY DEF Txs
  <2>2. t \in Tx
    BY <2>1 DEF TypeOK
  <2> QED
    BY <2>2 DEF Tx
<1>2. BlockOuts \subseteq UTxO
  BY <1>1 DEF BlockOuts
<1> QED
  BY <1>2 DEF MintedInBlock, UTxO

(* Every address names a holder.                                           *)
LEMMA HolderType ==
    ASSUME NEW h \in Handle
    PROVE  HolderOfHandle(h) \in Holder
BY HandleIndexAssumption DEF HolderOfHandle, Handle

-----------------------------------------------------------------------------
(* Burnt names are names.                                                  *)
LEMMA BurnedInType ==
    ASSUME TypeOK, NEW labels
    PROVE  BurnedIn(labels) \subseteq Name
<1>1. \A t \in Txs : t.burned \subseteq Asset
  <2> TAKE t \in Txs
  <2>1. PICK i \in DOMAIN block : t = block[i]
    BY DEF Txs
  <2>2. t \in Tx
    BY <2>1 DEF TypeOK
  <2> QED
    BY <2>2 DEF Tx
<1>2. \A a \in Asset : a[1] \in Name
  BY HandleIndexAssumption
<1> QED
  BY <1>1, <1>2 DEF BurnedIn

(* A transaction the chain appends is a transaction.                       *)
LEMMA AppendTxType ==
    ASSUME TypeOK, AppendTx
    PROVE  TypeOK'
<1>1. PICK ins \in SUBSET ledger :
        \E burned \in SUBSET Assets(ins), minted \in SUBSET (Asset \ Assets(ledger)) :
          /\ ins # {} \/ minted # {}
          /\ LET live == Carried(ledger, burned, minted)
             IN Orphans \/ \A a \in live : HasMain(a[1], live)
          /\ \E first \in SUBSET Carried(ins, burned, minted) :
             \E rest \in {Carried(ins, burned, minted) \ first} :
             /\ first = {} => rest = {}
             /\ Packed(first) /\ Packed(rest)
             /\ \E a1, a2 \in Addr :
                /\ rest = {} => a2 = a1
                /\ \E d1 \in Datums(first, a1), d2 \in Datums(rest, a2) :
                      Submit(ins, burned, Outputs(first, rest, a1, a2, d1, d2, minted))
  BY Zenon DEF AppendTx
<1>2. PICK burned \in SUBSET Assets(ins), minted \in SUBSET (Asset \ Assets(ledger)) :
        \E first \in SUBSET Carried(ins, burned, minted) :
        \E rest \in {Carried(ins, burned, minted) \ first} :
             /\ first = {} => rest = {}
             /\ Packed(first) /\ Packed(rest)
             /\ \E a1, a2 \in Addr :
                /\ rest = {} => a2 = a1
                /\ \E d1 \in Datums(first, a1), d2 \in Datums(rest, a2) :
                      Submit(ins, burned, Outputs(first, rest, a1, a2, d1, d2, minted))
  BY <1>1, Zenon
<1>3. PICK first \in SUBSET Carried(ins, burned, minted),
           rest \in SUBSET Carried(ins, burned, minted) :
        \E a1, a2 \in Addr :
          /\ rest = {} => a2 = a1
          /\ \E d1 \in Datums(first, a1), d2 \in Datums(rest, a2) :
                Submit(ins, burned, Outputs(first, rest, a1, a2, d1, d2, minted))
  BY <1>2
<1>4. PICK a1 \in Addr, a2 \in Addr :
        \E d1 \in Datums(first, a1), d2 \in Datums(rest, a2) :
            Submit(ins, burned, Outputs(first, rest, a1, a2, d1, d2, minted))
  BY <1>3
<1>6. PICK d1 \in Datums(first, a1), d2 \in Datums(rest, a2) :
            Submit(ins, burned, Outputs(first, rest, a1, a2, d1, d2, minted))
  BY <1>4
<1>7. ins \subseteq UTxO /\ Assets(ins) \subseteq Asset
  BY DEF TypeOK, Assets, UTxO
<1>8. burned \in SUBSET Asset /\ first \in SUBSET Asset /\ rest \in SUBSET Asset
  BY <1>7 DEF Carried
<1>9. d1 \in Addr \union {NoDatum} /\ d2 \in Addr \union {NoDatum}
  BY DEF Datums
<1>10. nextId \in Nat /\ nextId + 1 \in Nat /\ currentSlot + 1 \in Nat
  BY DEF TypeOK
<1>11. Output(nextId, first, a1, d1, minted) \in UTxO
  BY <1>8, <1>9, <1>10 DEF Output, UTxO
<1>12. Output(nextId + 1, rest, a2, d2, minted) \in UTxO
  BY <1>8, <1>9, <1>10 DEF Output, UTxO
<1>13. PICK outs \in SUBSET UTxO : Submit(ins, burned, outs)
  BY <1>6, <1>11, <1>12 DEF Outputs
<1>14. [inputs |-> ins, outs |-> outs, burned |-> burned] \in Tx
  BY <1>7, <1>8 DEF Tx
<1>15. ledger' \subseteq UTxO /\ block' \in Seq(Tx)
  BY <1>13, <1>14 DEF TypeOK, Submit
<1>16. nextId' \in Nat
  BY DEF AppendTx, TypeOK
<1> QED
  BY <1>15, <1>16 DEF AppendTx, TypeOK, index, derived

(* The burn pipeline leaves well-typed indexes.                            *)
LEMMA BurnHandlesType ==
    ASSUME TypeOK, BurnHandles
    PROVE  TypeOK'
<1>1. handle' \in [Name -> Handle \union {NoHandle}]
  <2>1. ASSUME NEW n \in Fewer
        PROVE  [handle[n] EXCEPT !.amount = @ - 1] \in Handle
    <3>1. handle[n] \in Handle /\ handle[n].amount - 1 > 0
      BY BurnedInType DEF Fewer, TypeOK, Stored
    <3>2. handle[n].amount \in Nat /\ handle[n].amount - 1 \in Nat
      BY <3>1 DEF Handle
    <3> QED
      BY <3>1, <3>2 DEF Handle
  <2> QED
    BY <2>1 DEF BurnHandles, TypeOK
<1>2. holderCount' \in [Holder -> Nat]
  <2>1. \A h \in Holder : LeftAfterBurn(h) \in Int
    <3> TAKE h \in Holder
    <3>1. holderSet[h] \in SUBSET Name /\ {n \in Gone : HolderOfHandle(handle[n]) = h} \in SUBSET Name
      BY BurnedInType DEF TypeOK, Gone
    <3> QED
      BY <3>1, NamesFinite DEF LeftAfterBurn
  <2> QED
    BY <2>1 DEF BurnHandles, TypeOK
<1>3. /\ holderSet' \in [Holder -> SUBSET Name]
      /\ holderRoot' \subseteq Holder
      /\ addrSet' \in [AnyAddr -> SUBSET Name]
      /\ subSet' \in [Root -> SUBSET Name]
      /\ subRoot' \subseteq Root
      /\ registry' \in [Name -> SUBSET Tracked]
  BY DEF BurnHandles, TypeOK, SubHandlesAfterBurn, RegistryAfterBurn
<1> QED
  BY <1>1, <1>2, <1>3 DEF BurnHandles, TypeOK, chain, Steps

(* Indexing an output of the block leaves well-typed indexes.              *)
LEMMA IndexOutputType ==
    ASSUME TypeOK, NEW u \in UTxO, IndexOutput(u)
    PROVE  /\ handle' \in [Name -> Handle \union {NoHandle}]
           /\ holderSet' \in [Holder -> SUBSET Name]
           /\ holderRoot' \subseteq Holder
           /\ holderCount' \in [Holder -> Nat]
           /\ addrSet' \in [AnyAddr -> SUBSET Name]
           /\ subSet' \in [Root -> SUBSET Name]
           /\ subRoot' \subseteq Root
           /\ registry' \in [Name -> SUBSET Tracked]
           /\ utxos' \subseteq Nat
           /\ mints' = mints
<1>1. Saved(u) \subseteq Name /\ \A n \in Saved(u) : Indexed(n, u) \in Handle
  BY IndexedType
<1>2. After(u) \in [Name -> Handle \union {NoHandle}]
  BY <1>1 DEF TypeOK, After
<1>3. ASSUME NEW h \in Holder
      PROVE  /\ holderSet[h] \in SUBSET Name
             /\ Joins(u, h) \in SUBSET Name
             /\ Leaves(u, h) \in SUBSET Name
             /\ HolderAfter(u, h) \in SUBSET Name
  BY <1>1 DEF TypeOK, Joins, Leaves, HolderAfter
<1>4. ASSUME NEW h \in Holder
      PROVE  CountAfter(u, h) \in Nat
  <2>1. holderSet[h] \ Leaves(u, h) \in SUBSET Name
    BY <1>3
  <2>2. holderCount[h] \in Nat
    BY DEF TypeOK
  <2> QED
    BY <1>3, <2>1, <2>2, NamesFinite DEF CountAfter
<1>5. /\ holderSet' \in [Holder -> SUBSET Name]
      /\ holderCount' \in [Holder -> Nat]
  BY <1>3, <1>4 DEF IndexOutput
<1>6. addrSet' \in [AnyAddr -> SUBSET Name]
  BY <1>1 DEF IndexOutput, AddressesAfter, TypeOK
<1>7. registry' \in [Name -> SUBSET Tracked]
  <2>1. \A n \in Saved(u) : Indexed(n, u).labels \in SUBSET Tracked
    BY <1>1 DEF Handle
  <2> QED
    BY <2>1 DEF IndexOutput, Relabelled, TypeOK
<1> QED
  BY <1>1, <1>2, <1>5, <1>6, <1>7 DEF IndexOutput, TypeOK, UTxO

(* TypeOK is an invariant: every index keeps its shape through every       *)
(* pipeline of a block, a crash and a replay.                              *)
THEOREM TypeCorrect == Spec => []TypeOK
<1>1. Init => TypeOK
  BY DEF Init, TypeOK, Steps
<1>2. ASSUME TypeOK, [Next]_vars
      PROVE  TypeOK'
  <2>1. CASE AppendTx
    BY <2>1, <1>2, AppendTxType
  <2>2. CASE StartBlock
    BY <2>2, <1>2 DEF StartBlock, TypeOK, Steps, chain, index, derived
  <2>3. CASE BurnHandles
    BY <2>3, <1>2, BurnHandlesType
  <2>4. CASE BurnLabels
    BY <2>4, <1>2 DEF BurnLabels, TypeOK, Steps, chain, index, derived
  <2>5. CASE AddMintData
    BY <2>5, <1>2, BlockOutsType DEF AddMintData, TypeOK, Steps, chain, derived
  <2>6. CASE AddOutput
    <3>1. PICK u \in todo : IndexOutput(u) /\ todo' = todo \ {u}
      BY <2>6 DEF AddOutput
    <3>2. u \in UTxO
      BY <1>2 DEF TypeOK
    <3>3. /\ handle' \in [Name -> Handle \union {NoHandle}]
          /\ holderSet' \in [Holder -> SUBSET Name]
          /\ holderRoot' \subseteq Holder
          /\ holderCount' \in [Holder -> Nat]
          /\ addrSet' \in [AnyAddr -> SUBSET Name]
          /\ subSet' \in [Root -> SUBSET Name]
          /\ subRoot' \subseteq Root
          /\ registry' \in [Name -> SUBSET Tracked]
          /\ utxos' \subseteq Nat
          /\ mints' = mints
      BY <1>2, <3>1, <3>2, IndexOutputType
    <3>4. UNCHANGED <<chain, block, pc, crashes, currentSlot, scanned>>
      BY <2>6 DEF AddOutput
    <3> QED
      BY <1>2, <3>1, <3>3, <3>4 DEF TypeOK, chain
  <2>7. CASE MintDataMissing
    BY <2>7, <1>2 DEF MintDataMissing, TypeOK, Steps, chain, index, derived
  <2>8. CASE OutputsDone
    BY <2>8, <1>2 DEF OutputsDone, TypeOK, Steps, chain, index, derived
  <2>9. CASE RemoveSpent
    BY <2>9, <1>2 DEF RemoveSpent, TypeOK, Steps, chain, derived
  <2>10. CASE CommitCursor
    BY <2>10, <1>2 DEF CommitCursor, TypeOK, Steps, chain, index, derived
  <2>11. CASE RecordScanned
    BY <2>11, <1>2 DEF RecordScanned, TypeOK, Steps, chain, index, derived
  <2>12. CASE Crash
    BY <2>12, <1>2 DEF Crash, TypeOK, Steps, chain, index, derived
  <2>13. CASE UNCHANGED vars
    BY <2>13, <1>2 DEF vars, TypeOK, chain, index, derived
  <2> QED
    BY <1>2, <2>1, <2>2, <2>3, <2>4, <2>5, <2>6, <2>7, <2>8, <2>9, <2>10, <2>11, <2>12, <2>13
       DEF Next, ScanStep, Finished
<1> QED
  BY <1>1, <1>2, PTL DEF Spec

-----------------------------------------------------------------------------
(***************************************************************************)
(* The indexes agree with the records.                                     *)
(***************************************************************************)
IndexInv ==
    /\ TypeOK
    /\ HolderSetsMatch
    /\ AddressSetsMatch
    /\ SubHandleSetsMatch
    /\ RootsCover
    /\ RegistryMirrorsHandle

(* Two sets of names, one within the other and no smaller, are equal.      *)
LEMMA SameSize ==
    ASSUME NEW S \in SUBSET Name, NEW T \in SUBSET S,
           Cardinality(S) - Cardinality(T) <= 0
    PROVE  S = T
BY NamesFinite, FS_Subset

(* A set of names with at most one member has no other.                    *)
LEMMA AtMostOne ==
    ASSUME NEW S \in SUBSET Name, Cardinality(S) <= 1, NEW n \in S
    PROVE  S = {n}
<1>1. IsFiniteSet(S) /\ Cardinality(S) \in Nat
  BY NamesFinite
<1>2. Cardinality({n}) = 1 /\ {n} \in SUBSET S
  BY FS_Singleton
<1> QED
  BY <1>1, <1>2, FS_Subset

(* What is left of a set of names when some of them go.                    *)
LEMMA Remaining ==
    ASSUME NEW S \in SUBSET Name, NEW T \in SUBSET S
    PROVE  Cardinality(S \ T) = Cardinality(S) - Cardinality(T)
<1>1. IsFiniteSet(S) /\ IsFiniteSet(T)
  BY NamesFinite
<1>2. S \cap T = T
  OBVIOUS
<1> QED
  BY <1>1, <1>2, FS_Difference

(* The burn pipeline takes from each holder the names it burns, no more    *)
(* and no fewer.                                                           *)
LEMMA BurnHandlesHolders ==
    ASSUME IndexInv, BurnHandles, NEW h \in Holder
    PROVE  LET G == {n \in Gone : HolderOfHandle(handle[n]) = h}
           IN /\ G \in SUBSET holderSet[h]
              /\ holderSet[h] \in SUBSET Name
              /\ holderSet'[h] = holderSet[h] \ G
<1> DEFINE G == {n \in Gone : HolderOfHandle(handle[n]) = h}
<1>1. G \in SUBSET holderSet[h]
  BY BurnedInType DEF IndexInv, HolderSetsMatch, Gone
<1>2. holderSet[h] \in SUBSET Name
  BY DEF IndexInv, TypeOK
<1>3. LeftAfterBurn(h) <= 0 => holderSet[h] = G
  BY <1>1, <1>2, SameSize DEF LeftAfterBurn
<1>4. holderSet'[h] = IF (\E n \in Gone : HolderOfHandle(handle[n]) = h) /\ LeftAfterBurn(h) <= 0
                      THEN {} ELSE holderSet[h] \ G
  BY DEF BurnHandles
<1> QED
  BY <1>1, <1>2, <1>3, <1>4

(* The burn pipeline keeps the indexes in step with the records.           *)
LEMMA BurnHandlesInv ==
    ASSUME IndexInv, BurnHandles
    PROVE  IndexInv'
<1>1. TypeOK /\ Gone \subseteq Name /\ Fewer \subseteq Name
  BY BurnedInType DEF IndexInv, Gone, Fewer
<1>2. TypeOK'
  BY <1>1, BurnHandlesType
<1>3. ASSUME NEW n \in Name
      PROVE  /\ Stored(n)' <=> Stored(n) /\ n \notin Gone
             /\ Stored(n)' => /\ handle'[n].addr = handle[n].addr
                              /\ handle'[n].labels = handle[n].labels
  <2>1. CASE n \in Gone
    BY <2>1, <1>1 DEF BurnHandles, Stored
  <2>2. CASE n \in Fewer /\ n \notin Gone
    <3>1. handle'[n] = [handle[n] EXCEPT !.amount = @ - 1] /\ Stored(n)
      BY <2>2, <1>1 DEF BurnHandles, Fewer
    <3>2. handle[n] \in Handle /\ handle[n].amount - 1 > 0
      BY <2>2, <3>1, <1>1 DEF TypeOK, Stored, Fewer
    <3>3. handle'[n] \in Handle
      <4>1. handle[n].amount \in Nat
        BY <3>2 DEF Handle
      <4>2. handle[n].amount - 1 \in Nat
        BY <3>2, <4>1
      <4> QED
        BY <3>1, <3>2, <4>2 DEF Handle
    <3>4. handle'[n].addr = handle[n].addr /\ handle'[n].labels = handle[n].labels
      BY <3>1, <3>2 DEF Handle
    <3> QED
      BY <2>2, <3>1, <3>3, <3>4, HandleIndexAssumption DEF Stored
  <2>3. CASE n \notin Gone /\ n \notin Fewer
    BY <2>3 DEF BurnHandles, Stored, TypeOK
  <2> QED
    BY <2>1, <2>2, <2>3
<1>4. HolderSetsMatch'
  <2> SUFFICES ASSUME NEW h \in Holder
               PROVE  holderSet'[h] = {n \in Name : Stored(n)' /\ HolderOfHandle(handle'[n]) = h}
    BY DEF HolderSetsMatch
  <2>1. holderSet'[h] = holderSet[h] \ {n \in Gone : HolderOfHandle(handle[n]) = h}
    BY BurnHandlesHolders
  <2>2. holderSet[h] = {n \in Name : Stored(n) /\ HolderOfHandle(handle[n]) = h}
    BY DEF IndexInv, HolderSetsMatch
  <2> QED
    BY <1>3, <2>1, <2>2 DEF HolderOfHandle
<1>5. AddressSetsMatch'
  <2>1. \A a \in AnyAddr : addrSet'[a] = addrSet[a] \ {n \in Gone : handle[n].addr = a}
    BY DEF BurnHandles
  <2> QED
    BY <1>3, <2>1 DEF IndexInv, AddressSetsMatch
<1>6. SubHandleSetsMatch'
  <2>1. \A r \in Root : subSet'[r] = subSet[r] \ {n \in Gone : RootOf[n] = r}
    BY DEF BurnHandles, SubHandlesAfterBurn
  <2> QED
    BY <1>3, <2>1 DEF IndexInv, SubHandleSetsMatch
<1>7. RegistryMirrorsHandle'
  <2>1. \A n \in Name : registry'[n] = IF n \in Gone THEN {} ELSE registry[n]
    BY DEF BurnHandles, RegistryAfterBurn
  <2> QED
    BY <1>3, <2>1 DEF IndexInv, RegistryMirrorsHandle
<1>8. RootsCover'
  <2>1. ASSUME NEW h \in Holder, holderSet'[h] # {}
        PROVE  h \in holderRoot'
    <3> DEFINE G == {n \in Gone : HolderOfHandle(handle[n]) = h}
    <3>1. holderSet'[h] = holderSet[h] \ G /\ G \in SUBSET holderSet[h] /\ holderSet[h] \in SUBSET Name
      BY BurnHandlesHolders
    <3>2. h \in holderRoot
      BY <2>1, <3>1 DEF IndexInv, RootsCover
    <3>3. ASSUME DropsKey(holderSet, h), NEW n \in G
          PROVE  FALSE
      BY <2>1, <3>1, <3>3, AtMostOne DEF DropsKey
    <3> QED
      BY <3>2, <3>3 DEF BurnHandles
  <2>2. ASSUME NEW r \in Root, subSet'[r] # {}
        PROVE  r \in subRoot'
    <3> DEFINE G == {n \in Gone : RootOf[n] = r}
    <3>1. subSet'[r] = subSet[r] \ G
      BY DEF BurnHandles, SubHandlesAfterBurn
    <3>2. G \in SUBSET subSet[r] /\ subSet[r] \in SUBSET Name
      BY <1>1 DEF Gone, IndexInv, SubHandleSetsMatch
    <3>3. r \in subRoot
      BY <2>2, <3>1 DEF IndexInv, RootsCover
    <3>4. ASSUME DropsKey(subSet, r), NEW n \in G
          PROVE  FALSE
      BY <2>2, <3>1, <3>2, <3>4, AtMostOne DEF DropsKey
    <3> QED
      BY <3>3, <3>4 DEF BurnHandles
  <2> QED
    BY <2>1, <2>2 DEF RootsCover
<1> QED
  BY <1>2, <1>4, <1>5, <1>6, <1>7, <1>8 DEF IndexInv

(* Indexing one output keeps the indexes in step with the records.         *)
LEMMA IndexOutputInv ==
    ASSUME IndexInv, NEW u \in UTxO, IndexOutput(u), TypeOK'
    PROVE  IndexInv'
<1>1. Saved(u) \subseteq Name /\ \A n \in Saved(u) : Indexed(n, u) \in Handle
  BY IndexedType DEF IndexInv
<1>2. ASSUME NEW n \in Name
      PROVE  /\ Stored(n)' <=> Stored(n) \/ n \in Saved(u)
             /\ handle'[n] = IF n \in Saved(u) THEN Indexed(n, u) ELSE handle[n]
  BY <1>1, HandleIndexAssumption DEF IndexOutput, After, Stored
<1>3. HolderSetsMatch'
  <2> SUFFICES ASSUME NEW h \in Holder
               PROVE  holderSet'[h] = {n \in Name : Stored(n)' /\ HolderOfHandle(handle'[n]) = h}
    BY DEF HolderSetsMatch
  <2>1. holderSet'[h] = (holderSet[h] \union Joins(u, h)) \ Leaves(u, h)
    BY DEF IndexOutput, HolderAfter
  <2>2. holderSet[h] = {n \in Name : Stored(n) /\ HolderOfHandle(handle[n]) = h}
    BY DEF IndexInv, HolderSetsMatch
  <2> QED
    BY <1>1, <1>2, <2>1, <2>2 DEF Joins, Leaves
<1>4. AddressSetsMatch'
  <2>1. \A a \in AnyAddr : addrSet'[a] =
            (addrSet[a] \ {n \in Saved(u) : Stored(n) /\ handle[n].addr = a})
                \union {n \in Saved(u) : Indexed(n, u).addr = a}
    BY DEF IndexOutput, AddressesAfter
  <2> QED
    BY <1>1, <1>2, <2>1 DEF IndexInv, AddressSetsMatch
<1>5. SubHandleSetsMatch'
  <2>1. \A r \in Root : subSet'[r] = subSet[r] \union {n \in Saved(u) : RootOf[n] = r}
    BY DEF IndexOutput
  <2> QED
    BY <1>1, <1>2, <2>1 DEF IndexInv, SubHandleSetsMatch
<1>6. RegistryMirrorsHandle'
  <2> SUFFICES ASSUME NEW n \in Name
               PROVE  registry'[n] = IF Stored(n)' THEN handle'[n].labels ELSE {}
    BY DEF RegistryMirrorsHandle
  <2>1. registry[n] = IF Stored(n) THEN handle[n].labels ELSE {}
    BY DEF IndexInv, RegistryMirrorsHandle
  <2>2. registry'[n] = IF n \in Relabelled(u) THEN Indexed(n, u).labels ELSE registry[n]
    BY DEF IndexOutput
  <2> QED
    BY <1>2, <2>1, <2>2 DEF Relabelled
<1>7. RootsCover'
  <2>1. ASSUME NEW h \in Holder, holderSet'[h] # {}
        PROVE  h \in holderRoot'
    <3>1. holderSet'[h] = (holderSet[h] \union Joins(u, h)) \ Leaves(u, h)
      BY DEF IndexOutput, HolderAfter
    <3>2. holderRoot' = (holderRoot \ {g \in Holder : Leaves(u, g) # {} /\ DropsKey(holderSet, g)})
                           \union {g \in Holder : Joins(u, g) # {}}
      BY DEF IndexOutput
    <3>3. CASE Joins(u, h) # {}
      BY <3>2, <3>3
    <3>4. CASE Joins(u, h) = {}
      <4>1. h \in holderRoot
        BY <2>1, <3>1, <3>4 DEF IndexInv, RootsCover
      <4>2. Leaves(u, h) \in SUBSET holderSet[h] /\ holderSet[h] \in SUBSET Name
        BY <1>1 DEF Leaves, IndexInv, HolderSetsMatch
      <4>3. ASSUME DropsKey(holderSet, h), NEW n \in Leaves(u, h)
            PROVE  FALSE
        BY <2>1, <3>1, <3>4, <4>2, <4>3, AtMostOne DEF DropsKey
      <4> QED
        BY <3>2, <4>1, <4>3
    <3> QED
      BY <3>3, <3>4
  <2>2. ASSUME NEW r \in Root, subSet'[r] # {}
        PROVE  r \in subRoot'
    BY <2>2 DEF IndexOutput, IndexInv, RootsCover
  <2> QED
    BY <2>1, <2>2 DEF RootsCover
<1> QED
  BY <1>3, <1>4, <1>5, <1>6, <1>7 DEF IndexInv

(* No other step touches what IndexInv relates.                            *)
LEMMA IndexInvFrame ==
    ASSUME IndexInv, TypeOK', UNCHANGED <<handle, derived, registry>>
    PROVE  IndexInv'
BY DEF IndexInv, derived, HolderSetsMatch, AddressSetsMatch, SubHandleSetsMatch, RootsCover,
       RegistryMirrorsHandle, Stored

(* The indexes agree with the handle records between any two pipelines.    *)
THEOREM IndexInvariant == Spec => []IndexInv
<1>1. Init => IndexInv
  <2> SUFFICES ASSUME Init PROVE IndexInv
    OBVIOUS
  <2>1. TypeOK
    BY DEF Init, TypeOK, Steps
  <2> QED
    BY <2>1 DEF Init, IndexInv, HolderSetsMatch, AddressSetsMatch, SubHandleSetsMatch,
                RootsCover, RegistryMirrorsHandle, Stored
<1>2. ASSUME IndexInv, TypeOK', [Next]_vars
      PROVE  IndexInv'
  <2>1. CASE BurnHandles
    BY <2>1, <1>2, BurnHandlesInv
  <2>2. CASE AddOutput
    <3>1. PICK u \in todo : IndexOutput(u)
      BY <2>2 DEF AddOutput
    <3>2. u \in UTxO
      BY <1>2 DEF IndexInv, TypeOK
    <3> QED
      BY <1>2, <3>1, <3>2, IndexOutputInv
  <2>3. CASE UNCHANGED <<handle, derived, registry>>
    BY <2>3, <1>2, IndexInvFrame
  <2>4. [Next]_vars => BurnHandles \/ AddOutput \/ UNCHANGED <<handle, derived, registry>>
    BY DEF Next, ScanStep, Finished, AppendTx, StartBlock, BurnLabels, AddMintData, MintDataMissing,
           OutputsDone, RemoveSpent, CommitCursor, RecordScanned, Crash, vars, index
  <2> QED
    BY <1>2, <2>1, <2>2, <2>3, <2>4
<1> QED
  BY <1>1, <1>2, TypeCorrect, PTL DEF Spec

(* HOLDER:<holder> always lists exactly the handles the holder's records   *)
(* name: the reverse list neither collapses nor keeps what has left.       *)
THEOREM HolderSetsCorrect == Spec => []HolderSetsMatch
BY IndexInvariant, PTL DEF IndexInv

(* ADDRESS:<address> always lists exactly the handles that resolve to it.  *)
THEOREM AddressSetsCorrect == Spec => []AddressSetsMatch
BY IndexInvariant, PTL DEF IndexInv

(* SUBHANDLE:<root> always lists exactly the stored subhandles of a root.  *)
THEOREM SubHandleSetsCorrect == Spec => []SubHandleSetsMatch
BY IndexInvariant, PTL DEF IndexInv

(* A holder or root handle in use is never missing from its root set.      *)
THEOREM RootsCorrect == Spec => []RootsCover
BY IndexInvariant, PTL DEF IndexInv

(* The derived label hash always agrees with the records it is cut from.   *)
THEOREM RegistryCorrect == Spec => []RegistryMirrorsHandle
BY IndexInvariant, PTL DEF IndexInv

-----------------------------------------------------------------------------
(***************************************************************************)
(* HOLDER_COUNT, where no virtual subhandle is on the chain: the datum of  *)
(* a 000 token can name a holder whose set updateHolder has not read.      *)
(***************************************************************************)
NoVirtual == \A n \in Name : <<n, "000">> \notin Asset

(* Without 000 tokens an output only ever moves a handle to its own        *)
(* address; a record starts without one when a 100 makes it.               *)
LEMMA AddressOfIndexed ==
    ASSUME TypeOK, NoVirtual, NEW u \in UTxO, NEW n \in Saved(u)
    PROVE  \/ Indexed(n, u).addr \in {u.addr, NoAddr}
           \/ Stored(n) /\ Indexed(n, u).addr = handle[n].addr
<1> DEFINE Fine(e) == \/ e = NoHandle \/ e.addr \in {u.addr, NoAddr}
                      \/ Stored(n) /\ e.addr = handle[n].addr
<1>1. n \in Name
  BY IndexedType
<1>2. <<n, "000">> \notin u.assets
  BY <1>1 DEF NoVirtual, UTxO
<1>3. PICK h1 : h1 = After000(handle[n], n, u)
  OBVIOUS
<1>4. h1 = handle[n] /\ h1 \in Entry /\ Fine(h1)
  BY <1>1, <1>2, <1>3 DEF After000, TypeOK, Entry, Stored
<1>5. ASSUME NEW e \in Entry, Fine(e)
      PROVE  Read(e, u) \in Handle /\ ((Read(e, u) = e /\ e # NoHandle) \/ Read(e, u).addr = u.addr)
  <2>1. Read(e, u) \in Handle
    BY <1>1, AfterType
  <2> QED
    BY <2>1 DEF Read, Built
<1>6. PICK h2 : h2 = After001(h1, n, u)
  OBVIOUS
<1>7. h2 \in Entry /\ Fine(h2)
  <2>1. h2 \in Entry
    BY <1>1, <1>4, <1>6, AfterType
  <2>2. CASE <<n, "001">> \notin u.assets
    BY <1>4, <1>6, <2>2 DEF After001
  <2>3. CASE <<n, "001">> \in u.assets
    <3>1. PICK e : e = Read(h1, u)
      OBVIOUS
    <3>2. e \in Handle /\ ((e = h1 /\ h1 # NoHandle) \/ e.addr = u.addr)
      BY <1>4, <1>5, <3>1
    <3>3. h2 = [e EXCEPT !.labels = @ \union {"001"},
                         !.slot = IF u.slot >= @ /\ u.datum # NoDatum THEN u.slot ELSE @]
      BY <1>6, <2>3, <3>1 DEF After001
    <3>4. h2.addr = e.addr
      BY <3>2, <3>3 DEF Handle
    <3>5. CASE e = h1 /\ h1 # NoHandle
      BY <1>4, <2>1, <3>4, <3>5
    <3>6. CASE e.addr = u.addr
      BY <2>1, <3>4, <3>6
    <3> QED
      BY <3>2, <3>5, <3>6
  <2> QED
    BY <2>1, <2>2, <2>3
<1>8. PICK h3 : h3 = After100(h2, n, u)
  OBVIOUS
<1>9. h3 \in Entry /\ Fine(h3)
  <2>1. h3 \in Entry
    BY <1>1, <1>7, <1>8, AfterType
  <2>2. PICK e : e = Read(h2, u)
    OBVIOUS
  <2>3. e \in Handle /\ ((e = h2 /\ h2 # NoHandle) \/ e.addr = u.addr)
    BY <1>5, <1>7, <2>2
  <2>4. \/ h3 = h2 \/ h3 = e
        \/ h3 = [e EXCEPT !.ref = u.id, !.addr = IF h2 = NoHandle THEN NoAddr ELSE @]
    BY <1>8, <2>2 DEF After100
  <2>5. h3 = h2 \/ h3.addr \in {e.addr, NoAddr}
    BY <2>3, <2>4 DEF Handle
  <2> QED
    BY <1>7, <2>1, <2>3, <2>5
<1>10. Indexed(n, u) = After222(h3, n, u) /\ Indexed(n, u) \in Handle
  BY <1>3, <1>6, <1>8, IndexedType DEF Indexed
<1>11. PICK e : e = Read(h3, u)
  OBVIOUS
<1>12. e \in Handle /\ ((e = h3 /\ h3 # NoHandle) \/ e.addr = u.addr)
  BY <1>5, <1>9, <1>11
<1>13. \/ Indexed(n, u) = h3 \/ Indexed(n, u) = e
       \/ Indexed(n, u) = [e EXCEPT !.addr = u.addr, !.utxo = u.id, !.slot = u.slot,
                                    !.amount = IF DoubleMint(h3, n, u) THEN @ + 1 ELSE @]
  BY <1>10, <1>11 DEF After222
<1>14. Indexed(n, u) = h3 \/ Indexed(n, u).addr \in {e.addr, u.addr}
  BY <1>12, <1>13 DEF Handle
<1>15. Fine(Indexed(n, u))
  BY <1>9, <1>12, <1>14
<1> QED
  BY <1>10, <1>15, HandleIndexAssumption

(* Every holder an output adds a handle to is one whose set was read.      *)
LEMMA JoinsSeeded ==
    ASSUME TypeOK, NoVirtual, NEW u \in UTxO, NEW h \in Holder \ {HolderOf[NoAddr]},
           Joins(u, h) # {}
    PROVE  h \in Seeded(u)
<1>1. PICK n \in Saved(u) : HolderOf[Indexed(n, u).addr] = h
  BY DEF Joins, HolderOfHandle
<1>2. n \in Name /\ n \in NamesOf(u.assets)
  BY IndexedType DEF Saved
<1>3. CASE Indexed(n, u).addr \in {u.addr, NoAddr}
  BY <1>1, <1>3 DEF Seeded
<1>4. CASE Stored(n) /\ Indexed(n, u).addr = handle[n].addr /\ handle[n].addr # NoAddr
  BY <1>1, <1>2, <1>4 DEF Seeded, HolderOfHandle
<1>5. CASE Stored(n) /\ Indexed(n, u).addr = handle[n].addr /\ handle[n].addr = NoAddr
  BY <1>1, <1>5
<1> QED
  BY <1>3, <1>4, <1>5, AddressOfIndexed

(* Without virtual subhandles HOLDER_COUNT always scores a holder with the *)
(* number of handles its reverse list holds.                               *)
THEOREM HolderCountCorrect == ASSUME NoVirtual PROVE Spec => []HolderCountMatch
<1>1. Init => HolderCountMatch
  BY FS_EmptySet DEF Init, HolderCountMatch
<1>2. ASSUME IndexInv, IndexInv', HolderCountMatch, [Next]_vars
      PROVE  HolderCountMatch'
  <2> SUFFICES ASSUME NEW h \in Holder \ {HolderOf[NoAddr]}
               PROVE  holderCount'[h] = Cardinality(holderSet'[h])
    BY DEF HolderCountMatch
  <2>1. holderCount[h] = Cardinality(holderSet[h])
    BY <1>2 DEF HolderCountMatch
  <2>2. CASE BurnHandles
    <3> DEFINE G == {n \in Gone : HolderOfHandle(handle[n]) = h}
    <3>1. G \in SUBSET holderSet[h] /\ holderSet[h] \in SUBSET Name /\ holderSet'[h] = holderSet[h] \ G
      BY <1>2, <2>2, BurnHandlesHolders
    <3>2. Cardinality(holderSet'[h]) = LeftAfterBurn(h)
      BY <3>1, Remaining DEF LeftAfterBurn
    <3>3. Cardinality(holderSet'[h]) \in Nat
      BY <3>1, NamesFinite
    <3>4. CASE G = {}
      <4>1. holderCount'[h] = holderCount[h]
        BY <2>2, <3>4 DEF BurnHandles, IndexInv, TypeOK
      <4> QED
        BY <2>1, <3>1, <3>4, <4>1
    <3>5. CASE G # {}
      <4>1. holderCount'[h] = IF LeftAfterBurn(h) > 0 THEN LeftAfterBurn(h) ELSE 0
        BY <2>2, <3>5 DEF BurnHandles
      <4> QED
        BY <3>2, <3>3, <4>1
    <3> QED
      BY <3>4, <3>5
  <2>3. CASE AddOutput
    <3>1. PICK u \in todo : IndexOutput(u)
      BY <2>3 DEF AddOutput
    <3>2. TypeOK /\ u \in UTxO
      BY <1>2 DEF IndexInv, TypeOK
    <3>3. holderSet'[h] = HolderAfter(u, h) /\ holderCount'[h] = CountAfter(u, h)
      BY <3>1 DEF IndexOutput
    <3>4. CASE Joins(u, h) = {} /\ Leaves(u, h) = {}
      BY <2>1, <3>3, <3>4 DEF HolderAfter, CountAfter
    <3>5. CASE Joins(u, h) # {}
      BY <3>2, <3>3, <3>5, JoinsSeeded DEF CountAfter
    <3>6. CASE Joins(u, h) = {} /\ Leaves(u, h) # {}
      <4>1. HolderAfter(u, h) = holderSet[h] \ Leaves(u, h)
        BY <3>6 DEF HolderAfter
      <4> QED
        BY <3>3, <3>6, <4>1 DEF CountAfter
    <3> QED
      BY <3>4, <3>5, <3>6
  <2>4. CASE UNCHANGED <<handle, derived, registry>>
    BY <2>1, <2>4 DEF derived
  <2>5. [Next]_vars => BurnHandles \/ AddOutput \/ UNCHANGED <<handle, derived, registry>>
    BY DEF Next, ScanStep, Finished, AppendTx, StartBlock, BurnLabels, AddMintData, MintDataMissing,
           OutputsDone, RemoveSpent, CommitCursor, RecordScanned, Crash, vars, index
  <2> QED
    BY <1>2, <2>2, <2>3, <2>4, <2>5
<1> QED
  BY <1>1, <1>2, IndexInvariant, PTL DEF Spec

(* Without virtual subhandles every index cut from the records agrees with *)
(* them in every state a reader can look at.                               *)
THEOREM IndexesCorrect == ASSUME NoVirtual PROVE Spec => []IndexesMatch
BY IndexInvariant, HolderCountCorrect, PTL DEF IndexInv, IndexesMatch

-----------------------------------------------------------------------------
(***************************************************************************)
(* The chain, as the block after the cursor shows it.  Output ids are not  *)
(* used twice and a token is in one output; the block's outputs are spent  *)
(* by the block or live, and what is live and older is not spent by it.    *)
(* When the main token of a name is burnt nothing of the name is left but  *)
(* what the block mints anew: that is where Orphans = FALSE comes in.      *)
(***************************************************************************)
BlockIns == UNION {t.inputs : t \in Txs}
AllOuts == ledger \union BlockOuts \union BlockIns
Survivors == {u \in BlockOuts : u.id \notin Spent}

IdsUnique == /\ \A u \in AllOuts : u.id < nextId
             /\ \A u, v \in AllOuts : u.id = v.id => u = v
NewOuts == \A u \in BlockOuts : u.slot = currentSlot + 1 /\ (u.id \in Spent \/ u \in ledger)
LiveOuts == \A u \in ledger : /\ u.id \notin Spent /\ (u \in BlockOuts \/ u.slot <= currentSlot)
                              /\ \A n \in u.minted : HasMain(n, u.assets)
Nft == \A u, v \in ledger : u.assets \intersect v.assets # {} => u = v
Mained == Orphans \/ \A u \in ledger : \A a \in u.assets : HasMain(a[1], Assets(ledger))
BurntIsNew ==
    Orphans \/ \A n \in BurnedIn(Main) : \A u \in ledger : n \in NamesOf(u.assets) => u \in BlockOuts
ChainInv == /\ TypeOK /\ IdsUnique /\ NewOuts /\ LiveOuts /\ Nft /\ Mained /\ BurntIsNew
            /\ pc = "record" => block = <<>>

(* What a transaction the chain appends is made of. *)
LEMMA Appended ==
  ASSUME TypeOK, AppendTx
  PROVE  \E ins \in SUBSET ledger :
         \E burned \in SUBSET Assets(ins), minted \in SUBSET (Asset \ Assets(ledger)) :
         \E outs \in SUBSET UTxO :
           /\ Submit(ins, burned, outs)
           /\ Orphans \/ \A a \in Carried(ledger, burned, minted) :
                            HasMain(a[1], Carried(ledger, burned, minted))
           /\ Assets(outs) = Carried(ins, burned, minted)
           /\ \A u \in outs : /\ u.id \in {nextId, nextId + 1} /\ u.slot = currentSlot + 1
                              /\ u.minted = {n \in Name : HasMain(n, u.assets \intersect minted)}
           /\ \A u, v \in outs : u.id = v.id \/ u.assets \intersect v.assets # {} => u = v
<1>1. PICK ins \in SUBSET ledger :
        \E burned \in SUBSET Assets(ins), minted \in SUBSET (Asset \ Assets(ledger)) :
          /\ ins # {} \/ minted # {}
          /\ LET live == Carried(ledger, burned, minted)
             IN Orphans \/ \A a \in live : HasMain(a[1], live)
          /\ \E first \in SUBSET Carried(ins, burned, minted) :
             \E rest \in {Carried(ins, burned, minted) \ first} :
             /\ first = {} => rest = {}
             /\ Packed(first) /\ Packed(rest)
             /\ \E a1, a2 \in Addr :
                /\ rest = {} => a2 = a1
                /\ \E d1 \in Datums(first, a1), d2 \in Datums(rest, a2) :
                      Submit(ins, burned, Outputs(first, rest, a1, a2, d1, d2, minted))
  BY Zenon DEF AppendTx
<1>2. PICK burned \in SUBSET Assets(ins), minted \in SUBSET (Asset \ Assets(ledger)) :
        /\ Orphans \/ \A a \in Carried(ledger, burned, minted) :
                          HasMain(a[1], Carried(ledger, burned, minted))
        /\ \E first \in SUBSET Carried(ins, burned, minted) :
           \E rest \in {Carried(ins, burned, minted) \ first} :
             /\ first = {} => rest = {}
             /\ Packed(first) /\ Packed(rest)
             /\ \E a1, a2 \in Addr :
                /\ rest = {} => a2 = a1
                /\ \E d1 \in Datums(first, a1), d2 \in Datums(rest, a2) :
                      Submit(ins, burned, Outputs(first, rest, a1, a2, d1, d2, minted))
  BY <1>1, Zenon
<1>3. PICK first \in SUBSET Carried(ins, burned, minted) :
        \E a1, a2 \in Addr :
           \E d1 \in Datums(first, a1), d2 \in Datums(Carried(ins, burned, minted) \ first, a2) :
               Submit(ins, burned, Outputs(first, Carried(ins, burned, minted) \ first,
                                           a1, a2, d1, d2, minted))
  BY <1>2
<1> DEFINE rest == Carried(ins, burned, minted) \ first
<1>4. PICK a1 \in Addr, a2 \in Addr :
        \E d1 \in Datums(first, a1), d2 \in Datums(rest, a2) :
               Submit(ins, burned, Outputs(first, rest, a1, a2, d1, d2, minted))
  BY <1>3
<1>5. PICK d1 \in Datums(first, a1), d2 \in Datums(rest, a2) :
               Submit(ins, burned, Outputs(first, rest, a1, a2, d1, d2, minted))
  BY <1>4
<1> DEFINE u1 == Output(nextId, first, a1, d1, minted)
           u2 == Output(nextId + 1, rest, a2, d2, minted)
           outs == Outputs(first, rest, a1, a2, d1, d2, minted)
<1>7. ins \subseteq UTxO /\ Assets(ins) \subseteq Asset
  BY DEF TypeOK, Assets, UTxO
<1>8. first \in SUBSET Asset /\ rest \in SUBSET Asset
  BY <1>7 DEF Carried
<1>9. d1 \in Addr \union {NoDatum} /\ d2 \in Addr \union {NoDatum}
  BY DEF Datums
<1>10. nextId \in Nat /\ nextId + 1 \in Nat /\ currentSlot + 1 \in Nat
  BY DEF TypeOK
<1>11. u1 \in UTxO /\ u2 \in UTxO
  BY <1>8, <1>9, <1>10 DEF Output, UTxO
<1>12. /\ u1.id = nextId /\ u1.assets = first /\ u1.slot = currentSlot + 1
       /\ u2.id = nextId + 1 /\ u2.assets = rest /\ u2.slot = currentSlot + 1
       /\ u1.minted = {n \in Name : HasMain(n, first \intersect minted)}
       /\ u2.minted = {n \in Name : HasMain(n, rest \intersect minted)}
  BY DEF Output
<1>13. outs = {u \in {u1, u2} : u.assets # {}}
  BY DEF Outputs
<1> HIDE DEF u1, u2, outs
<1>14. Assets(outs) = Carried(ins, burned, minted)
  BY <1>12, <1>13 DEF Assets
<1>15. \A u \in outs : /\ u.id \in {nextId, nextId + 1} /\ u.slot = currentSlot + 1
                       /\ u.minted = {n \in Name : HasMain(n, u.assets \intersect minted)}
  BY <1>12, <1>13
<1>16. \A u, v \in outs : u.id = v.id \/ u.assets \intersect v.assets # {} => u = v
  BY <1>10, <1>12, <1>13
<1>17. outs \in SUBSET UTxO /\ Submit(ins, burned, outs)
  BY <1>5, <1>11, <1>13 DEF outs
<1> QED
  BY <1>2, <1>14, <1>15, <1>16, <1>17

(* What the block is after one more transaction. *)
LEMMA BlockGrows ==
  ASSUME TypeOK, NEW ins, NEW burned, NEW outs, Submit(ins, burned, outs)
  PROVE  /\ BlockOuts' = BlockOuts \union outs
         /\ BlockIns' = BlockIns \union ins
         /\ Spent' = Spent \union {u.id : u \in ins}
         /\ BurnedIn(Main)' = BurnedIn(Main) \union {a[1] : a \in {b \in burned : b[2] \in Main}}
<1> DEFINE t == [inputs |-> ins, outs |-> outs, burned |-> burned]
<1>1. block \in Seq(Tx) /\ block' = Append(block, t) BY DEF TypeOK, Submit
<1>2. t.inputs = ins /\ t.outs = outs /\ t.burned = burned OBVIOUS
<1> HIDE DEF t
<1>3. Len(block) \in Nat /\ DOMAIN block = 1 .. Len(block) BY <1>1
<1>4. DOMAIN block' = 1 .. Len(block) + 1 BY <1>1
<1>5. \A i \in 1 .. Len(block) : block'[i] = block[i] BY <1>1
<1>6. block'[Len(block) + 1] = t BY <1>1
<1>7. DOMAIN block' = DOMAIN block \union {Len(block) + 1} BY <1>3, <1>4
<1>8. Txs' = Txs \union {t}
  <2>1. \A i \in DOMAIN block : block'[i] = block[i] BY <1>3, <1>5
  <2> QED BY <1>6, <1>7, <2>1 DEF Txs
<1>9. BlockOuts' = BlockOuts \union outs BY <1>2, <1>8 DEF BlockOuts
<1>10. BlockIns' = BlockIns \union ins BY <1>2, <1>8 DEF BlockIns
<1>11. Spent' = Spent \union {u.id : u \in ins} BY <1>2, <1>8 DEF Spent
<1>12. UNION {x.burned : x \in Txs'} = (UNION {x.burned : x \in Txs}) \union burned BY <1>2, <1>8
<1>13. BurnedIn(Main)' = BurnedIn(Main) \union {a[1] : a \in {b \in burned : b[2] \in Main}}
  BY <1>12 DEF BurnedIn
<1> QED BY <1>9, <1>10, <1>11, <1>13

(* A block without transactions. *)
LEMMA EmptyBlock ==
  ASSUME block = <<>>
  PROVE  BlockOuts = {} /\ BlockIns = {} /\ Spent = {} /\ BurnedIn(Main) = {} /\ Survivors = {}
<1>1. DOMAIN block = {} OBVIOUS
<1>2. Txs = {} BY <1>1 DEF Txs
<1> QED BY <1>2 DEF BlockOuts, BlockIns, Spent, BurnedIn, Survivors

(* Nothing is on the chain at first. *)
LEMMA ChainInit == ASSUME Init PROVE ChainInv
<1>1. TypeOK BY DEF Init, TypeOK, Steps
<1>2. block = <<>> /\ ledger = {} BY DEF Init
<1> QED BY <1>1, <1>2, EmptyBlock DEF Init, ChainInv, IdsUnique, AllOuts, NewOuts, LiveOuts, Nft, Mained,
           BurntIsNew

(* A transaction keeps the chain a chain. *)
LEMMA ChainAppend ==
  ASSUME ChainInv, AppendTx
  PROVE  ChainInv'
<1>0. TypeOK BY DEF ChainInv
<1>1. PICK ins \in SUBSET ledger :
      \E burned \in SUBSET Assets(ins), minted \in SUBSET (Asset \ Assets(ledger)) :
      \E outs \in SUBSET UTxO :
           /\ Submit(ins, burned, outs)
           /\ Orphans \/ \A a \in Carried(ledger, burned, minted) :
                            HasMain(a[1], Carried(ledger, burned, minted))
           /\ Assets(outs) = Carried(ins, burned, minted)
           /\ \A u \in outs : /\ u.id \in {nextId, nextId + 1} /\ u.slot = currentSlot + 1
                              /\ u.minted = {n \in Name : HasMain(n, u.assets \intersect minted)}
           /\ \A u, v \in outs : u.id = v.id \/ u.assets \intersect v.assets # {} => u = v
  BY <1>0, Appended
<1>2. PICK burned \in SUBSET Assets(ins), minted \in SUBSET (Asset \ Assets(ledger)) :
      \E outs \in SUBSET UTxO :
           /\ Submit(ins, burned, outs)
           /\ Orphans \/ \A a \in Carried(ledger, burned, minted) :
                            HasMain(a[1], Carried(ledger, burned, minted))
           /\ Assets(outs) = Carried(ins, burned, minted)
           /\ \A u \in outs : /\ u.id \in {nextId, nextId + 1} /\ u.slot = currentSlot + 1
                              /\ u.minted = {n \in Name : HasMain(n, u.assets \intersect minted)}
           /\ \A u, v \in outs : u.id = v.id \/ u.assets \intersect v.assets # {} => u = v
  BY <1>1
<1>3. PICK outs \in SUBSET UTxO :
           /\ Submit(ins, burned, outs)
           /\ Orphans \/ \A a \in Carried(ledger, burned, minted) :
                            HasMain(a[1], Carried(ledger, burned, minted))
           /\ Assets(outs) = Carried(ins, burned, minted)
           /\ \A u \in outs : /\ u.id \in {nextId, nextId + 1} /\ u.slot = currentSlot + 1
                              /\ u.minted = {n \in Name : HasMain(n, u.assets \intersect minted)}
           /\ \A u, v \in outs : u.id = v.id \/ u.assets \intersect v.assets # {} => u = v
  BY <1>2
<1>4. /\ BlockOuts' = BlockOuts \union outs /\ BlockIns' = BlockIns \union ins
      /\ Spent' = Spent \union {u.id : u \in ins}
      /\ BurnedIn(Main)' = BurnedIn(Main) \union {a[1] : a \in {b \in burned : b[2] \in Main}}
  BY <1>0, <1>3, BlockGrows
<1>5. ledger' = (ledger \ ins) \union outs BY <1>3 DEF Submit
<1>6. /\ nextId' = nextId + 2 /\ nextId \in Nat /\ currentSlot' = currentSlot /\ pc' = pc /\ pc = "idle"
  BY <1>0 DEF AppendTx, TypeOK
<1>7. /\ \A u \in AllOuts : u.id < nextId /\ u.id # nextId /\ u.id # nextId + 1
      /\ ledger \subseteq UTxO /\ BlockOuts \subseteq UTxO /\ BlockIns \subseteq UTxO
  <2>1. \A t \in Txs : t.inputs \subseteq UTxO /\ t.outs \subseteq UTxO
    <3> TAKE t \in Txs
    <3>1. PICK i \in DOMAIN block : t = block[i] BY DEF Txs
    <3>2. t \in Tx BY <1>0, <3>1 DEF TypeOK
    <3> QED BY <3>2 DEF Tx
  <2>2. ledger \subseteq UTxO /\ BlockOuts \subseteq UTxO /\ BlockIns \subseteq UTxO
    BY <1>0, <2>1 DEF TypeOK, BlockOuts, BlockIns
  <2>3. \A u \in AllOuts : u.id \in Nat BY <2>2 DEF AllOuts, UTxO
  <2> QED BY <1>6, <2>2, <2>3 DEF ChainInv, IdsUnique
<1>8. AllOuts' = AllOuts \union outs BY <1>4, <1>5 DEF AllOuts
<1>9. IdsUnique'
  <2>1. \A u \in AllOuts' : u.id < nextId'
    <3>1. \A u \in AllOuts : u.id < nextId + 2
      <4>1. \A u \in AllOuts : u.id \in Nat /\ u.id < nextId BY <1>7 DEF AllOuts, UTxO
      <4>2. \A i \in Nat : i < nextId => i < nextId + 2 BY <1>6
      <4> QED BY <4>1, <4>2
    <3>2. \A u \in outs : u.id < nextId + 2
      <4>1. nextId < nextId + 2 /\ nextId + 1 < nextId + 2 BY <1>6
      <4> QED BY <1>3, <4>1, Zenon
    <3> QED BY <1>6, <1>8, <3>1, <3>2
  <2>2. \A u, v \in AllOuts' : u.id = v.id => u = v
    BY <1>3, <1>7, <1>8 DEF ChainInv, IdsUnique
  <2> QED BY <2>1, <2>2 DEF IdsUnique
<1>10. \A u \in ledger : u \notin ins => u.id \notin {v.id : v \in ins}
  BY DEF ChainInv, IdsUnique, AllOuts
<1>11. \A u \in outs : u.id \notin Spent' /\ u \notin AllOuts
  <2>1. Spent = {u.id : u \in BlockIns} BY DEF Spent, BlockIns
  <2>2. \A u \in outs : u.id \notin Spent /\ u.id \notin {v.id : v \in ins}
    BY <1>3, <1>7, <2>1 DEF AllOuts
  <2> QED BY <1>3, <1>4, <1>7, <2>2
<1>12. NewOuts'
  <2>1. ASSUME NEW u \in BlockOuts PROVE u.slot = currentSlot + 1 /\ (u.id \in Spent' \/ u \in ledger')
    BY <1>4, <1>5, <2>1 DEF ChainInv, NewOuts
  <2>2. ASSUME NEW u \in outs PROVE u.slot = currentSlot + 1 /\ u \in ledger'
    BY <1>3, <1>5
  <2> QED BY <1>4, <1>6, <2>1, <2>2 DEF NewOuts
<1>13. LiveOuts'
  <2>1. ASSUME NEW u \in ledger, u \notin ins
        PROVE  /\ u.id \notin Spent' /\ (u \in BlockOuts' \/ u.slot <= currentSlot)
               /\ \A n \in u.minted : HasMain(n, u.assets)
    BY <1>4, <1>10, <2>1 DEF ChainInv, LiveOuts
  <2>2. ASSUME NEW u \in outs PROVE /\ u.id \notin Spent' /\ u \in BlockOuts'
                                    /\ \A n \in u.minted : HasMain(n, u.assets)
    BY <1>3, <1>4, <1>11 DEF HasMain
  <2> QED BY <1>5, <1>6, <2>1, <2>2 DEF LiveOuts
<1>14. \A u \in ledger \ ins, v \in outs : u.assets \intersect v.assets = {}
  <2> SUFFICES ASSUME NEW u \in ledger \ ins, NEW v \in outs, NEW a \in u.assets, a \in v.assets
               PROVE  FALSE
    OBVIOUS
  <2>1. a \in Carried(ins, burned, minted) BY <1>3 DEF Assets
  <2>2. a \in Assets(ledger) BY DEF Assets
  <2>3. a \in Assets(ins) BY <2>1, <2>2 DEF Carried
  <2>4. PICK w \in ins : a \in w.assets BY <2>3 DEF Assets
  <2> QED BY <2>4 DEF ChainInv, Nft
<1>15. Nft' BY <1>3, <1>5, <1>14 DEF ChainInv, Nft
<1>16. Assets(ledger') = Carried(ledger, burned, minted)
  <2>1. Assets(ledger') = Assets(ledger \ ins) \union Assets(outs) BY <1>5 DEF Assets
  <2>2. Assets(ledger) = Assets(ledger \ ins) \union Assets(ins) BY DEF Assets
  <2>3. Assets(ledger \ ins) \intersect Assets(ins) = {}
    BY DEF Assets, ChainInv, Nft
  <2> QED BY <1>3, <2>1, <2>2, <2>3 DEF Carried
<1>17. Mained'
  <2> SUFFICES ASSUME ~Orphans, NEW u \in ledger', NEW a \in u.assets
               PROVE  HasMain(a[1], Assets(ledger'))
    BY DEF Mained, Assets, HasMain
  <2>1. a \in Carried(ledger, burned, minted) BY <1>16 DEF Assets
  <2>2. HasMain(a[1], Carried(ledger, burned, minted)) BY <1>3, <2>1
  <2> QED BY <1>16, <2>2
(* No token of a name is older than its main token's last burn. *)
<1>18. BurntIsNew'
  <2> SUFFICES ASSUME ~Orphans,
                      NEW n \in BurnedIn(Main)', NEW u \in ledger', NEW a \in u.assets, a[1] = n
               PROVE  u \in BlockOuts'
    BY DEF BurntIsNew, NamesOf
  <2>1. CASE u \in outs BY <1>4, <2>1
  <2>2. CASE u \in ledger \ ins /\ n \in BurnedIn(Main)
    BY <1>4, <2>2 DEF ChainInv, BurntIsNew, NamesOf
  <2>3. CASE u \in ledger \ ins /\ n \notin BurnedIn(Main)
    <3>1. PICK b \in burned : b[1] = n /\ b[2] \in Main BY <1>4, <2>3
    <3>2. a \in Assets(ledger') BY <1>5, <2>3 DEF Assets
    <3>3. PICK l \in Main : <<n, l>> \in Carried(ledger, burned, minted)
      BY <1>3, <1>16, <3>2 DEF HasMain
    <3>4. b \in Assets(ledger) /\ b \in Asset
      BY <1>0 DEF Assets, TypeOK, UTxO
    <3>5. <<n, l>> \in Asset
      BY <1>0, <3>3 DEF Carried, Assets, TypeOK, UTxO
    <3>6. b = <<n, l>>
      <4>1. b = <<b[1], b[2]>> /\ b[1] \in Name BY <3>4, HandleIndexAssumption
      <4> QED BY <3>1, <3>3, <3>4, <3>5, <4>1, HandleIndexAssumption DEF Main
    <3> QED BY <3>3, <3>4, <3>6 DEF Carried
  <2> QED BY <1>5, <2>1, <2>2, <2>3
<1>19. TypeOK' BY <1>0, AppendTxType
<1> QED BY <1>6, <1>9, <1>12, <1>13, <1>15, <1>17, <1>18, <1>19 DEF ChainInv

(* Within a block the chain stands still. *)
LEMMA ChainFrame ==
  ASSUME ChainInv, TypeOK', UNCHANGED <<ledger, nextId, block, currentSlot>>,
         pc' = "record" => block = <<>>
  PROVE  /\ ChainInv' /\ BlockOuts' = BlockOuts /\ Spent' = Spent
         /\ BurnedIn(Main)' = BurnedIn(Main) /\ Survivors' = Survivors
<1>1. Txs' = Txs BY DEF Txs
<1>2. /\ BlockOuts' = BlockOuts /\ BlockIns' = BlockIns /\ Spent' = Spent
      /\ BurnedIn(Main)' = BurnedIn(Main)
  BY <1>1 DEF BlockOuts, BlockIns, Spent, BurnedIn
<1>3. AllOuts' = AllOuts BY <1>2 DEF AllOuts
<1>4. Survivors' = Survivors BY <1>2 DEF Survivors
<1>5. IdsUnique' /\ NewOuts' /\ LiveOuts' /\ Nft' /\ Mained' /\ BurntIsNew'
  BY <1>2, <1>3 DEF ChainInv, IdsUnique, NewOuts, LiveOuts, Nft, Mained, BurntIsNew
<1> QED BY <1>2, <1>4, <1>5 DEF ChainInv

(* The commit makes the block old. *)
LEMMA ChainCommit ==
  ASSUME ChainInv, TypeOK', CommitCursor
  PROVE  ChainInv' /\ BlockOuts' = {} /\ Spent' = {} /\ BurnedIn(Main)' = {} /\ Survivors' = {}
<1>1. block' = <<>> /\ UNCHANGED <<ledger, nextId>> /\ currentSlot' = currentSlot + 1
  BY DEF CommitCursor, chain
<1>2. DOMAIN block' = {} BY <1>1
<1>3. Txs' = {} BY <1>2 DEF Txs
<1>4. BlockOuts' = {} /\ BlockIns' = {} /\ Spent' = {} /\ BurnedIn(Main)' = {} /\ Survivors' = {}
  BY <1>3 DEF BlockOuts, BlockIns, Spent, BurnedIn, Survivors
<1>5. IdsUnique' BY <1>1, <1>4 DEF ChainInv, IdsUnique, AllOuts
<1>6. LiveOuts'
  <2>1. ASSUME NEW u \in ledger PROVE u.slot <= currentSlot + 1
    <3>1. u.slot \in Nat /\ currentSlot \in Nat BY DEF ChainInv, TypeOK, UTxO
    <3> QED BY <3>1 DEF ChainInv, LiveOuts, NewOuts
  <2> QED BY <1>1, <1>4, <2>1 DEF ChainInv, LiveOuts
<1>7. NewOuts' /\ Nft' /\ Mained' /\ BurntIsNew'
  BY <1>1, <1>4 DEF ChainInv, NewOuts, Nft, Mained, BurntIsNew
<1> QED BY <1>1, <1>4, <1>5, <1>6, <1>7 DEF ChainInv

(***************************************************************************)
(* What this pass over the block has still to index.                       *)
(***************************************************************************)
Pending == IF pc = "outputs" THEN todo
           ELSE IF pc \in {"spend", "commit", "record"} THEN {} ELSE Survivors
PendingOK == Pending \subseteq Survivors /\ (pc # "outputs" => todo = {})

(* The steps, by what they do to the chain, the pass and the store. *)
Passes ==
    /\ UNCHANGED <<ledger, nextId, block, currentSlot>> /\ todo' = {}
    /\ \/ pc = "idle" /\ pc' = "burn" /\ UNCHANGED <<handle, utxos>>
       \/ pc = "labels" /\ pc' = "mint" /\ UNCHANGED <<handle, utxos>>
       \/ pc = "outputs" /\ pc' = "spend" /\ todo = {} /\ UNCHANGED <<handle, utxos>>
       \/ pc = "record" /\ pc' = "idle" /\ UNCHANGED <<handle, utxos>>
       \/ pc # "record" /\ pc' = "burn" /\ UNCHANGED <<handle, utxos>>
(* Every step is one of these. *)
LEMMA StepKinds ==
  ASSUME PendingOK, Next
  PROVE  \/ AppendTx \/ BurnHandles \/ AddMintData \/ AddOutput \/ RemoveSpent \/ CommitCursor
         \/ Passes \/ UNCHANGED vars
<1>1. ASSUME StartBlock \/ BurnLabels PROVE Passes
  BY <1>1 DEF StartBlock, BurnLabels, Passes, PendingOK, chain, index, derived
<1>2. ASSUME MintDataMissing \/ OutputsDone PROVE Passes
  BY <1>2 DEF MintDataMissing, OutputsDone, Passes, PendingOK, chain, index, derived
<1>3. ASSUME RecordScanned \/ Crash PROVE Passes
  BY <1>3 DEF RecordScanned, Crash, Passes, PendingOK, chain, index, derived
<1> QED BY <1>1, <1>2, <1>3 DEF Next, ScanStep, Finished

(* The outputs a block leaves are its live ones. *)
LEMMA SurvivorsLive == ASSUME ChainInv PROVE Survivors = ledger \intersect BlockOuts
  BY DEF ChainInv, NewOuts, LiveOuts, Survivors

(* Nothing is pending at first. *)
LEMMA PendingInit == ASSUME Init PROVE PendingOK /\ Pending = {}
  BY EmptyBlock DEF Init, PendingOK, Pending

(* What is pending after each step. *)
LEMMA PendingStep ==
  ASSUME ChainInv, TypeOK', PendingOK, [Next]_vars
  PROVE  /\ ChainInv' /\ PendingOK'
         /\ AppendTx => Pending = Survivors /\ Pending' = Survivors'
         /\ BurnHandles => Pending' = Pending /\ Pending = Survivors
         /\ AddMintData => Pending' = Survivors /\ Pending = Survivors
         /\ AddOutput => Pending = todo /\ Pending' = todo'
         /\ RemoveSpent \/ CommitCursor => Pending = {} /\ Pending' = {}
         /\ Passes => Pending \subseteq Pending' /\ Pending' \subseteq Survivors
         /\ ~(AppendTx \/ CommitCursor) => /\ BlockOuts' = BlockOuts /\ Spent' = Spent
                                           /\ BurnedIn(Main)' = BurnedIn(Main)
<1>0. ASSUME UNCHANGED <<ledger, nextId, block, currentSlot>>, pc' # "record" \/ pc' = pc
      PROVE  /\ ChainInv' /\ Survivors' = Survivors /\ BlockOuts' = BlockOuts /\ Spent' = Spent
             /\ BurnedIn(Main)' = BurnedIn(Main)
  <2>1. pc' = "record" => block = <<>> BY <1>0 DEF ChainInv
  <2> QED BY <1>0, <2>1, ChainFrame
<1> DEFINE Rest == ~(AppendTx \/ CommitCursor) => /\ BlockOuts' = BlockOuts /\ Spent' = Spent
                                                  /\ BurnedIn(Main)' = BurnedIn(Main)
<1>1. CASE AppendTx
  <2>1. pc = "idle" /\ pc' = "idle" /\ todo' = todo BY <1>1 DEF AppendTx
  <2> QED BY <1>1, <2>1, ChainAppend DEF PendingOK, Pending, BurnHandles, AddMintData, AddOutput,
             RemoveSpent, CommitCursor, Passes
<1>2. CASE BurnHandles
  <2>1. pc = "burn" /\ pc' = "labels" /\ todo' = todo /\ UNCHANGED <<ledger, nextId, block, currentSlot>>
    BY <1>2 DEF BurnHandles, chain
  <2> QED BY <1>0, <2>1 DEF PendingOK, Pending, AppendTx, AddMintData, AddOutput,
             RemoveSpent, CommitCursor, Passes
<1>3. CASE AddMintData
  <2>1. /\ pc = "mint" /\ pc' = "outputs" /\ todo' = Survivors
        /\ UNCHANGED <<ledger, nextId, block, currentSlot>>
    BY <1>3 DEF AddMintData, chain, Survivors
  <2> QED BY <1>0, <2>1 DEF PendingOK, Pending, AppendTx, BurnHandles, AddOutput,
             RemoveSpent, CommitCursor, Passes
<1>4. CASE AddOutput
  <2>1. /\ pc = "outputs" /\ pc' = "outputs" /\ todo' \subseteq todo
        /\ UNCHANGED <<ledger, nextId, block, currentSlot>>
    BY <1>4 DEF AddOutput, chain
  <2> QED BY <1>0, <2>1 DEF PendingOK, Pending, AppendTx, BurnHandles, AddMintData,
             RemoveSpent, CommitCursor, Passes
<1>5. CASE RemoveSpent
  <2>1. pc = "spend" /\ pc' = "commit" /\ todo' = todo /\ UNCHANGED <<ledger, nextId, block, currentSlot>>
    BY <1>5 DEF RemoveSpent, chain
  <2> QED BY <1>0, <2>1 DEF PendingOK, Pending, AppendTx, BurnHandles, AddMintData, AddOutput,
             CommitCursor, Passes
<1>6. CASE CommitCursor
  <2>1. pc = "commit" /\ pc' = "record" /\ todo' = todo BY <1>6 DEF CommitCursor
  <2> QED BY <1>6, <2>1, ChainCommit DEF PendingOK, Pending, AppendTx, BurnHandles, AddMintData,
             AddOutput, RemoveSpent, Passes
<1>7. CASE Passes
  <2>1. UNCHANGED <<ledger, nextId, block, currentSlot>> /\ todo' = {} /\ pc' # "record"
    BY <1>7 DEF Passes
  <2>2. pc = "record" => Survivors = {} BY EmptyBlock DEF ChainInv
  <2>3. PendingOK' /\ Pending \subseteq Pending' /\ Pending' \subseteq Survivors
    BY <1>0, <1>7, <2>1, <2>2 DEF PendingOK, Pending, Passes
  <2>4. ~(AppendTx \/ BurnHandles \/ AddMintData \/ AddOutput \/ RemoveSpent \/ CommitCursor)
    BY <1>7 DEF Passes, AppendTx, BurnHandles, AddMintData, AddOutput, RemoveSpent, CommitCursor
  <2> QED BY <1>0, <2>1, <2>3, <2>4
<1>8. CASE UNCHANGED vars
  <2>1. UNCHANGED <<ledger, nextId, block, currentSlot, pc, todo>> BY <1>8 DEF vars, chain
  <2>2. ~BurnHandles /\ ~AddMintData /\ ~RemoveSpent /\ ~CommitCursor
    BY <2>1 DEF BurnHandles, AddMintData, RemoveSpent, CommitCursor
  <2>3. ~AppendTx
    <3>1. nextId \in Nat BY DEF ChainInv, TypeOK
    <3> QED BY <2>1, <3>1 DEF AppendTx
  <2>4. Survivors' = Survivors /\ ChainInv' /\ BlockOuts' = BlockOuts /\ Spent' = Spent
        /\ BurnedIn(Main)' = BurnedIn(Main)
    BY <1>0, <2>1
  <2>5. Pending' = Pending BY <2>1, <2>4 DEF Pending
  <2>6. AddOutput => pc = "outputs" BY DEF AddOutput
  <2> QED BY <2>1, <2>2, <2>3, <2>4, <2>5, <2>6 DEF PendingOK, Pending
<1> QED BY <1>1, <1>2, <1>3, <1>4, <1>5, <1>6, <1>7, <1>8, StepKinds

(***************************************************************************)
(* The UTXO index, in every phase of a pass: what the block spends may     *)
(* still be in it, what it has still to index may be in it already.        *)
(***************************************************************************)
UtxoInv == /\ {u.id : u \in ledger} = (utxos \ Spent) \union {u.id : u \in Pending}
           /\ pc \in {"commit", "record"} => utxos \intersect Spent = {}

(* Every step keeps it. *)
LEMMA UtxoStep ==
  ASSUME ChainInv, TypeOK', PendingOK, UtxoInv, [Next]_vars
  PROVE  UtxoInv'
<1>0. /\ ChainInv' /\ PendingOK' /\ Survivors = ledger \intersect BlockOuts
      /\ Survivors' = ledger' \intersect BlockOuts'
  <2>1. ChainInv' /\ PendingOK' BY PendingStep
  <2>2. Survivors' = ledger' \intersect BlockOuts'
    BY <2>1 DEF ChainInv, NewOuts, LiveOuts, Survivors
  <2> QED BY <2>1, <2>2, SurvivorsLive
<1>1. Pending \subseteq Survivors /\ \A u \in ledger : u.id \notin Spent
  BY DEF PendingOK, ChainInv, LiveOuts
<1>2. CASE AppendTx
  <2>1. Pending = Survivors /\ Pending' = Survivors' /\ pc' = "idle" /\ utxos' = utxos
    BY <1>2, PendingStep DEF AppendTx, index
  <2>0. \E ins \in SUBSET ledger : \E burned, outs : Submit(ins, burned, outs)
    <3>1. TypeOK BY DEF ChainInv
    <3> QED BY <1>2, <3>1, Appended
  <2>2a. PICK ins \in SUBSET ledger : \E burned, outs : Submit(ins, burned, outs)  BY <2>0
  <2>2. PICK burned, outs : Submit(ins, burned, outs)  BY <2>2a
  <2>3. BlockOuts' = BlockOuts \union outs /\ Spent' = Spent \union {u.id : u \in ins}
    BY <2>2, BlockGrows DEF ChainInv
  <2>4. ledger' = (ledger \ ins) \union outs BY <2>2 DEF Submit
  <2>5. \A u, v \in ledger : u.id = v.id => u = v BY DEF ChainInv, IdsUnique, AllOuts
  <2>6. ASSUME NEW u \in ledger' PROVE u.id \in utxos \ Spent' \/ \E v \in Survivors' : v.id = u.id
    <3>1. CASE u \in outs BY <1>0, <2>3, <2>4, <3>1
    <3>2. CASE u \in ledger \ ins
      <4>1. u.id \notin Spent' BY <1>1, <2>3, <2>5, <3>2
      <4>2. CASE u.id \in utxos BY <4>1, <4>2
      <4>3. CASE u.id \notin utxos
        <5>1. PICK v \in Survivors : v.id = u.id BY <2>1, <3>2, <4>3 DEF UtxoInv
        <5>2. v = u BY <1>0, <2>5, <3>2, <5>1
        <5> QED BY <1>0, <2>3, <2>4, <3>2, <5>1, <5>2
      <4> QED BY <4>2, <4>3
    <3> QED BY <2>4, <3>1, <3>2
  <2>7. ASSUME NEW i \in utxos, i \notin Spent' PROVE \E u \in ledger' : u.id = i
    <3>1. PICK u \in ledger : u.id = i BY <2>3, <2>7 DEF UtxoInv
    <3> QED BY <2>3, <2>4, <2>7, <3>1
  <2>8. {u.id : u \in ledger'} = (utxos' \ Spent') \union {u.id : u \in Pending'}
    <3>1. \A u \in Survivors' : u \in ledger' BY <1>0
    <3>2. {u.id : u \in ledger'} \subseteq (utxos \ Spent') \union {u.id : u \in Survivors'}
      BY <2>6
    <3>3. (utxos \ Spent') \union {u.id : u \in Survivors'} \subseteq {u.id : u \in ledger'}
      BY <2>7, <3>1
    <3> QED BY <2>1, <3>2, <3>3
  <2> QED BY <2>1, <2>8 DEF UtxoInv
<1>3. ASSUME ~AppendTx PROVE ledger' = ledger
  BY <1>3 DEF Next, ScanStep, Finished, StartBlock, BurnHandles, BurnLabels, AddMintData, AddOutput,
     MintDataMissing, OutputsDone, RemoveSpent, CommitCursor, RecordScanned, Crash, chain, vars
<1>4. CASE AddOutput
  <2>1. Pending = todo /\ Pending' = todo' /\ Spent' = Spent /\ ledger' = ledger
    BY <1>4, PendingStep DEF AddOutput, AppendTx, CommitCursor, chain
  <2>2. PICK u \in todo : utxos' = utxos \union {u.id} /\ todo' = todo \ {u}
    BY <1>4 DEF AddOutput, IndexOutput
  <2>3. u \in ledger BY <1>0, <1>1, <2>1
  <2>4. pc' = "outputs" BY <1>4 DEF AddOutput
  <2> QED BY <1>1, <2>1, <2>2, <2>3, <2>4 DEF UtxoInv
<1>5. CASE RemoveSpent
  <2>1. utxos' = utxos \ Spent /\ Spent' = Spent /\ Pending = {} /\ Pending' = {} /\ ledger' = ledger
    BY <1>5, PendingStep DEF RemoveSpent, AppendTx, CommitCursor, chain
  <2> QED BY <2>1 DEF UtxoInv
<1>6. CASE CommitCursor
  <2>1. Spent' = {} BY <1>6, ChainCommit
  <2>2. utxos' = utxos /\ Pending = {} /\ Pending' = {} /\ ledger' = ledger /\ pc = "commit"
    BY <1>6, PendingStep DEF CommitCursor, chain, index
  <2> QED BY <2>1, <2>2 DEF UtxoInv
<1>7. CASE BurnHandles \/ AddMintData
  <2>1. /\ utxos' = utxos /\ ledger' = ledger /\ pc' \notin {"commit", "record"}
        /\ ~AppendTx /\ ~CommitCursor
    BY <1>7 DEF BurnHandles, AddMintData, chain, AppendTx, CommitCursor
  <2>2. Pending' = Pending /\ Spent' = Spent BY <1>7, <2>1, PendingStep
  <2> QED BY <2>1, <2>2 DEF UtxoInv
<1>8. CASE Passes
  <2>1. /\ utxos' = utxos /\ ledger' = ledger /\ pc' \notin {"commit", "record"}
        /\ ~AppendTx /\ ~CommitCursor
    BY <1>8, <1>3 DEF Passes, AppendTx, CommitCursor
  <2>2. Pending \subseteq Pending' /\ Pending' \subseteq ledger /\ Spent' = Spent
    BY <1>0, <1>8, <2>1, PendingStep
  <2> QED BY <2>1, <2>2 DEF UtxoInv
<1>9. CASE UNCHANGED vars
  <2>1. /\ UNCHANGED <<utxos, ledger, block, pc, todo>> BY <1>9 DEF vars, chain, index
  <2>2. Txs' = Txs BY <2>1 DEF Txs
  <2>3. Spent' = Spent /\ BlockOuts' = BlockOuts BY <2>2 DEF Spent, BlockOuts
  <2>4. Pending' = Pending BY <2>1, <2>3 DEF Pending, Survivors
  <2> QED BY <2>1, <2>3, <2>4 DEF UtxoInv
<1> QED BY <1>2, <1>4, <1>5, <1>6, <1>7, <1>8, <1>9, StepKinds

(* The ledger side of a pass, from the first state on. *)
LedgerInv == ChainInv /\ PendingOK /\ UtxoInv
THEOREM LedgerInvariant == Spec => []LedgerInv
<1>1. Init => LedgerInv
  <2> SUFFICES ASSUME Init PROVE LedgerInv OBVIOUS
  <2>1. Spent = {} /\ ledger = {} /\ utxos = {} BY EmptyBlock DEF Init
  <2> QED BY <2>1, ChainInit, PendingInit DEF LedgerInv, UtxoInv
<1>2. LedgerInv /\ TypeOK' /\ [Next]_vars => LedgerInv'
  BY PendingStep, UtxoStep DEF LedgerInv
<1> QED BY <1>1, <1>2, TypeCorrect, PTL DEF Spec

(* Once the cursor has passed a block the UTXO index holds the live        *)
(* outputs and no other, whatever passes it took to get there.             *)
THEOREM UtxosCorrect == Spec => []UtxosMatchLedger
<1>1. LedgerInv => UtxosMatchLedger
  <2> SUFFICES ASSUME LedgerInv, Committed PROVE utxos = {u.id : u \in ledger}
    BY DEF UtxosMatchLedger
  <2>1. Spent = {} /\ Survivors = {} /\ pc = "idle" BY EmptyBlock DEF Committed
  <2> QED BY <2>1 DEF LedgerInv, UtxoInv, Pending
<1> QED BY <1>1, LedgerInvariant, PTL

-----------------------------------------------------------------------------
(***************************************************************************)
(* The records.                                                            *)
(***************************************************************************)

(* One label at a time: what each makes of a record that is not younger    *)
(* than the output.                                                        *)
LEMMA LabelStep ==
    ASSUME NEW u \in UTxO, NEW n \in Name, NEW h \in Entry, h # NoHandle => h.slot <= u.slot
    PROVE  /\ After000(h, n, u) # NoHandle => After000(h, n, u).slot <= u.slot
           /\ After001(h, n, u) # NoHandle => After001(h, n, u).slot <= u.slot
           /\ After100(h, n, u) # NoHandle => After100(h, n, u).slot <= u.slot
           /\ After222(h, n, u) # NoHandle => After222(h, n, u).slot <= u.slot
           /\ <<n, "000">> \notin u.assets => After000(h, n, u) = h
           /\ <<n, "001">> \notin u.assets => After001(h, n, u) = h
           /\ <<n, "100">> \notin u.assets => After100(h, n, u) = h
           /\ <<n, "222">> \notin u.assets => After222(h, n, u) = h
           /\ <<n, "000">> \in u.assets =>
                 /\ After000(h, n, u).utxo = u.id /\ After000(h, n, u).ref = u.id
                 /\ u.datum # NoDatum => After000(h, n, u).addr = u.datum
                 /\ After000(h, n, u).amount = Read(h, u).amount
                 /\ After000(h, n, u).labels = Read(h, u).labels
           /\ <<n, "001">> \in u.assets =>
                 /\ "001" \in After001(h, n, u).labels
                 /\ Read(h, u).labels \subseteq After001(h, n, u).labels
                 /\ After001(h, n, u).utxo = Read(h, u).utxo
                 /\ After001(h, n, u).ref = Read(h, u).ref
                 /\ After001(h, n, u).addr = Read(h, u).addr
                 /\ After001(h, n, u).amount = Read(h, u).amount
           /\ <<n, "100">> \in u.assets /\ u.datum # NoDatum =>
                 After100(h, n, u) # NoHandle /\ After100(h, n, u).ref = u.id
           /\ After100(h, n, u) # NoHandle =>
                 /\ After100(h, n, u).utxo = Read(h, u).utxo
                 /\ After100(h, n, u).amount = Read(h, u).amount
                 /\ After100(h, n, u).labels = Read(h, u).labels
           /\ h # NoHandle => After100(h, n, u).addr = h.addr
           /\ <<n, "222">> \in u.assets =>
                 /\ After222(h, n, u).utxo = u.id /\ After222(h, n, u).addr = u.addr
                 /\ After222(h, n, u).ref = Read(h, u).ref
                 /\ After222(h, n, u).labels = Read(h, u).labels
                 /\ ~DoubleMint(h, n, u) => After222(h, n, u).amount = Read(h, u).amount
<1>1. PICK e : e = Read(h, u) OBVIOUS
<1>2. e \in Handle BY <1>1, AfterType
<1>3. NoHandle \notin Handle BY HandleIndexAssumption
<1>4. u.slot \in Nat /\ e.slot \in Nat /\ e.slot <= u.slot
  BY <1>1, <1>2 DEF UTxO, Handle, Read, Built
<1>5. h # NoHandle => e = h BY <1>1 DEF Read
<1>6. After000(h, n, u) =
        IF <<n, "000">> \notin u.assets THEN h
        ELSE [e EXCEPT !.addr = IF u.datum = NoDatum THEN e.addr ELSE u.datum,
                       !.utxo = u.id, !.ref = u.id, !.slot = u.slot]
  BY <1>1, <1>2, <1>4 DEF After000, Handle
<1>7. PICK s \in Nat : s = IF u.slot >= e.slot /\ u.datum # NoDatum THEN u.slot ELSE e.slot
  BY <1>4
<1>8. After001(h, n, u) =
        IF <<n, "001">> \notin u.assets THEN h
        ELSE [e EXCEPT !.labels = e.labels \union {"001"}, !.slot = s]
  BY <1>1, <1>2, <1>7 DEF After001, Handle
<1>9. After100(h, n, u) =
        IF <<n, "100">> \notin u.assets \/ u.datum = NoDatum THEN h
        ELSE [e EXCEPT !.ref = u.id, !.addr = IF h = NoHandle THEN NoAddr ELSE e.addr]
  BY <1>1, <1>2, <1>4 DEF After100, Handle
<1>10. PICK m : m = IF DoubleMint(h, n, u) THEN e.amount + 1 ELSE e.amount OBVIOUS
<1>11. After222(h, n, u) =
        IF <<n, "222">> \notin u.assets THEN h
        ELSE [e EXCEPT !.addr = u.addr, !.utxo = u.id, !.slot = u.slot, !.amount = m]
  BY <1>1, <1>2, <1>4, <1>10 DEF After222, Handle
<1>12. /\ After000(h, n, u) # NoHandle => After000(h, n, u).slot <= u.slot
       /\ <<n, "000">> \notin u.assets => After000(h, n, u) = h
       /\ <<n, "000">> \in u.assets =>
                 /\ After000(h, n, u).utxo = u.id /\ After000(h, n, u).ref = u.id
                 /\ u.datum # NoDatum => After000(h, n, u).addr = u.datum
                 /\ After000(h, n, u).amount = e.amount
                 /\ After000(h, n, u).labels = e.labels
  BY <1>2, <1>4, <1>6 DEF Handle
<1>13. /\ After001(h, n, u) # NoHandle => After001(h, n, u).slot <= u.slot
       /\ <<n, "001">> \notin u.assets => After001(h, n, u) = h
       /\ <<n, "001">> \in u.assets =>
                 /\ "001" \in After001(h, n, u).labels
                 /\ e.labels \subseteq After001(h, n, u).labels
                 /\ After001(h, n, u).utxo = e.utxo
                 /\ After001(h, n, u).ref = e.ref
                 /\ After001(h, n, u).addr = e.addr
                 /\ After001(h, n, u).amount = e.amount
  <2>1. s <= u.slot BY <1>4, <1>7
  <2> QED BY <1>2, <1>8, <2>1 DEF Handle
<1>14. /\ After100(h, n, u) # NoHandle => After100(h, n, u).slot <= u.slot
       /\ <<n, "100">> \notin u.assets => After100(h, n, u) = h
       /\ <<n, "100">> \in u.assets /\ u.datum # NoDatum =>
                 After100(h, n, u) # NoHandle /\ After100(h, n, u).ref = u.id
       /\ After100(h, n, u) # NoHandle =>
                 /\ After100(h, n, u).utxo = e.utxo
                 /\ After100(h, n, u).amount = e.amount
                 /\ After100(h, n, u).labels = e.labels
       /\ h # NoHandle => After100(h, n, u).addr = h.addr
  <2>1. CASE <<n, "100">> \notin u.assets \/ u.datum = NoDatum
    BY <1>4, <1>5, <1>9, <2>1
  <2>2. CASE <<n, "100">> \in u.assets /\ u.datum # NoDatum
    <3>1. PICK a : a = IF h = NoHandle THEN NoAddr ELSE e.addr OBVIOUS
    <3>2. After100(h, n, u) = [e EXCEPT !.ref = u.id, !.addr = a] BY <1>9, <2>2, <3>1
    <3>3. a \in AnyAddr BY <1>2, <3>1 DEF Handle, AnyAddr
    <3>4. After100(h, n, u) \in Handle BY <1>2, <3>2, <3>3 DEF Handle, UTxO
    <3> QED BY <1>2, <1>3, <1>4, <1>5, <2>2, <3>1, <3>2, <3>4 DEF Handle
  <2> QED BY <2>1, <2>2
<1>15. /\ After222(h, n, u) # NoHandle => After222(h, n, u).slot <= u.slot
       /\ <<n, "222">> \notin u.assets => After222(h, n, u) = h
       /\ <<n, "222">> \in u.assets =>
                 /\ After222(h, n, u).utxo = u.id /\ After222(h, n, u).addr = u.addr
                 /\ After222(h, n, u).ref = e.ref
                 /\ After222(h, n, u).labels = e.labels
                 /\ ~DoubleMint(h, n, u) => After222(h, n, u).amount = e.amount
  BY <1>2, <1>4, <1>10, <1>11 DEF Handle
<1> QED BY <1>1, <1>12, <1>13, <1>14, <1>15

(* The record updateHandleIndexes makes of a name from an output no older  *)
(* than the one it finds: it names the output when the output holds the    *)
(* main token and is otherwise where it was, it counts one, and it has     *)
(* what the companion tokens of the output say.                            *)
LEMMA IndexedFields ==
    ASSUME TypeOK, NEW u \in UTxO, NEW n \in Name,
           Stored(n) => handle[n].slot <= u.slot /\ handle[n].amount = 1
    PROVE  /\ Indexed(n, u) # NoHandle => Indexed(n, u).slot <= u.slot
           /\ <<n, "222">> \in u.assets =>
                 Indexed(n, u).utxo = u.id /\ Indexed(n, u).addr = u.addr
           /\ <<n, "000">> \in u.assets =>
                 /\ Indexed(n, u).utxo = u.id
                 /\ u.datum # NoDatum => Indexed(n, u).addr = u.datum
           /\ ~HasMain(n, u.assets) /\ Indexed(n, u) # NoHandle =>
                 Indexed(n, u).utxo = IF Stored(n) THEN handle[n].utxo ELSE NoUtxo
           /\ ~HasMain(n, u.assets) /\ Stored(n) => Indexed(n, u).addr = handle[n].addr
           /\ Indexed(n, u) # NoHandle =>
                 \/ Indexed(n, u).amount = 1
                 \/ n \in u.minted /\ Stored(n) /\ handle[n].utxo \notin {NoUtxo, u.id}
           /\ <<n, "100">> \in u.assets /\ u.datum # NoDatum =>
                 Indexed(n, u) # NoHandle /\ Indexed(n, u).ref = u.id
           /\ ({<<n, "100">>, <<n, "000">>} \intersect u.assets = {}) /\ Stored(n) =>
                 Indexed(n, u).ref = handle[n].ref
           /\ <<n, "001">> \in u.assets => "001" \in Indexed(n, u).labels
           /\ Stored(n) => handle[n].labels \subseteq Indexed(n, u).labels
<1> DEFINE h == handle[n]
           h1 == After000(h, n, u)
           h2 == After001(h1, n, u)
           h3 == After100(h2, n, u)
           r == After222(h3, n, u)
<1>1. h \in Entry BY DEF TypeOK, Entry
<1>2. Indexed(n, u) = r BY DEF Indexed
<1>3. ~({<<n, "222">>, <<n, "000">>} \subseteq u.assets)
  BY HandleIndexAssumption DEF UTxO
<1>4. h # NoHandle => h.slot <= u.slot BY DEF Stored
<1>5. /\ Read(h, u) = IF h = NoHandle THEN Built(u) ELSE h
      /\ Read(h1, u) = IF h1 = NoHandle THEN Built(u) ELSE h1
      /\ Read(h2, u) = IF h2 = NoHandle THEN Built(u) ELSE h2
      /\ Read(h3, u) = IF h3 = NoHandle THEN Built(u) ELSE h3
  BY DEF Read
<1>6. /\ Built(u).addr = u.addr /\ Built(u).utxo = NoUtxo /\ Built(u).ref = NoUtxo
      /\ Built(u).amount = 1 /\ Built(u).labels = {}
  BY DEF Built
<1>7. DoubleMint(h3, n, u) => n \in u.minted /\ h3 # NoHandle /\ h3.utxo # NoUtxo /\ h3.utxo # u.id
  BY DEF DoubleMint
<1> HIDE DEF h, h1
<1>8. /\ h1 \in Entry /\ (h1 # NoHandle => h1.slot <= u.slot)
      /\ h # NoHandle \/ <<n, "000">> \in u.assets => h1 # NoHandle
      /\ <<n, "000">> \notin u.assets => h1 = h
      /\ <<n, "000">> \in u.assets =>
                 /\ h1.utxo = u.id /\ h1.ref = u.id
                 /\ u.datum # NoDatum => h1.addr = u.datum
                 /\ h1.amount = Read(h, u).amount /\ h1.labels = Read(h, u).labels
  BY <1>1, <1>4, AfterType, LabelStep DEF h1
<1> HIDE DEF h2
<1>9. /\ h2 \in Entry /\ (h2 # NoHandle => h2.slot <= u.slot)
      /\ h1 # NoHandle \/ <<n, "001">> \in u.assets => h2 # NoHandle
      /\ <<n, "001">> \notin u.assets => h2 = h1
      /\ <<n, "001">> \in u.assets =>
                 /\ "001" \in h2.labels /\ Read(h1, u).labels \subseteq h2.labels
                 /\ h2.utxo = Read(h1, u).utxo /\ h2.ref = Read(h1, u).ref
                 /\ h2.addr = Read(h1, u).addr /\ h2.amount = Read(h1, u).amount
  BY <1>8, AfterType, LabelStep DEF h2
<1> HIDE DEF h3
<1>10. /\ h3 \in Entry /\ (h3 # NoHandle => h3.slot <= u.slot)
       /\ h2 # NoHandle => h3 # NoHandle
       /\ <<n, "100">> \notin u.assets => h3 = h2
       /\ <<n, "100">> \in u.assets /\ u.datum # NoDatum => h3 # NoHandle /\ h3.ref = u.id
       /\ h3 # NoHandle =>
                 /\ h3.utxo = Read(h2, u).utxo /\ h3.amount = Read(h2, u).amount
                 /\ h3.labels = Read(h2, u).labels
       /\ h2 # NoHandle => h3.addr = h2.addr
  BY <1>9, AfterType, LabelStep DEF h3
<1> HIDE DEF r
<1>11. /\ r # NoHandle => r.slot <= u.slot
       /\ h3 # NoHandle \/ <<n, "222">> \in u.assets => r # NoHandle
       /\ <<n, "222">> \notin u.assets => r = h3
       /\ <<n, "222">> \in u.assets =>
                 /\ r.utxo = u.id /\ r.addr = u.addr /\ r.ref = Read(h3, u).ref
                 /\ r.labels = Read(h3, u).labels
                 /\ ~DoubleMint(h3, n, u) => r.amount = Read(h3, u).amount
  BY <1>10, AfterType, LabelStep DEF r
(* Without a 000 token the record keeps its output and address till 222.   *)
<1>12. ASSUME <<n, "000">> \notin u.assets
       PROVE  /\ h3 # NoHandle => h3.utxo = Read(h, u).utxo /\ h3.amount = Read(h, u).amount
              /\ h # NoHandle => h3.addr = h.addr
  BY <1>5, <1>8, <1>9, <1>10, <1>12
<1>13. <<n, "222">> \in u.assets \/ <<n, "000">> \in u.assets <=> HasMain(n, u.assets)
  BY DEF HasMain, Main
<1>14. Stored(n) <=> h # NoHandle BY DEF Stored, h
<1>15. <<n, "000">> \in u.assets =>
         r = h3 /\ h3.utxo = u.id /\ (u.datum # NoDatum => h3.addr = u.datum)
  BY <1>3, <1>5, <1>8, <1>9, <1>10, <1>11
<1>16. ~HasMain(n, u.assets) /\ r # NoHandle => r.utxo = IF Stored(n) THEN h.utxo ELSE NoUtxo
  BY <1>5, <1>6, <1>11, <1>12, <1>13, <1>14
<1>17. ~HasMain(n, u.assets) /\ Stored(n) => r.addr = h.addr
  BY <1>11, <1>12, <1>13, <1>14
<1>18. r # NoHandle => \/ r.amount = 1
                       \/ n \in u.minted /\ Stored(n) /\ h.utxo \notin {NoUtxo, u.id}
  <2>1. h # NoHandle => h.amount = 1 BY <1>14 DEF h
  <2>2. Read(h, u).amount = 1 BY <1>5, <1>6, <2>1
  <2>3. CASE <<n, "000">> \in u.assets
    <3>1. h3.amount = 1 BY <1>5, <1>8, <1>9, <1>10, <2>2, <2>3
    <3> QED BY <1>15, <2>3, <3>1
  <2>4. CASE <<n, "000">> \notin u.assets /\ <<n, "222">> \notin u.assets
    BY <1>11, <1>12, <2>2, <2>4
  <2>5. CASE <<n, "000">> \notin u.assets /\ <<n, "222">> \in u.assets
    <3>1. Read(h3, u).amount = 1 BY <1>5, <1>6, <1>12, <2>2, <2>5
    <3>2. DoubleMint(h3, n, u) => n \in u.minted /\ h # NoHandle /\ h.utxo \notin {NoUtxo, u.id}
      BY <1>5, <1>6, <1>7, <1>12, <2>5
    <3> QED BY <1>11, <1>14, <2>5, <3>1, <3>2
  <2> QED BY <2>3, <2>4, <2>5
<1>19. <<n, "100">> \in u.assets /\ u.datum # NoDatum => r # NoHandle /\ r.ref = u.id
  BY <1>5, <1>10, <1>11
<1>20. ({<<n, "100">>, <<n, "000">>} \intersect u.assets = {}) /\ Stored(n) => r.ref = h.ref
  BY <1>5, <1>8, <1>9, <1>10, <1>11, <1>14
<1>21. <<n, "001">> \in u.assets => "001" \in r.labels
  BY <1>5, <1>9, <1>10, <1>11
<1>22. Stored(n) => h.labels \subseteq r.labels
  BY <1>5, <1>8, <1>9, <1>10, <1>11, <1>14
<1> QED BY <1>2, <1>11, <1>15, <1>16, <1>17, <1>18, <1>19, <1>20, <1>21, <1>22 DEF h

(***************************************************************************)
(* The records in every phase of a pass.  A live output that this pass has *)
(* indexed, or that is older than the block, has the record of its main    *)
(* token; a record whose main token is gone is about to be burnt; and an   *)
(* output of the block that mints a name finds no record of an older token *)
(* of that name, unless that one is about to be burnt: it counts one.      *)
(***************************************************************************)
Matches(n, u) ==
    /\ Stored(n) /\ handle[n].utxo = u.id
    /\ <<n, "222">> \in u.assets => handle[n].addr = u.addr
    /\ <<n, "000">> \in u.assets /\ u.datum # NoDatum => handle[n].addr = u.datum

ToBurn(n) == pc \in {"idle", "burn"} /\ n \in BurnedIn(Main)

RecordOf(n) ==
    /\ Stored(n) => handle[n].amount = 1 /\ handle[n].slot <= currentSlot + 1
    /\ \A u \in ledger \ Pending : HasMain(n, u.assets) => Matches(n, u)
    /\ (\A u \in ledger : ~HasMain(n, u.assets)) /\ Stored(n) => ToBurn(n)
    /\ \A u \in Pending : n \in u.minted /\ Stored(n) /\ handle[n].utxo \notin {NoUtxo, u.id} => ToBurn(n)

CompanionsOf(n) == \A u \in ledger \ Pending :
    /\ <<n, "100">> \in u.assets /\ u.datum # NoDatum => Stored(n) /\ handle[n].ref = u.id
    /\ <<n, "001">> \in u.assets => Stored(n) /\ "001" \in handle[n].labels

RecordInv == \A n \in Name : RecordOf(n)
CompanionInv == \A n \in Name : CompanionsOf(n)

(* A main token has one name and is in one output. *)
LEMMA OneMain ==
    ASSUME ChainInv, NEW n \in Name, NEW u \in ledger, NEW v \in ledger,
           HasMain(n, u.assets), HasMain(n, v.assets)
    PROVE  u = v
<1>1. PICK l \in Main : <<n, l>> \in u.assets BY DEF HasMain
<1>2. PICK m \in Main : <<n, m>> \in v.assets BY DEF HasMain
<1>3. <<n, l>> \in Asset /\ <<n, m>> \in Asset
  BY <1>1, <1>2 DEF ChainInv, TypeOK, UTxO
<1>4. l = m BY <1>3, HandleIndexAssumption DEF Main
<1> QED BY <1>1, <1>2, <1>4 DEF ChainInv, Nft

(* The tokens of an output name it. *)
LEMMA NameHeld == ASSUME NEW n, NEW l, NEW as, <<n, l>> \in as PROVE n \in NamesOf(as)
<1>1. <<n, l>>[1] = n OBVIOUS
<1> QED BY <1>1 DEF NamesOf

LEMMA MainIsName == ASSUME NEW n, NEW as, HasMain(n, as) PROVE n \in NamesOf(as)
  BY NameHeld DEF HasMain

(* The facts of the ledger's side that the records need of every step. *)
LEMMA PendingFacts ==
    ASSUME ChainInv, PendingOK
    PROVE  /\ Survivors = ledger \intersect BlockOuts /\ Pending \subseteq Survivors
           /\ \A u \in Pending : u \in UTxO /\ u.slot = currentSlot + 1
           /\ \A u \in ledger : u \in UTxO /\ \A n \in u.minted : HasMain(n, u.assets)
<1>1. Survivors = ledger \intersect BlockOuts /\ Pending \subseteq Survivors
  BY SurvivorsLive DEF PendingOK
<1> QED BY <1>1 DEF ChainInv, TypeOK, NewOuts, LiveOuts

(* The transaction the chain appends: the store does not see it yet. *)
LEMMA RecordAppend ==
    ASSUME ChainInv, TypeOK', PendingOK, RecordInv, [Next]_vars, AppendTx
    PROVE  RecordInv'
<1>1. /\ Pending = Survivors /\ Pending' = Survivors' /\ ChainInv' /\ PendingOK'
  BY PendingStep
<1>2. pc = "idle" /\ pc' = "idle" /\ UNCHANGED <<handle, currentSlot>>
  BY DEF AppendTx, index
<1>3. PICK ins \in SUBSET ledger :
      \E burned \in SUBSET Assets(ins), minted \in SUBSET (Asset \ Assets(ledger)) :
      \E outs \in SUBSET UTxO :
           /\ Submit(ins, burned, outs)
           /\ Orphans \/ \A a \in Carried(ledger, burned, minted) :
                            HasMain(a[1], Carried(ledger, burned, minted))
           /\ Assets(outs) = Carried(ins, burned, minted)
           /\ \A u \in outs : /\ u.id \in {nextId, nextId + 1} /\ u.slot = currentSlot + 1
                              /\ u.minted = {n \in Name : HasMain(n, u.assets \intersect minted)}
           /\ \A u, v \in outs : u.id = v.id \/ u.assets \intersect v.assets # {} => u = v
  BY Appended DEF ChainInv
<1>4. PICK burned \in SUBSET Assets(ins), minted \in SUBSET (Asset \ Assets(ledger)) :
      \E outs \in SUBSET UTxO :
           /\ Submit(ins, burned, outs)
           /\ Orphans \/ \A a \in Carried(ledger, burned, minted) :
                            HasMain(a[1], Carried(ledger, burned, minted))
           /\ Assets(outs) = Carried(ins, burned, minted)
           /\ \A u \in outs : /\ u.id \in {nextId, nextId + 1} /\ u.slot = currentSlot + 1
                              /\ u.minted = {n \in Name : HasMain(n, u.assets \intersect minted)}
           /\ \A u, v \in outs : u.id = v.id \/ u.assets \intersect v.assets # {} => u = v
  BY <1>3
<1>5. PICK outs \in SUBSET UTxO :
           /\ Submit(ins, burned, outs)
           /\ Orphans \/ \A a \in Carried(ledger, burned, minted) :
                            HasMain(a[1], Carried(ledger, burned, minted))
           /\ Assets(outs) = Carried(ins, burned, minted)
           /\ \A u \in outs : /\ u.id \in {nextId, nextId + 1} /\ u.slot = currentSlot + 1
                              /\ u.minted = {n \in Name : HasMain(n, u.assets \intersect minted)}
           /\ \A u, v \in outs : u.id = v.id \/ u.assets \intersect v.assets # {} => u = v
  BY <1>4
<1>6. /\ BlockOuts' = BlockOuts \union outs
      /\ BurnedIn(Main)' = BurnedIn(Main) \union {a[1] : a \in {b \in burned : b[2] \in Main}}
  BY <1>5, BlockGrows DEF ChainInv
<1>7. ledger' = (ledger \ ins) \union outs BY <1>5 DEF Submit
<1>8. Survivors = ledger \intersect BlockOuts /\ Survivors' = ledger' \intersect BlockOuts'
  BY <1>1, SurvivorsLive DEF ChainInv, NewOuts, LiveOuts, Survivors
<1>9. \A n : ToBurn(n) => ToBurn(n)' BY <1>2, <1>6 DEF ToBurn
<1> SUFFICES ASSUME NEW n \in Name PROVE RecordOf(n)' BY DEF RecordInv
<1>10. RecordOf(n) BY DEF RecordInv
<1>11. (Stored(n)' <=> Stored(n)) /\ handle'[n] = handle[n] BY <1>2 DEF Stored
<1>12. Stored(n)' => handle'[n].amount = 1 /\ handle'[n].slot <= currentSlot' + 1
  BY <1>2, <1>10, <1>11 DEF RecordOf
<1>13. ASSUME NEW u \in ledger' \ Pending', HasMain(n, u.assets) PROVE Matches(n, u)'
  <2>1. u \in ledger \ Pending BY <1>1, <1>6, <1>7, <1>8, <1>13
  <2>2. Matches(n, u) BY <1>10, <1>13, <2>1 DEF RecordOf
  <2> QED BY <1>2, <2>2 DEF Matches, Stored
<1>14. ASSUME \A u \in ledger' : ~HasMain(n, u.assets), Stored(n) PROVE ToBurn(n)'
  <2>1. CASE \A u \in ledger : ~HasMain(n, u.assets)
    BY <1>9, <1>10, <1>14, <2>1 DEF RecordOf
  <2>2. CASE \E u \in ledger : HasMain(n, u.assets)
    <3>1. PICK u \in ledger : HasMain(n, u.assets) BY <2>2
    <3>2. PICK l \in Main : <<n, l>> \in u.assets BY <3>1 DEF HasMain
    <3>3. u \in ins BY <1>7, <1>14, <3>1
    <3>4. <<n, l>> \in Assets(ins) BY <3>2, <3>3 DEF Assets
    <3>5. <<n, l>> \notin Assets(outs)
      <4> SUFFICES ASSUME NEW v \in outs, <<n, l>> \in v.assets PROVE FALSE BY DEF Assets
      <4> QED BY <1>7, <1>14 DEF HasMain
    <3>6. <<n, l>> \in burned BY <1>5, <3>4, <3>5 DEF Carried
    <3>7. n \in BurnedIn(Main)'
      <4>1. <<n, l>>[1] = n /\ <<n, l>>[2] = l OBVIOUS
      <4> QED BY <1>6, <3>2, <3>6, <4>1
    <3> QED BY <1>2, <3>7 DEF ToBurn
  <2> QED BY <2>1, <2>2
<1>15. ASSUME NEW u \in Pending', n \in u.minted, Stored(n), handle[n].utxo \notin {NoUtxo, u.id}
       PROVE  ToBurn(n)'
  <2>1. CASE u \in Pending BY <1>9, <1>10, <1>15, <2>1 DEF RecordOf
  <2>2. CASE u \in outs
    <3>1. HasMain(n, u.assets \intersect minted) BY <1>5, <1>15, <2>2
    <3>2. PICK l \in Main : <<n, l>> \in minted BY <3>1 DEF HasMain
    <3>3. \A v \in ledger : ~HasMain(n, v.assets)
      <4> SUFFICES ASSUME NEW v \in ledger, NEW m \in Main, <<n, m>> \in v.assets PROVE FALSE
        BY DEF HasMain
      <4>1. <<n, m>> \in Assets(ledger) BY DEF Assets
      <4>2. <<n, m>> \in Asset BY DEF ChainInv, TypeOK, UTxO
      <4>3. <<n, l>> \in Asset /\ <<n, l>> \notin Assets(ledger) BY <3>2
      <4>4. l = m BY <4>2, <4>3, HandleIndexAssumption DEF Main
      <4> QED BY <4>1, <4>3, <4>4
    <3> QED BY <1>9, <1>10, <1>15, <3>3 DEF RecordOf
  <2> QED BY <1>1, <1>6, <1>7, <1>8, <2>1, <2>2
<1> QED BY <1>11, <1>12, <1>13, <1>14, <1>15 DEF RecordOf

(* The burn pipeline removes the record of every name the block burns, and *)
(* what is left of such a name on the chain is still to be indexed.        *)
LEMMA RecordBurn ==
    ASSUME Orphans = FALSE, ChainInv, TypeOK', PendingOK, RecordInv, [Next]_vars, BurnHandles
    PROVE  /\ RecordInv' /\ Pending' = Pending
           /\ \A n \in Name : Stored(n)' => Stored(n) /\ handle'[n] = handle[n]
           /\ \A n \in Name : \A u \in ledger \ Pending :
                 n \in NamesOf(u.assets) => handle'[n] = handle[n]
<1>1. Pending' = Pending /\ Pending = Survivors
  BY PendingStep
<1>2. pc = "burn" /\ pc' = "labels" /\ UNCHANGED <<ledger, currentSlot>>
  BY DEF BurnHandles, chain
<1>3. ASSUME NEW n \in Name
      PROVE  handle'[n] = IF n \in BurnedIn(Main) /\ Stored(n) THEN NoHandle ELSE handle[n]
  <2>1. Stored(n) => handle[n].amount = 1 BY DEF RecordInv, RecordOf
  <2>2. (n \in Gone <=> n \in BurnedIn(Main) /\ Stored(n)) /\ n \notin Fewer
    BY <2>1 DEF Gone, Fewer
  <2> QED BY <2>2 DEF BurnHandles
<1>4. \A n \in Name : Stored(n)' => Stored(n) /\ handle'[n] = handle[n] /\ n \notin BurnedIn(Main)
  BY <1>3 DEF Stored
<1>5. ASSUME NEW n \in Name, NEW u \in ledger \ Pending, n \in NamesOf(u.assets)
      PROVE  handle'[n] = handle[n]
  <2>1. u \notin BlockOuts BY <1>1, SurvivorsLive
  <2>2. n \notin BurnedIn(Main) BY <1>5, <2>1 DEF ChainInv, BurntIsNew
  <2> QED BY <1>3, <2>2
<1>6. ASSUME NEW n \in Name PROVE RecordOf(n)'
  <2>0. RecordOf(n) BY DEF RecordInv
  <2>1. Stored(n)' => handle'[n].amount = 1 /\ handle'[n].slot <= currentSlot' + 1
    BY <1>2, <1>4, <2>0 DEF RecordOf
  <2>2. ASSUME NEW u \in ledger' \ Pending', HasMain(n, u.assets) PROVE Matches(n, u)'
    <3>1. u \in ledger \ Pending /\ Matches(n, u) BY <1>1, <1>2, <2>0, <2>2 DEF RecordOf
    <3>2. handle'[n] = handle[n] BY <1>5, <2>2, <3>1, MainIsName
    <3> QED BY <3>1, <3>2 DEF Matches, Stored
  <2>3. ASSUME \A u \in ledger' : ~HasMain(n, u.assets), Stored(n)' PROVE ToBurn(n)'
    BY <1>2, <1>4, <2>0, <2>3 DEF RecordOf, ToBurn
  <2>4. ASSUME NEW u \in Pending', n \in u.minted, Stored(n)', handle'[n].utxo \notin {NoUtxo, u.id}
        PROVE  ToBurn(n)'
    BY <1>1, <1>4, <2>0, <2>4 DEF RecordOf, ToBurn
  <2> QED BY <2>1, <2>2, <2>3, <2>4 DEF RecordOf
<1> QED BY <1>1, <1>4, <1>5, <1>6 DEF RecordInv

(* The output a pass indexes next, as the records need it. *)
LEMMA OutputFacts ==
    ASSUME ChainInv, TypeOK', PendingOK, RecordInv, [Next]_vars, AddOutput
    PROVE  /\ Pending = todo /\ Pending' = todo' /\ ledger' = ledger /\ currentSlot' = currentSlot
           /\ pc = "outputs" /\ pc' = "outputs"
           /\ \E u \in todo :
                 /\ u \in ledger /\ u \in UTxO /\ todo' = todo \ {u} /\ u.slot = currentSlot + 1
                 /\ handle' = [n \in Name |-> IF n \in Saved(u) THEN Indexed(n, u) ELSE handle[n]]
                 /\ \A n \in Name : /\ Stored(n) => handle[n].slot <= u.slot /\ handle[n].amount = 1
                                    /\ n \in u.minted /\ Stored(n) => handle[n].utxo \in {NoUtxo, u.id}
                 /\ \A n \in Saved(u) : n \in Name /\ n \in NamesOf(u.assets) /\ Indexed(n, u) # NoHandle
<1>1. Pending = todo /\ Pending' = todo' BY PendingStep
<1>2. /\ UNCHANGED <<ledger, currentSlot>> /\ pc = "outputs" /\ pc' = "outputs"
  BY DEF AddOutput, chain
<1>3. PICK u \in todo : todo' = todo \ {u} /\ handle' = After(u)
  BY DEF AddOutput, IndexOutput
<1>4. u \in ledger /\ u \in UTxO /\ u.slot = currentSlot + 1
  BY <1>1, PendingFacts
<1>5. \A n \in Name : /\ Stored(n) => handle[n].slot <= u.slot /\ handle[n].amount = 1
                      /\ n \in u.minted /\ Stored(n) => handle[n].utxo \in {NoUtxo, u.id}
  BY <1>1, <1>2, <1>4 DEF RecordInv, RecordOf, ToBurn
<1>6. ASSUME NEW n \in Saved(u)
      PROVE  n \in Name /\ n \in NamesOf(u.assets) /\ Indexed(n, u) # NoHandle
  <2>1. n \in Name /\ Indexed(n, u) \in Handle BY <1>4, IndexedType DEF ChainInv
  <2> QED BY <2>1, HandleIndexAssumption DEF Saved
<1> QED BY <1>1, <1>2, <1>3, <1>4, <1>5, <1>6 DEF After

(* The pipeline that indexes an output makes the records match it. *)
LEMMA RecordOutput ==
    ASSUME Orphans = FALSE, ChainInv, TypeOK', PendingOK, RecordInv, [Next]_vars, AddOutput
    PROVE  RecordInv'
<1>1. /\ Pending = todo /\ Pending' = todo' /\ ledger' = ledger /\ currentSlot' = currentSlot
      /\ pc = "outputs" /\ pc' = "outputs"
  BY OutputFacts
<1>2. PICK u \in todo :
         /\ u \in ledger /\ u \in UTxO /\ todo' = todo \ {u} /\ u.slot = currentSlot + 1
         /\ handle' = [n \in Name |-> IF n \in Saved(u) THEN Indexed(n, u) ELSE handle[n]]
         /\ \A n \in Name : /\ Stored(n) => handle[n].slot <= u.slot /\ handle[n].amount = 1
                            /\ n \in u.minted /\ Stored(n) => handle[n].utxo \in {NoUtxo, u.id}
         /\ \A n \in Saved(u) : n \in Name /\ n \in NamesOf(u.assets) /\ Indexed(n, u) # NoHandle
  BY OutputFacts
<1>3. TypeOK BY DEF ChainInv
<1>4. \A n : ~ToBurn(n) BY <1>1 DEF ToBurn
<1>5. \A v \in Pending : v \in ledger /\ \A n \in v.minted : HasMain(n, v.assets)
  BY PendingFacts
<1> SUFFICES ASSUME NEW n \in Name PROVE RecordOf(n)' BY DEF RecordInv
<1>6. RecordOf(n) BY DEF RecordInv
<1>7. CASE n \notin Saved(u)
  <2>1. handle'[n] = handle[n] /\ (Stored(n)' <=> Stored(n)) BY <1>2, <1>7 DEF Stored
  <2>2. ~HasMain(n, u.assets)
    <3> SUFFICES ASSUME HasMain(n, u.assets) PROVE FALSE OBVIOUS
    <3>1. n \in NamesOf(u.assets) BY MainIsName
    <3> QED BY <1>7, <3>1 DEF Saved, HasMain
  <2>3. \A v \in ledger \ Pending' : HasMain(n, v.assets) => Matches(n, v)'
    BY <1>1, <1>2, <1>6, <2>1, <2>2 DEF RecordOf, Matches
  <2> QED BY <1>1, <1>2, <1>4, <1>6, <2>1, <2>3 DEF RecordOf
<1>8. CASE n \in Saved(u)
  <2> DEFINE r == Indexed(n, u)
  <2>1. handle'[n] = r /\ r # NoHandle /\ Stored(n)' /\ n \in NamesOf(u.assets)
    BY <1>2, <1>8 DEF Stored
  <2>2. /\ r.slot <= u.slot /\ r.amount = 1
        /\ <<n, "222">> \in u.assets => r.utxo = u.id /\ r.addr = u.addr
        /\ <<n, "000">> \in u.assets => r.utxo = u.id /\ (u.datum # NoDatum => r.addr = u.datum)
        /\ ~HasMain(n, u.assets) => r.utxo = IF Stored(n) THEN handle[n].utxo ELSE NoUtxo
        /\ ~HasMain(n, u.assets) /\ Stored(n) => r.addr = handle[n].addr
    <3>1. /\ Stored(n) => handle[n].slot <= u.slot /\ handle[n].amount = 1
          /\ n \in u.minted /\ Stored(n) => handle[n].utxo \in {NoUtxo, u.id}
      BY <1>2
    <3>2. u \in UTxO BY <1>2
    <3>3. /\ r # NoHandle => r.slot <= u.slot
          /\ <<n, "222">> \in u.assets => r.utxo = u.id /\ r.addr = u.addr
          /\ <<n, "000">> \in u.assets => r.utxo = u.id /\ (u.datum # NoDatum => r.addr = u.datum)
          /\ ~HasMain(n, u.assets) /\ r # NoHandle =>
                r.utxo = IF Stored(n) THEN handle[n].utxo ELSE NoUtxo
          /\ ~HasMain(n, u.assets) /\ Stored(n) => r.addr = handle[n].addr
          /\ r # NoHandle => \/ r.amount = 1
                             \/ n \in u.minted /\ Stored(n) /\ handle[n].utxo \notin {NoUtxo, u.id}
      BY <1>3, <3>1, <3>2, IndexedFields
    <3> QED BY <2>1, <3>1, <3>3
  <2> HIDE DEF r
  <2>3. HasMain(n, Assets(ledger))
    <3>1. PICK a \in u.assets : a[1] = n BY <2>1 DEF NamesOf
    <3> QED BY <1>2, <3>1 DEF ChainInv, Mained
  <2>4. \E v \in ledger : HasMain(n, v.assets) BY <2>3 DEF HasMain, Assets
  <2>5. ASSUME NEW v \in ledger, v \notin Pending', HasMain(n, v.assets) PROVE Matches(n, v)'
    <3>1. CASE v = u
      <4>1. \E l \in Main : <<n, l>> \in u.assets BY <2>5, <3>1 DEF HasMain
      <4>2. r.utxo = u.id BY <2>2, <4>1 DEF Main
      <4> QED BY <2>1, <2>2, <3>1, <4>2 DEF Matches
    <3>2. CASE v # u
      <4>1. Matches(n, v) BY <1>1, <1>2, <1>6, <2>5, <3>2 DEF RecordOf
      <4>2. ~HasMain(n, u.assets) BY <1>2, <2>5, <3>2, OneMain
      <4> QED BY <2>1, <2>2, <4>1, <4>2 DEF Matches
    <3> QED BY <3>1, <3>2
  <2>6. ASSUME NEW v \in Pending', n \in v.minted, handle'[n].utxo \notin {NoUtxo, v.id} PROVE FALSE
    <3>1. v \in Pending /\ v # u /\ v \in ledger /\ HasMain(n, v.assets)
      BY <1>1, <1>2, <1>5, <2>6
    <3>2. ~HasMain(n, u.assets) BY <1>2, <3>1, OneMain
    <3>3. Stored(n) /\ handle[n].utxo \notin {NoUtxo, v.id} BY <2>1, <2>2, <2>6, <3>2
    <3> QED BY <1>4, <1>6, <2>6, <3>1, <3>3 DEF RecordOf
  <2> QED BY <1>1, <1>2, <2>1, <2>2, <2>4, <2>5, <2>6 DEF RecordOf
<1> QED BY <1>7, <1>8

(* What every other step leaves alone: the pass moves on, or starts over.  *)
LEMMA OtherSteps ==
    ASSUME ChainInv, TypeOK', PendingOK, [Next]_vars,
           ~AppendTx, ~BurnHandles, ~AddOutput
    PROVE  /\ UNCHANGED <<ledger, handle>> /\ Pending \subseteq Pending' /\ Pending' \subseteq Survivors
           /\ currentSlot' = currentSlot \/ currentSlot' = currentSlot + 1
           /\ \A n : ToBurn(n) => ToBurn(n)'
<1>1. CASE AddMintData
  <2>1. pc = "mint" /\ UNCHANGED <<ledger, handle, currentSlot>> BY <1>1 DEF AddMintData, chain
  <2>2. Pending' = Survivors /\ Pending = Survivors BY <1>1, PendingStep
  <2> QED BY <2>1, <2>2 DEF ToBurn
<1>2. CASE RemoveSpent
  <2>1. pc = "spend" /\ UNCHANGED <<ledger, handle, currentSlot>> BY <1>2 DEF RemoveSpent, chain
  <2>2. Pending = {} /\ Pending' = {} BY <1>2, PendingStep
  <2> QED BY <2>1, <2>2 DEF ToBurn
<1>3. CASE CommitCursor
  <2>1. pc = "commit" /\ UNCHANGED <<ledger, handle>> /\ currentSlot' = currentSlot + 1
    BY <1>3 DEF CommitCursor, chain, index
  <2>2. Pending = {} /\ Pending' = {} BY <1>3, PendingStep
  <2> QED BY <2>1, <2>2 DEF ToBurn
<1>4. CASE Passes
  <2>1. UNCHANGED <<ledger, handle, currentSlot>> /\ (pc \in {"idle", "burn"} => pc' \in {"idle", "burn"})
    BY <1>4 DEF Passes
  <2>2. Pending \subseteq Pending' /\ Pending' \subseteq Survivors BY <1>4, PendingStep
  <2>3. ~CommitCursor BY <1>4 DEF Passes, CommitCursor
  <2>4. BurnedIn(Main)' = BurnedIn(Main) BY <2>3, PendingStep
  <2> QED BY <2>1, <2>2, <2>4 DEF ToBurn
<1>5. CASE UNCHANGED vars
  <2>1. UNCHANGED <<ledger, handle, currentSlot, block, pc, todo>> BY <1>5 DEF vars, chain, index
  <2>2. Txs' = Txs BY <2>1 DEF Txs
  <2>3. Survivors' = Survivors /\ BurnedIn(Main)' = BurnedIn(Main)
    BY <2>2 DEF Survivors, BlockOuts, Spent, BurnedIn
  <2>4. Pending' = Pending BY <2>1, <2>3 DEF Pending
  <2> QED BY <2>1, <2>3, <2>4 DEF ToBurn, PendingOK
<1> QED BY <1>1, <1>2, <1>3, <1>4, <1>5, StepKinds

(* Every step keeps the records as RecordInv has them. *)
LEMMA RecordStep ==
    ASSUME Orphans = FALSE, ChainInv, TypeOK', PendingOK, RecordInv, [Next]_vars
    PROVE  RecordInv'
<1>1. CASE AppendTx BY <1>1, RecordAppend
<1>2. CASE BurnHandles BY <1>2, RecordBurn
<1>3. CASE AddOutput BY <1>3, RecordOutput
<1>4. CASE ~AppendTx /\ ~BurnHandles /\ ~AddOutput
  <2>1. /\ UNCHANGED <<ledger, handle>> /\ Pending \subseteq Pending' /\ Pending' \subseteq Survivors
        /\ currentSlot' = currentSlot \/ currentSlot' = currentSlot + 1
        /\ \A n : ToBurn(n) => ToBurn(n)'
    BY <1>4, OtherSteps
  <2>2. Survivors \subseteq ledger /\ currentSlot \in Nat
        /\ \A u \in ledger : \A n \in u.minted : HasMain(n, u.assets)
    BY PendingFacts DEF ChainInv, TypeOK
  <2> SUFFICES ASSUME NEW n \in Name PROVE RecordOf(n)' BY DEF RecordInv
  <2>3. RecordOf(n) /\ handle'[n] = handle[n] /\ (Stored(n)' <=> Stored(n))
    BY <2>1 DEF RecordInv, Stored
  <2>4. Stored(n) => handle[n].amount = 1 /\ handle[n].slot <= currentSlot' + 1
    <3>1. Stored(n) => handle[n] \in Handle BY DEF ChainInv, TypeOK, Stored
    <3>2. Stored(n) => handle[n].slot \in Nat BY <3>1 DEF Handle
    <3> QED BY <2>1, <2>2, <2>3, <3>2 DEF RecordOf
  <2>5. \A u \in ledger \ Pending' : HasMain(n, u.assets) => Matches(n, u)'
    BY <2>1, <2>3 DEF RecordOf, Matches
  <2>6. ASSUME NEW u \in Pending', n \in u.minted, Stored(n), handle[n].utxo \notin {NoUtxo, u.id}
        PROVE  ToBurn(n)'
    <3>1. CASE u \in Pending BY <2>1, <2>3, <2>6, <3>1 DEF RecordOf
    <3>2. CASE u \notin Pending
      <4>1. u \in ledger \ Pending /\ HasMain(n, u.assets) BY <2>1, <2>2, <2>6, <3>2
      <4> QED BY <2>3, <2>6, <4>1 DEF RecordOf, Matches
    <3> QED BY <3>1, <3>2
  <2> QED BY <2>1, <2>3, <2>4, <2>5, <2>6 DEF RecordOf
<1> QED BY <1>1, <1>2, <1>3, <1>4

(* A virtual subhandle is its own reference: the code takes the 000 token  *)
(* for both, so its name has no 100 token beside it.                       *)
OneReference == \A n \in Name : ~({<<n, "000">>, <<n, "100">>} \subseteq Asset)

(* Every step keeps the companion fields. *)
LEMMA CompanionStep ==
    ASSUME Orphans = FALSE, OneReference, ChainInv, TypeOK', PendingOK, RecordInv, CompanionInv,
           [Next]_vars
    PROVE  CompanionInv'
<1> SUFFICES ASSUME NEW n \in Name PROVE CompanionsOf(n)' BY DEF CompanionInv
<1>0. CompanionsOf(n) BY DEF CompanionInv
<1>1. CASE AppendTx
  <2>1. /\ Pending = Survivors /\ Pending' = Survivors' /\ ChainInv' /\ handle' = handle
    BY <1>1, PendingStep DEF AppendTx, index
  <2>2. Survivors = ledger \intersect BlockOuts /\ Survivors' = ledger' \intersect BlockOuts'
    BY <2>1, SurvivorsLive DEF ChainInv, NewOuts, LiveOuts, Survivors
  <2>3. ledger' \ Pending' \subseteq ledger \ Pending
    <3>1. \E ins \in SUBSET ledger :
          \E burned \in SUBSET Assets(ins), minted \in SUBSET (Asset \ Assets(ledger)) :
          \E outs \in SUBSET UTxO : Submit(ins, burned, outs)
      BY <1>1, Appended DEF ChainInv
    <3>2. PICK ins, burned, outs : Submit(ins, burned, outs) BY <3>1
    <3>3. BlockOuts' = BlockOuts \union outs /\ ledger' = (ledger \ ins) \union outs
      BY <3>2, BlockGrows DEF ChainInv, Submit
    <3> QED BY <2>1, <2>2, <3>3
  <2> QED BY <1>0, <2>1, <2>3 DEF CompanionsOf, Stored
<1>2. CASE BurnHandles
  <2>1. /\ Pending' = Pending /\ ledger' = ledger
        /\ \A u \in ledger \ Pending : n \in NamesOf(u.assets) => handle'[n] = handle[n]
    BY <1>2, RecordBurn DEF BurnHandles, chain
  <2>2. ASSUME NEW u \in ledger \ Pending, NEW l, <<n, l>> \in u.assets PROVE handle'[n] = handle[n]
    BY <2>1, <2>2, NameHeld
  <2> QED BY <1>0, <2>1, <2>2 DEF CompanionsOf, Stored
<1>3. CASE AddOutput
  <2>1. Pending = todo /\ Pending' = todo' /\ ledger' = ledger BY <1>3, OutputFacts
  <2>2. PICK u \in todo :
         /\ u \in ledger /\ u \in UTxO /\ todo' = todo \ {u}
         /\ handle' = [m \in Name |-> IF m \in Saved(u) THEN Indexed(m, u) ELSE handle[m]]
         /\ Stored(n) => handle[n].slot <= u.slot /\ handle[n].amount = 1
         /\ \A m \in Saved(u) : Indexed(m, u) # NoHandle
    BY <1>3, OutputFacts
  <2>3. TypeOK BY DEF ChainInv
  <2>4. /\ <<n, "100">> \in u.assets /\ u.datum # NoDatum =>
              Indexed(n, u) # NoHandle /\ Indexed(n, u).ref = u.id
        /\ ({<<n, "100">>, <<n, "000">>} \intersect u.assets = {}) /\ Stored(n) =>
              Indexed(n, u).ref = handle[n].ref
        /\ <<n, "001">> \in u.assets => "001" \in Indexed(n, u).labels
        /\ Stored(n) => handle[n].labels \subseteq Indexed(n, u).labels
    BY <2>2, <2>3, IndexedFields
  <2>5. n \in Saved(u) => Stored(n)' /\ handle'[n] = Indexed(n, u)
    BY <2>2 DEF Stored
  <2>6. n \notin Saved(u) => handle'[n] = handle[n] BY <2>2
  <2>7. <<n, "100">> \in u.assets /\ u.datum # NoDatum => n \in Saved(u)
    BY <2>4, NameHeld DEF Saved
  <2>8. <<n, "001">> \in u.assets => n \in Saved(u)
    BY NameHeld DEF Saved, Tracked
  <2> SUFFICES ASSUME NEW v \in ledger, v \notin Pending'
               PROVE  /\ <<n, "100">> \in v.assets /\ v.datum # NoDatum =>
                            Stored(n)' /\ handle'[n].ref = v.id
                      /\ <<n, "001">> \in v.assets => Stored(n)' /\ "001" \in handle'[n].labels
    BY <2>1 DEF CompanionsOf
  <2>9. CASE v = u BY <2>4, <2>5, <2>7, <2>8, <2>9
  <2>10. CASE v # u
    <3>1. v \in ledger \ Pending BY <2>1, <2>2, <2>10
    <3>2. ASSUME <<n, "100">> \in v.assets, v.datum # NoDatum
          PROVE  Stored(n)' /\ handle'[n].ref = v.id
      <4>1. Stored(n) /\ handle[n].ref = v.id BY <1>0, <3>1, <3>2 DEF CompanionsOf
      <4>2. <<n, "100">> \notin u.assets BY <2>2, <2>10, <3>2 DEF ChainInv, Nft
      <4>3. <<n, "000">> \notin u.assets
        BY <2>2, <2>3, <3>2 DEF OneReference, TypeOK, UTxO
      <4> QED BY <2>4, <2>5, <2>6, <4>1, <4>2, <4>3 DEF Stored
    <3>3. ASSUME <<n, "001">> \in v.assets PROVE Stored(n)' /\ "001" \in handle'[n].labels
      <4>1. Stored(n) /\ "001" \in handle[n].labels BY <1>0, <3>1, <3>3 DEF CompanionsOf
      <4> QED BY <2>4, <2>5, <2>6, <4>1 DEF Stored
    <3> QED BY <3>2, <3>3
  <2> QED BY <2>9, <2>10
<1>4. CASE ~AppendTx /\ ~BurnHandles /\ ~AddOutput
  <2>1. UNCHANGED <<ledger, handle>> /\ Pending \subseteq Pending' BY <1>4, OtherSteps
  <2> QED BY <1>0, <2>1 DEF CompanionsOf, Stored
<1> QED BY <1>1, <1>2, <1>3, <1>4

(* The records in every phase, where no companion outlives its main token. *)
THEOREM RecordInvariant == ASSUME Orphans = FALSE PROVE Spec => []RecordInv
<1>1. Init => RecordInv
  <2> SUFFICES ASSUME Init, NEW n \in Name PROVE RecordOf(n) BY DEF RecordInv
  <2>1. Pending = {} /\ ledger = {} /\ ~Stored(n) BY PendingInit DEF Init, Stored
  <2> QED BY <2>1 DEF RecordOf
<1>2. RecordInv /\ LedgerInv /\ TypeOK' /\ [Next]_vars => RecordInv'
  BY RecordStep DEF LedgerInv
<1> QED BY <1>1, <1>2, LedgerInvariant, TypeCorrect, PTL DEF Spec

(* Once the cursor has passed a block, a name has a record exactly when    *)
(* its main token is on the chain, and the record names the output and the *)
(* address that hold it and counts one, however many invocations died      *)
(* between the pipelines of the block.                                     *)
THEOREM HandlesCorrect == ASSUME Orphans = FALSE PROVE Spec => []HandlesMatchLedger
<1>1. LedgerInv /\ RecordInv => HandlesMatchLedger
  <2> SUFFICES ASSUME LedgerInv, RecordInv, Committed, NEW n \in Name
               PROVE  /\ Stored(n) <=> Live(n, "222") \union Live(n, "000") # {}
                      /\ \A u \in Live(n, "222") :
                            handle[n].utxo = u.id /\ handle[n].addr = u.addr /\ handle[n].amount = 1
                      /\ \A u \in Live(n, "000") :
                            /\ handle[n].utxo = u.id /\ handle[n].amount = 1
                            /\ u.datum # NoDatum => handle[n].addr = u.datum
    BY DEF HandlesMatchLedger
  <2>1. Survivors = {} /\ BurnedIn(Main) = {} /\ pc = "idle" BY EmptyBlock DEF Committed
  <2>2. Pending = {} /\ ~ToBurn(n) BY <2>1 DEF Pending, ToBurn
  <2>3. RecordOf(n) BY DEF RecordInv
  <2>4. \A u \in ledger : HasMain(n, u.assets) => Matches(n, u) BY <2>2, <2>3 DEF RecordOf
  <2>5. Live(n, "222") \union Live(n, "000") = {u \in ledger : HasMain(n, u.assets)}
    BY DEF Live, HasMain, Main
  <2>6. Stored(n) => \E u \in ledger : HasMain(n, u.assets) BY <2>2, <2>3 DEF RecordOf
  <2>7. Stored(n) => handle[n].amount = 1 BY <2>3 DEF RecordOf
  <2> QED BY <2>4, <2>5, <2>6, <2>7 DEF Matches, Live
<1> QED BY <1>1, LedgerInvariant, RecordInvariant, PTL

(* The companion tokens in every phase.                                    *)
THEOREM CompanionInvariant == ASSUME Orphans = FALSE, OneReference PROVE Spec => []CompanionInv
<1>1. Init => CompanionInv
  <2> SUFFICES ASSUME Init PROVE ledger = {} BY DEF CompanionInv, CompanionsOf
  <2> QED BY DEF Init
<1>2. CompanionInv /\ RecordInv /\ LedgerInv /\ TypeOK' /\ [Next]_vars => CompanionInv'
  BY CompanionStep DEF LedgerInv
<1> QED BY <1>1, <1>2, LedgerInvariant, RecordInvariant, TypeCorrect, PTL DEF Spec

(* Once the cursor has passed a block, a record refers to the reference    *)
(* token that carries a datum and its label set has the settings token.    *)
THEOREM CompanionsCorrect ==
    ASSUME Orphans = FALSE, OneReference PROVE Spec => []CompanionsMatchLedger
<1>1. LedgerInv /\ CompanionInv => CompanionsMatchLedger
  <2> SUFFICES ASSUME LedgerInv, CompanionInv, Committed, NEW n \in Name
               PROVE  /\ \A u \in Live(n, "100") : u.datum # NoDatum => handle[n].ref = u.id
                      /\ Live(n, "001") # {} => "001" \in handle[n].labels
    BY DEF CompanionsMatchLedger
  <2>1. Survivors = {} /\ pc = "idle" BY EmptyBlock DEF Committed
  <2>2. Pending = {} BY <2>1 DEF Pending
  <2>3. CompanionsOf(n) BY DEF CompanionInv
  <2> QED BY <2>2, <2>3 DEF CompanionsOf, Live
<1> QED BY <1>1, LedgerInvariant, CompanionInvariant, PTL

=============================================================================
