-------------------------- MODULE LocalRepairProofs --------------------------
(***************************************************************************)
(* Three results, for every number of repairers and readers and every      *)
(* sequence of failures: no response is computed while a repair is         *)
(* journaled, no half-written repair is left without a journal, and no     *)
(* repair takes the store back to what it was computed from.               *)
(*                                                                         *)
(* The argument for the readers: a closed gate has no reader behind it,    *)
(* since it closes only over an empty set of tokens and admits nobody; a   *)
(* journal has a closed gate, since whoever records it closed the gate     *)
(* itself and still holds the repair lease, so that nobody closed or       *)
(* opened it since.                                                        *)
(* For the store (DInv, further down): between the fence of a repairer and *)
(* its last write nobody else writes, the scanner because the fence gives  *)
(* up when its lease is held, other repairers because of the repair lease. *)
(***************************************************************************)
EXTENDS LocalRepair, TLAPS

Inside == {"record", "write", "verify", "finish", "open"}
TokenPerReader == \A q \in Readers : reader[q] # "out" => q \in tokens
ClosedIsEmpty == gate # Free => \A q \in Readers : reader[q] = "out"
JournalIsClosed == journal # NoJournal => gate # Free
InsideOwnGate == \A r \in Repairers : repairer[r].at \in Inside /\ repairLease = r => gate = r
NoneSpanned == \A q \in Readers : reader[q] # "spanned"
OrphanHasParent == chain.orphaned => cursor > FirstCursor
IInv == /\ TypeOK /\ TokenPerReader /\ ClosedIsEmpty /\ JournalIsClosed
        /\ InsideOwnGate /\ NoneSpanned /\ OrphanHasParent

LEMMA RepairInit == ASSUME Init PROVE IInv
<1>1. Idle \in RepairerStates /\ Idle.at = "idle"
  BY DEF Idle, RepairerStates, Steps, Parts, Locks, NoJournal
<1>2. repairer \in [Repairers -> RepairerStates] /\ \A r \in Repairers : repairer[r].at = "idle"
  BY <1>1 DEF Init
<1>3. TypeOK
  <2>1. data \in [Parts -> Nat] /\ reader \in [Readers -> {"out", "reading", "spanned"}]
    BY DEF Init
  <2>2. faults \in 0 .. MaxFaults BY RepairAssumption DEF Init
  <2>3. chain \in [tip : Nat, orphaned : BOOLEAN, minted : Nat] BY DEF Init, FirstCursor
  <2>4. /\ scannerLease \in Repairers \union {Free, Gone, Scanner}
        /\ repairLease \in Repairers \union {Free, Gone} /\ gate \in Repairers \union {Free, Gone}
        /\ tokens \subseteq Readers /\ scanner \in {"off", "started", "scanning"}
        /\ cursor \in Nat \ {0} /\ right \in Nat /\ journal \in Nat /\ lock \in Locks
    BY DEF Init, NoJournal, FirstCursor, Locks
  <2> QED BY <1>2, <2>1, <2>2, <2>3, <2>4 DEF TypeOK
<1> QED BY <1>2, <1>3 DEF Init, IInv, TokenPerReader, ClosedIsEmpty, JournalIsClosed,
     InsideOwnGate, NoneSpanned, OrphanHasParent, Inside

(* What the updates of a repairer's record leave behind. *)
LEMMA StepTypes ==
  ASSUME TypeOK, NEW r \in Repairers
  PROVE  /\ repairer[r] \in RepairerStates /\ Idle \in RepairerStates
         /\ Leaving \in RepairerStates /\ Leaving.at = "release"
         /\ repairer[r].outputs \in Nat /\ repairer[r].cursor \in Nat
         /\ \A step \in Steps : LET new == [repairer EXCEPT ![r].at = step] IN
               /\ new \in [Repairers -> RepairerStates] /\ new[r].at = step
               /\ \A s \in Repairers \ {r} : new[s] = repairer[s]
         /\ \A state \in RepairerStates : LET new == [repairer EXCEPT ![r] = state] IN
               /\ new \in [Repairers -> RepairerStates] /\ new[r] = state
               /\ \A s \in Repairers \ {r} : new[s] = repairer[s]
<1>1. repairer \in [Repairers -> RepairerStates] /\ repairer[r] \in RepairerStates BY DEF TypeOK
<1>2. Idle \in RepairerStates BY DEF Idle, RepairerStates, Steps, Parts, Locks, NoJournal
<1>3. ASSUME NEW step \in Steps PROVE [repairer[r] EXCEPT !.at = step] \in RepairerStates
  BY <1>1 DEF RepairerStates
<1>4. repairer[r].outputs \in Nat /\ repairer[r].cursor \in Nat BY <1>1 DEF RepairerStates
<1>5. \A step \in Steps : [repairer[r] EXCEPT !.at = step].at = step BY <1>1 DEF RepairerStates
<1>6. Leaving \in RepairerStates /\ Leaving.at = "release"
  BY DEF Leaving, Idle, RepairerStates, Steps, Parts, Locks, NoJournal
<1> QED BY <1>1, <1>2, <1>3, <1>4, <1>5, <1>6

LEMMA GoType ==
  ASSUME TypeOK, NEW r \in Repairers, NEW step \in Steps, Go(r, step)
  PROVE  /\ repairer' \in [Repairers -> RepairerStates] /\ repairer'[r].at = step
         /\ \A s \in Repairers \ {r} : repairer'[s] = repairer[s]
<1>1. CASE step = "release"
  <2>1. repairer' = [repairer EXCEPT ![r] = Leaving] BY <1>1 DEF Go
  <2> QED BY <1>1, <2>1, StepTypes
<1>2. CASE step # "release"
  <2>1. repairer' = [repairer EXCEPT ![r].at = step] BY <1>2 DEF Go
  <2> QED BY <2>1, StepTypes
<1> QED BY <1>1, <1>2
LEMMA SetType ==
  ASSUME TypeOK, NEW r \in Repairers, NEW state \in RepairerStates,
         repairer' = [repairer EXCEPT ![r] = state]
  PROVE  /\ repairer' \in [Repairers -> RepairerStates] /\ repairer'[r].at = state.at
         /\ \A s \in Repairers \ {r} : repairer'[s] = repairer[s]
  BY StepTypes

(***************************************************************************)
(* Where each step leaves its repairer.                                    *)
(***************************************************************************)
Lands(r, steps) ==
    /\ repairer' \in [Repairers -> RepairerStates] /\ repairer'[r].at \in steps
    /\ \A s \in Repairers \ {r} : repairer'[s] = repairer[s]

LEMMA Prepared ==
  ASSUME TypeOK, NEW r \in Repairers, Prepares(r) \/ Acquire(r) \/ Claim(r)
  PROVE  Lands(r, Steps \ Inside)
<1>0. /\ repairer \in [Repairers -> RepairerStates] /\ repairer[r] \in RepairerStates
      /\ Idle \in RepairerStates /\ data \in [Parts -> Nat] /\ cursor \in Nat /\ lock \in Locks
      /\ right \in Nat /\ journal \in Nat
  BY StepTypes DEF TypeOK
<1>s. {"idle", "lease", "first", "second", "check", "claim", "close", "release"} \subseteq Steps \ Inside
  BY DEF Steps, Inside
<1>1. CASE ReadJournal(r)
  <2> DEFINE state == [Idle EXCEPT !.at = "lease", !.journal = journal]
  <2>1. state \in RepairerStates /\ state.at = "lease" BY <1>0, <1>s DEF RepairerStates
  <2>2. repairer' = [repairer EXCEPT ![r] = state] BY <1>1 DEF ReadJournal
  <2> QED BY <2>1, <2>2, <1>s, SetType DEF Lands
<1>2. CASE Held(r) BY <1>2, <1>s, GoType DEF Held, Lands
<1>3. CASE First(r)
  <2>1. CASE Go(r, "release") BY <2>1, <1>s, GoType DEF Lands
  <2>2. CASE ~Go(r, "release")
    <3> DEFINE state == [repairer[r] EXCEPT !.at = "second", !.anchor = cursor, !.outputs = right]
    <3>1. state \in RepairerStates /\ state.at = "second" BY <1>0, <1>s DEF RepairerStates
    <3>2. repairer' = [repairer EXCEPT ![r] = state] BY <1>3, <2>2, <1>0 DEF First
    <3> QED BY <3>1, <3>2, <1>s, SetType DEF Lands
  <2> QED BY <2>1, <2>2
<1>4. CASE Second(r) BY <1>4, <1>s, GoType DEF Second, Lands
<1>5. CASE Check(r)
  <2> DEFINE step == IF JournalStands(r) /\ Locked(r) THEN "claim" ELSE "release"
             state == [repairer[r] EXCEPT !.at = step, !.cursor = cursor, !.lock = lock]
  <2>0. step \in Steps \ Inside BY <1>s
  <2>a. repairer' = [repairer EXCEPT ![r] = state] BY <1>5, <1>0 DEF Check
  <2> HIDE DEF step
  <2>1. state \in RepairerStates /\ state.at = step BY <1>0, <2>0 DEF RepairerStates
  <2> QED BY <2>a, <2>0, <2>1, SetType DEF Lands
<1>6. CASE Acquire(r)
  <2> DEFINE state == [repairer[r] EXCEPT !.at = "first", !.stored = data]
  <2>1. state \in RepairerStates /\ state.at = "first" BY <1>0, <1>s DEF RepairerStates
  <2>2. repairer' = [repairer EXCEPT ![r] = state] BY <1>6, <1>0 DEF Acquire
  <2> QED BY <2>1, <2>2, <1>s, SetType DEF Lands
<1>7. CASE Claim(r)
  <2>1. Go(r, "close") \/ Go(r, "release") BY <1>7 DEF Claim
  <2> QED BY <2>1, <1>s, GoType DEF Lands
<1> QED BY <1>1, <1>2, <1>3, <1>4, <1>5, <1>6, <1>7 DEF Prepares

LEMMA WroteOrLeft ==
  ASSUME TypeOK, NEW r \in Repairers
  PROVE  /\ Close(r) => \/ MayClose(r) /\ Lands(r, {"record"})
                        \/ ~MayClose(r) /\ Lands(r, {"release"})
         /\ Record(r) \/ Finish(r) \/ Verify(r) \/ Write(r) =>
               repairer[r].at \in Inside /\ Lands(r, Steps)
         /\ Open(r) \/ Throws(r) => Lands(r, {"release"})
         /\ Release(r) \/ Crash(r) => Lands(r, {"idle"})
<1>0. /\ repairer \in [Repairers -> RepairerStates] /\ repairer[r] \in RepairerStates
      /\ Idle \in RepairerStates
  BY StepTypes DEF TypeOK
<1>s. {"record", "write", "verify", "finish", "open", "release", "idle"} \subseteq Steps
  BY DEF Steps
<1>1. ASSUME Close(r) PROVE \/ MayClose(r) /\ Lands(r, {"record"})
                            \/ ~MayClose(r) /\ Lands(r, {"release"})
  <2>1. CASE MayClose(r)
    <3>1. Go(r, "record") BY <1>1, <2>1 DEF Close
    <3> QED BY <2>1, <3>1, <1>s, GoType DEF Lands
  <2>2. CASE ~MayClose(r)
    <3>1. Go(r, "release") BY <1>1, <2>2 DEF Close
    <3> QED BY <2>2, <3>1, <1>s, GoType DEF Lands
  <2> QED BY <2>1, <2>2
<1>2. ASSUME Record(r) \/ Finish(r) \/ Verify(r) \/ Write(r)
      PROVE repairer[r].at \in Inside /\ Lands(r, Steps)
  <2>1. repairer[r].at \in Inside BY <1>2 DEF Record, Finish, Verify, Write, At, Inside
  <2>2. ASSUME NEW step \in Steps, Go(r, step) PROVE Lands(r, Steps) BY <2>2, GoType DEF Lands
  <2>3. CASE Write(r) /\ ~Go(r, "release")
    <3> DEFINE p == repairer[r].part
               step == IF p = LastPart THEN "verify" ELSE "write"
               part == IF p = LastPart THEN p ELSE p + 1
               state == [repairer[r] EXCEPT !.at = step, !.part = part]
    <3>1. repairer' = [repairer EXCEPT ![r] = state] BY <2>3, <1>0 DEF Write
    <3>2. step \in Steps BY <1>s
    <3>3. part \in Parts BY <1>0 DEF RepairerStates, Parts, LastPart
    <3> HIDE DEF step, part
    <3>4. state \in RepairerStates /\ state.at = step BY <1>0, <3>2, <3>3 DEF RepairerStates
    <3> QED BY <2>1, <3>1, <3>2, <3>4, SetType DEF Lands
  <2>4. CASE Write(r) /\ Go(r, "release") BY <2>1, <2>4, <2>2, <1>s
  <2>5. CASE Record(r)
    <3>1. Go(r, "write") \/ Go(r, "release") BY <2>5 DEF Record
    <3> QED BY <2>1, <3>1, <2>2, <1>s
  <2>6. CASE Finish(r)
    <3>1. Go(r, "open") \/ Go(r, "release") BY <2>6 DEF Finish
    <3> QED BY <2>1, <3>1, <2>2, <1>s
  <2>7. CASE Verify(r)
    <3>1. Go(r, "finish") \/ Go(r, "release") BY <2>7 DEF Verify
    <3> QED BY <2>1, <3>1, <2>2, <1>s
  <2> QED BY <1>2, <2>1, <2>3, <2>4, <2>5, <2>6, <2>7
<1>3. ASSUME Open(r) \/ Throws(r) PROVE Lands(r, {"release"})
  BY <1>3, <1>s, GoType DEF Open, Throws, Lands
<1>4. ASSUME Release(r) \/ Crash(r) PROVE Lands(r, {"idle"})
  <2>1. Idle.at = "idle" BY DEF Idle
  <2> QED BY <1>4, <1>0, <2>1, SetType DEF Release, Crash, Lands
<1> QED BY <1>1, <1>2, <1>3, <1>4

LEMMA RepairStep == ASSUME IInv, [Next]_vars PROVE IInv'
<1> USE RepairAssumption
<1>u CASE UNCHANGED vars
  BY <1>u DEF IInv, TypeOK, TokenPerReader, ClosedIsEmpty, JournalIsClosed, InsideOwnGate,
     NoneSpanned, OrphanHasParent, vars
<1>0. TypeOK BY DEF IInv
<1>t. ASSUME NEW r \in Repairers, NEW steps, Lands(r, steps)
      PROVE  repairer' \in [Repairers -> RepairerStates]
  BY <1>t DEF Lands
(* A step outside the gate changes nothing the gate is about. *)
<1>a. ASSUME NEW r \in Repairers, Prepares(r) PROVE IInv'
  <2>1. Lands(r, Steps \ Inside) BY <1>a, <1>0, Prepared
  <2>2. UNCHANGED <<stores, right, chain, reader, scanner, faults>>
    BY <1>a DEF Prepares, ReadJournal, Held, First, Second, Check
  <2>3. TypeOK' BY <2>1, <2>2, <1>t, <1>0 DEF TypeOK, stores
  <2>4. InsideOwnGate' BY <2>1, <2>2 DEF IInv, InsideOwnGate, Lands, stores
  <2> QED BY <2>2, <2>3, <2>4 DEF IInv, TokenPerReader, ClosedIsEmpty, JournalIsClosed,
             NoneSpanned, OrphanHasParent, stores
<1>b. ASSUME NEW r \in Repairers, Acquire(r) \/ Claim(r) PROVE IInv'
  <2>1. Lands(r, Steps \ Inside) BY <1>b, <1>0, Prepared
  <2>2. UNCHANGED <<gate, tokens, journal, lock, cursor, data, right, chain, reader, scanner, faults>>
    BY <1>b DEF Acquire, Claim
  <2>3. /\ scannerLease' \in {scannerLease, r}
        /\ repairLease' = repairLease \/ repairLease' = r
    BY <1>b DEF Acquire, Claim
  <2>4. TypeOK' BY <2>1, <2>2, <2>3, <1>t, <1>0 DEF TypeOK
  <2>5. InsideOwnGate' BY <2>1, <2>2, <2>3 DEF IInv, InsideOwnGate, Lands
  <2> QED BY <2>2, <2>4, <2>5 DEF IInv, TokenPerReader, ClosedIsEmpty, JournalIsClosed,
             NoneSpanned, OrphanHasParent
<1>c. ASSUME NEW r \in Repairers, Close(r) PROVE IInv'
  <2>1. UNCHANGED <<scannerLease, repairLease, tokens, journal, lock, cursor, data, right, chain,
                    reader, scanner, faults>>
    BY <1>c DEF Close
  <2>2. CASE MayClose(r)
    <3>1. gate' = r /\ Lands(r, {"record"}) BY <1>c, <2>2, <1>0, WroteOrLeft DEF Close
    <3>2. TypeOK' BY <2>1, <3>1, <1>t, <1>0 DEF TypeOK
    <3>3. InsideOwnGate' BY <2>1, <2>2, <3>1 DEF IInv, InsideOwnGate, Lands, MayClose, Fenced
    <3>4. ClosedIsEmpty' /\ JournalIsClosed'
      BY <2>1, <2>2, <3>1 DEF IInv, MayClose, NoReaderLeft, ClosedIsEmpty, TokenPerReader,
         JournalIsClosed, Free
    <3> QED BY <2>1, <3>2, <3>3, <3>4 DEF IInv, TokenPerReader, NoneSpanned, OrphanHasParent
  <2>3. CASE ~MayClose(r)
    <3>1. gate' = gate /\ Lands(r, {"release"}) BY <1>c, <2>3, <1>0, WroteOrLeft DEF Close
    <3>2. TypeOK' BY <2>1, <3>1, <1>t, <1>0 DEF TypeOK
    <3>3. InsideOwnGate' BY <2>1, <3>1 DEF IInv, InsideOwnGate, Lands, Inside
    <3> QED BY <2>1, <3>1, <3>2, <3>3 DEF IInv, TokenPerReader, ClosedIsEmpty, JournalIsClosed,
               NoneSpanned, OrphanHasParent
  <2> QED BY <2>2, <2>3
(* Inside the gate: the journal comes and goes only behind the own gate. *)
<1>d. ASSUME NEW r \in Repairers, Record(r) \/ Finish(r) \/ Verify(r) \/ Write(r) PROVE IInv'
  <2>1. repairer[r].at \in Inside /\ Lands(r, Steps) BY <1>d, <1>0, WroteOrLeft
  <2>2. UNCHANGED <<scannerLease, repairLease, gate, tokens, cursor, right, chain, scanner, faults>>
    BY <1>d DEF Record, Finish, Verify, Write, stores
  <2>3. \/ UNCHANGED <<journal, reader>>
        \/ Fenced(r) /\ reader' = Spanned /\ journal' \in {NoJournal, repairer[r].cursor}
    BY <1>d DEF Record, Finish, Verify, Write, stores
  <2>4. Fenced(r) => gate = r /\ gate # Free
    BY <2>1 DEF IInv, InsideOwnGate, Fenced, Free
  <2>5. reader' = reader
    BY <2>3, <2>4, <1>0 DEF Spanned, IInv, ClosedIsEmpty, TypeOK
  <2>6. journal' \in Nat BY <2>3, <1>0, StepTypes DEF TypeOK, NoJournal
  <2>7. lock' \in Locks BY <1>d, <1>0 DEF Record, Finish, Verify, Write, stores, TypeOK, Locks
  <2>8. data' \in [Parts -> Nat]
    BY <1>d, <1>0, StepTypes DEF Record, Finish, Verify, Write, stores, TypeOK
  <2>9. TypeOK' BY <2>1, <2>2, <2>5, <2>6, <2>7, <2>8, <1>t, <1>0 DEF TypeOK
  <2>10. InsideOwnGate' BY <2>1, <2>2 DEF IInv, InsideOwnGate, Lands
  <2>11. JournalIsClosed' BY <2>2, <2>3, <2>4 DEF IInv, JournalIsClosed
  <2> QED BY <2>2, <2>5, <2>9, <2>10, <2>11 DEF IInv, TokenPerReader, ClosedIsEmpty,
             NoneSpanned, OrphanHasParent
<1>e. ASSUME NEW r \in Repairers, Open(r) PROVE IInv'
  <2>1. Lands(r, {"release"}) BY <1>e, <1>0, WroteOrLeft
  <2>2. UNCHANGED <<scannerLease, repairLease, tokens, journal, lock, cursor, data, right, chain,
                    reader, scanner, faults>>
    BY <1>e DEF Open
  <2>3. \/ gate' = gate
        \/ gate' = Free /\ repairLease = r /\ journal = NoJournal
    BY <1>e DEF Open, MayOpen, Fenced
  <2>4. TypeOK' BY <2>1, <2>2, <2>3, <1>t, <1>0 DEF TypeOK
  <2>5. InsideOwnGate' BY <2>1, <2>2, <2>3 DEF IInv, InsideOwnGate, Lands, Inside
  <2>6. ClosedIsEmpty' /\ JournalIsClosed' BY <2>2, <2>3 DEF IInv, ClosedIsEmpty, JournalIsClosed
  <2> QED BY <2>2, <2>4, <2>5, <2>6 DEF IInv, TokenPerReader, NoneSpanned, OrphanHasParent
<1>f. ASSUME NEW r \in Repairers, Release(r) \/ Throws(r) \/ Crash(r) PROVE IInv'
  <2>1. Lands(r, {"release", "idle"})
    <3>1. Lands(r, {"release"}) \/ Lands(r, {"idle"}) BY <1>f, <1>0, WroteOrLeft
    <3> QED BY <3>1 DEF Lands
  <2>2. UNCHANGED <<tokens, journal, lock, cursor, data, right, chain, reader, scanner>>
    BY <1>f DEF Release, Throws, Crash, stores
  <2>3. /\ gate' = gate \/ (gate = r /\ gate' = Gone)
        /\ repairLease' = repairLease \/ (repairLease = r /\ repairLease' \in {Free, Gone})
        /\ scannerLease' \in {scannerLease, Free, Gone}
    BY <1>f DEF Release, Throws, Crash, stores, Dead
  <2>4. faults' \in 0 .. MaxFaults BY <1>f, <1>0 DEF Release, Throws, Crash, Fault, TypeOK
  <2>5. TypeOK' BY <2>1, <2>2, <2>3, <2>4, <1>t, <1>0 DEF TypeOK
  <2>6. InsideOwnGate'
    BY <2>1, <2>3 DEF IInv, InsideOwnGate, Lands, Inside, Free, Gone
  <2>7. gate' = Free <=> gate = Free BY <2>3 DEF Free, Gone
  <2> QED BY <2>2, <2>5, <2>6, <2>7 DEF IInv, TokenPerReader, ClosedIsEmpty, JournalIsClosed,
             NoneSpanned, OrphanHasParent
(* The readers, the scanner and the clock. *)
<1>g. ASSUME NEW q \in Readers, Admit(q) \/ Answer(q) \/ Vanish(q) PROVE IInv'
  <2>1. UNCHANGED <<scannerLease, repairLease, gate, journal, lock, cursor, data, right, chain,
                    repairer, scanner>>
    BY <1>g DEF Admit, Answer, Vanish, stores
  <2>2. /\ reader' \in [Readers -> {"out", "reading", "spanned"}] /\ tokens' \subseteq Readers
        /\ faults' \in 0 .. MaxFaults
    BY <1>g, <1>0 DEF Admit, Answer, Vanish, stores, TypeOK, Fault
  <2>3. TypeOK' BY <2>1, <2>2, <1>0 DEF TypeOK
  <2>4. /\ TokenPerReader' /\ ClosedIsEmpty' /\ NoneSpanned'
    BY <1>g, <1>0 DEF Admit, Answer, Vanish, stores, TypeOK, IInv, TokenPerReader, ClosedIsEmpty, NoneSpanned
  <2> QED BY <2>1, <2>3, <2>4 DEF IInv, JournalIsClosed, InsideOwnGate, OrphanHasParent
<1>h. ASSUME Scans \/ ScanCrash \/ Grow \/ Fork PROVE IInv'
  <2>1. UNCHANGED <<repairLease, gate, tokens, journal, repairer, reader>>
    BY <1>h DEF Scans, ScanStart, ScanBegin, ScanBlock, ScanRollback, ScanEnd, ScanCrash, Grow, Fork, stores
  <2>2. /\ scannerLease' \in {scannerLease, Scanner, Free, Gone} /\ lock' \in Locks
        /\ scanner' \in {"off", "started", "scanning"} /\ faults' \in 0 .. MaxFaults
    BY <1>h, <1>0 DEF Scans, ScanStart, ScanBegin, ScanBlock, ScanRollback, ScanEnd, ScanCrash,
       Grow, Fork, stores, TypeOK, Locks, Dead, Fault
  <2> DEFINE Chains == [tip : Nat, orphaned : BOOLEAN, minted : Nat]
  <2>3. /\ right' \in Nat /\ chain' \in Chains /\ data' \in [Parts -> Nat]
        /\ cursor' \in Nat \ {0} /\ OrphanHasParent'
    <3>0. /\ cursor \in Nat \ {0} /\ right \in Nat /\ data \in [Parts -> Nat]
          /\ chain \in Chains /\ (chain.orphaned => cursor > FirstCursor)
      BY DEF IInv, TypeOK, OrphanHasParent
    <3>1. CASE ScanBlock
      <4>1. right' \in Nat /\ data' \in [Parts -> Nat] BY <3>0, <3>1 DEF ScanBlock
      <4> QED BY <3>0, <3>1, <4>1 DEF ScanBlock, OrphanHasParent
    <3>2. CASE ScanRollback
      <4>1. right' \in Nat /\ data' \in [Parts -> Nat] BY <3>0, <3>2 DEF ScanRollback
      <4>2. cursor' \in Nat \ {0} BY <3>0, <3>2 DEF ScanRollback, FirstCursor
      <4>3. chain' \in Chains /\ ~chain'.orphaned BY <3>0, <3>2 DEF ScanRollback
      <4> QED BY <4>1, <4>2, <4>3 DEF OrphanHasParent
    <3>3. CASE Fork
      <4>1. chain' \in Chains BY <3>0, <3>3 DEF Fork
      <4> QED BY <3>0, <3>3, <4>1 DEF Fork, OrphanHasParent, stores
    <3>5. CASE Grow
      <4>1. PICK last \in {chain.minted, chain.tip + 1} :
                chain' = [chain EXCEPT !.tip = @ + 1, !.minted = last]
        BY <3>5 DEF Grow
      <4>2. last \in Nat /\ chain.tip + 1 \in Nat BY <3>0
      <4>3. chain' \in Chains BY <3>0, <4>1, <4>2
      <4>4. chain'.orphaned = chain.orphaned BY <3>0, <4>1
      <4> QED BY <3>0, <3>5, <4>3, <4>4 DEF Grow, OrphanHasParent, stores
    <3>4. CASE ScanStart \/ ScanBegin \/ ScanEnd \/ ScanCrash
      BY <3>0, <3>4 DEF ScanStart, ScanBegin, ScanEnd, ScanCrash, OrphanHasParent
    <3> QED BY <1>h, <3>1, <3>2, <3>3, <3>4, <3>5 DEF Scans
  <2>4. TypeOK' BY <2>1, <2>2, <2>3, <1>0 DEF TypeOK
  <2> QED BY <2>1, <2>3, <2>4 DEF IInv, TokenPerReader, ClosedIsEmpty, JournalIsClosed,
             InsideOwnGate, NoneSpanned
<1>i. ASSUME Expire \/ Lapse \/ RemoveOrphan PROVE IInv'
  <2>1. UNCHANGED <<journal, lock, cursor, data, right, chain, repairer, reader, scanner>>
    BY <1>i DEF Expire, Lapse, RemoveOrphan
  <2>2. /\ scannerLease' \in {scannerLease, Free} /\ repairLease' \in {repairLease, Free}
        /\ gate' = gate \/ (gate = Gone /\ gate' = Free /\ journal = NoJournal)
        /\ tokens' \subseteq tokens /\ \A q \in tokens \ tokens' : reader[q] = "out"
    BY <1>i DEF Expire, Lapse, RemoveOrphan
  <2>3. faults' \in 0 .. MaxFaults BY <1>i, <1>0 DEF Expire, Lapse, RemoveOrphan, Fault, TypeOK
  <2>4. TypeOK' BY <2>1, <2>2, <2>3, <1>0 DEF TypeOK
  <2>5. InsideOwnGate' BY <2>1, <2>2 DEF IInv, InsideOwnGate, Free, Gone
  <2> QED BY <2>1, <2>2, <2>4, <2>5 DEF IInv, TokenPerReader, ClosedIsEmpty,
             JournalIsClosed, NoneSpanned, OrphanHasParent
<1> QED BY <1>u, <1>a, <1>b, <1>c, <1>d, <1>e, <1>f, <1>g, <1>h, <1>i DEF Next, Writes

(***************************************************************************)
(* The type invariant, for all constants.                                  *)
(***************************************************************************)
THEOREM RepairTypeCorrect == Spec => []TypeOK
<1>1. Init => IInv BY RepairInit
<1>2. IInv /\ [Next]_vars => IInv' BY RepairStep
<1>3. IInv => TypeOK BY DEF IInv
<1> QED BY <1>1, <1>2, <1>3, PTL DEF Spec

(***************************************************************************)
(* From the first to the last moment of a repair's journal no response is  *)
(* being computed, and no response ever spans a repair.                    *)
(***************************************************************************)
THEOREM RepairExcludesReaders == Spec => []ReadersExcluded
<1>1. Init => IInv BY RepairInit
<1>2. IInv /\ [Next]_vars => IInv' BY RepairStep
<1>3. IInv => ReadersExcluded
  BY DEF IInv, ReadersExcluded, JournalIsClosed, ClosedIsEmpty, NoneSpanned
<1> QED BY <1>1, <1>2, <1>3, PTL DEF Spec
-----------------------------------------------------------------------------
(***************************************************************************)
(* What is in the store.  The second invariant is about one repairer at a  *)
(* time, and about what it knows while the leases are its own: nobody else *)
(* moves the chain or the data then, so the outputs it read are still the  *)
(* right ones, what it wrote is still there, and its journal stands until  *)
(* all the parts are written.  A lease lost is never the own one again     *)
(* before the next attempt, which reads everything anew.                   *)
(***************************************************************************)
Writing == {"write", "verify", "finish"}
Checked == {"claim", "close", "record", "write", "verify", "finish", "open"}
Fresh == {"lease", "first", "second", "check", "claim", "close", "record"}
Current(r) == repairer[r].at \in Checked \union {"second", "check"} /\ scannerLease = r
                 => repairer[r].outputs = right
Known(r) == repairer[r].at \in Checked => repairer[r].cursor # NoJournal
FromFirst(r) == repairer[r].at \in Fresh => repairer[r].part = 1
Journaled(r) == repairer[r].at \in Writing /\ Fenced(r) => journal # NoJournal
SoFar(r) == repairer[r].at \in Writing /\ Fenced(r) =>
    \A p \in Parts : p < repairer[r].part \/ repairer[r].at # "write"
                        => data[p] = repairer[r].outputs
Sound(r) == Current(r) /\ Known(r) /\ FromFirst(r) /\ Journaled(r) /\ SoFar(r)

ScannerHasLease == scanner # "off" => scannerLease = Scanner
ScanningIsClear == scanner = "scanning" => journal = NoJournal
NothingAhead == \A p \in Parts : data[p] <= right
StoreSound == ScannerHasLease /\ ScanningIsClear /\ NothingAhead /\ WholeWithoutJournal
DInv == StoreSound /\ \A r \in Repairers : Sound(r)

LEMMA DataInit == ASSUME Init PROVE DInv
<1>1. \A r \in Repairers : repairer[r].at = "idle" BY DEF Init, Idle
<1>2. \A r \in Repairers : Sound(r)
  BY <1>1 DEF Sound, Current, Known, FromFirst, Journaled, SoFar, Writing, Checked, Fresh
<1>3. NothingAhead /\ WholeWithoutJournal BY DEF Init, NothingAhead, WholeWithoutJournal, Parts
<1> QED BY <1>2, <1>3 DEF Init, DInv, StoreSound, ScannerHasLease, ScanningIsClear

(* What a repairer knows outlasts every step that takes neither lease from *)
(* somebody else for it, nor moves anything while it holds them.           *)
LEMMA OthersKept ==
  ASSUME NEW s \in Repairers, Sound(s), repairer'[s] = repairer[s],
         repairLease' = s => repairLease = s, scannerLease' = s => scannerLease = s,
         scannerLease = s => right' = right,
         Fenced(s) => journal' = journal /\ data' = data
  PROVE  Sound(s)'
<1>1. Current(s)' /\ Known(s)' /\ FromFirst(s)' BY DEF Sound, Current, Known, FromFirst
<1>2. Fenced(s)' => Fenced(s) BY DEF Fenced
<1>3. Journaled(s)' BY <1>2 DEF Sound, Journaled
<1>4. SoFar(s)' BY <1>2 DEF Sound, SoFar
<1> QED BY <1>1, <1>3, <1>4 DEF Sound

(* A repairer that gives up, or ends, has nothing left to know. *)
LEMMA NothingKnown ==
  ASSUME NEW r \in Repairers, repairer'[r].at \in {"idle", "release"}
  PROVE  Sound(r)'
  BY DEF Sound, Current, Known, FromFirst, Journaled, SoFar, Writing, Checked, Fresh

(* A step along the way keeps what was read. *)
LEMMA GoKeeps ==
  ASSUME TypeOK, NEW r \in Repairers, NEW step \in Steps \ {"release"}, Go(r, step)
  PROVE  /\ repairer'[r].at = step /\ repairer'[r].outputs = repairer[r].outputs
         /\ repairer'[r].cursor = repairer[r].cursor /\ repairer'[r].part = repairer[r].part
<1>1. repairer \in [Repairers -> RepairerStates] /\ repairer[r] \in RepairerStates BY DEF TypeOK
<1>2. repairer'[r] = [repairer[r] EXCEPT !.at = step] BY <1>1 DEF Go
<1> QED BY <1>1, <1>2 DEF RepairerStates

(***************************************************************************)
(* Each step of a repairer, as far as it concerns the repairer itself.     *)
(***************************************************************************)
LEMMA SoundPrepares ==
  ASSUME TypeOK, NEW r \in Repairers, Sound(r), Prepares(r) \/ Acquire(r)
  PROVE  Sound(r)'
<1>0. /\ repairer \in [Repairers -> RepairerStates] /\ repairer[r] \in RepairerStates
      /\ cursor \in Nat \ {0} /\ right \in Nat /\ lock \in Locks
  BY DEF TypeOK
<1>s. {"idle", "lease", "first", "second", "check", "claim", "release"} \subseteq Steps
  BY DEF Steps
<1>1. ASSUME Go(r, "idle") \/ Go(r, "release") PROVE Sound(r)'
  BY <1>1, <1>s, GoType, NothingKnown
<1>2. CASE ReadJournal(r)
  <2>1. repairer'[r] = [Idle EXCEPT !.at = "lease", !.journal = journal] BY <1>0, <1>2 DEF ReadJournal
  <2>2. repairer'[r].at = "lease" /\ repairer'[r].part = 1 BY <2>1 DEF Idle
  <2> QED BY <2>2 DEF Sound, Current, Known, FromFirst, Journaled, SoFar, Writing, Checked, Fresh
<1>3. CASE Held(r) BY <1>1, <1>3 DEF Held
<1>4. CASE Acquire(r)
  <2>1. repairer'[r] = [repairer[r] EXCEPT !.at = "first", !.stored = data]
    BY <1>0, <1>4 DEF Acquire
  <2>2. repairer'[r].at = "first" /\ repairer'[r].part = repairer[r].part
    BY <1>0, <2>1 DEF RepairerStates
  <2>3. repairer[r].part = 1 BY <1>4 DEF Acquire, At, Sound, FromFirst, Fresh
  <2> QED BY <2>2, <2>3 DEF Sound, Current, Known, FromFirst, Journaled, SoFar, Writing, Checked, Fresh
<1>5. CASE First(r) /\ ~Go(r, "release")
  <2>1. repairer'[r] = [repairer[r] EXCEPT !.at = "second", !.anchor = cursor, !.outputs = right]
    BY <1>0, <1>5 DEF First
  <2>2. /\ repairer'[r].at = "second" /\ repairer'[r].part = repairer[r].part
        /\ repairer'[r].outputs = right /\ right' = right
    BY <1>0, <1>5, <2>1 DEF RepairerStates, First
  <2>3. repairer[r].part = 1 BY <1>5 DEF First, At, Sound, FromFirst, Fresh
  <2> QED BY <2>2, <2>3 DEF Sound, Current, Known, FromFirst, Journaled, SoFar, Writing, Checked, Fresh
<1>6. CASE Second(r) /\ ~Go(r, "release")
  <2>1. Go(r, "check") /\ right' = right /\ scannerLease' = scannerLease
    BY <1>6 DEF Second, stores
  <2>2. /\ repairer'[r].at = "check" /\ repairer'[r].outputs = repairer[r].outputs
        /\ repairer'[r].part = repairer[r].part
    BY <2>1, <1>s, GoKeeps
  <2>3. repairer[r].part = 1 /\ (scannerLease = r => repairer[r].outputs = right)
    BY <1>6 DEF Second, At, Sound, FromFirst, Fresh, Current
  <2> QED BY <2>1, <2>2, <2>3 DEF Sound, Current, Known, FromFirst, Journaled, SoFar, Writing, Checked, Fresh
<1>7. CASE Check(r)
  <2> DEFINE step == IF JournalStands(r) /\ Locked(r) THEN "claim" ELSE "release"
             state == [repairer[r] EXCEPT !.at = step, !.cursor = cursor, !.lock = lock]
  <2>1. repairer'[r] = state BY <1>0, <1>7 DEF Check
  <2>2. step \in {"claim", "release"} OBVIOUS
  <2> HIDE DEF step
  <2>3. /\ repairer'[r].at = step /\ repairer'[r].outputs = repairer[r].outputs
        /\ repairer'[r].cursor = cursor /\ repairer'[r].part = repairer[r].part
    BY <1>0, <2>1 DEF RepairerStates
  <2>4. right' = right /\ scannerLease' = scannerLease BY <1>7 DEF Check, stores
  <2>5. repairer[r].part = 1 /\ (scannerLease = r => repairer[r].outputs = right)
    BY <1>7 DEF Check, At, Sound, FromFirst, Fresh, Current
  <2> QED BY <1>0, <2>2, <2>3, <2>4, <2>5 DEF Sound, Current, Known, FromFirst, Journaled, SoFar,
             Writing, Checked, Fresh, NoJournal
<1>8. CASE First(r) /\ Go(r, "release") BY <1>1, <1>8
<1>9. CASE Second(r) /\ Go(r, "release") BY <1>1, <1>9
<1> QED BY <1>2, <1>3, <1>4, <1>5, <1>6, <1>7, <1>8, <1>9 DEF Prepares

LEMMA SoundWrites ==
  ASSUME TypeOK, NEW r \in Repairers, Sound(r), Writes(r)
  PROVE  Sound(r)'
<1>0. /\ repairer \in [Repairers -> RepairerStates] /\ repairer[r] \in RepairerStates
      /\ data \in [Parts -> Nat] /\ repairer[r].part \in Parts
  BY DEF TypeOK, RepairerStates
<1>s. {"close", "record", "write", "verify", "finish", "open", "release"} \subseteq Steps
  BY DEF Steps
<1>1. ASSUME Go(r, "release") PROVE Sound(r)' BY <1>1, <1>s, GoType, NothingKnown
(* What holds of a repairer on its way to or behind the gate. *)
<1>2. /\ repairer[r].at \in Checked /\ right' = right /\ scannerLease' = scannerLease
      /\ repairer[r].cursor # NoJournal
      /\ scannerLease = r => repairer[r].outputs = right
  BY DEF Writes, Claim, Close, Record, Write, Verify, Finish, Open, At, Checked, stores,
     Sound, Current, Known
<1>3. CASE (Claim(r) \/ Close(r)) /\ ~Go(r, "release")
  <2>1. Go(r, "close") \/ Go(r, "record") BY <1>3 DEF Claim, Close
  <2>2. repairer[r].part = 1 BY <1>3 DEF Claim, Close, At, Sound, FromFirst, Fresh
  <2>3. /\ repairer'[r].at \in {"close", "record"} /\ repairer'[r].outputs = repairer[r].outputs
        /\ repairer'[r].cursor = repairer[r].cursor /\ repairer'[r].part = 1
    BY <2>1, <2>2, <1>s, GoKeeps
  <2> QED BY <1>2, <2>3 DEF Sound, Current, Known, FromFirst, Journaled, SoFar, Writing, Checked, Fresh
<1>4. CASE Record(r) /\ ~Go(r, "release")
  <2>1. Go(r, "write") /\ journal' = repairer[r].cursor BY <1>4 DEF Record
  <2>2. repairer[r].part = 1 BY <1>4 DEF Record, At, Sound, FromFirst, Fresh
  <2>3. /\ repairer'[r].at = "write" /\ repairer'[r].outputs = repairer[r].outputs
        /\ repairer'[r].cursor = repairer[r].cursor /\ repairer'[r].part = 1
    BY <2>1, <2>2, <1>s, GoKeeps
  <2>4. \A p \in Parts : ~(p < 1) BY DEF Parts
  <2> QED BY <1>2, <2>1, <2>3, <2>4 DEF Sound, Current, Known, FromFirst, Journaled, SoFar,
             Writing, Checked, Fresh
<1>5. CASE Write(r) /\ ~Go(r, "release")
  <2> DEFINE p == repairer[r].part
             step == IF p = LastPart THEN "verify" ELSE "write"
             part == IF p = LastPart THEN p ELSE p + 1
  <2>1. /\ Written(r) /\ data' = [data EXCEPT ![p] = repairer[r].outputs]
        /\ repairer'[r] = [repairer[r] EXCEPT !.at = step, !.part = part]
        /\ journal' = journal /\ repairLease' = repairLease
    BY <1>0, <1>5 DEF Write
  <2>2. /\ repairer'[r].at = step /\ repairer'[r].outputs = repairer[r].outputs
        /\ repairer'[r].cursor = repairer[r].cursor /\ repairer'[r].part = part
    BY <1>0, <2>1 DEF RepairerStates
  <2>3. step \in {"verify", "write"} OBVIOUS
  <2>4. Current(r)' /\ Known(r)' /\ FromFirst(r)'
    BY <1>2, <2>2, <2>3 DEF Current, Known, FromFirst, Checked, Fresh
  <2>5. Fenced(r) /\ At(r, "write") BY <1>5, <2>1 DEF Write, Written
  <2>6. Journaled(r)' BY <2>1, <2>5 DEF Journaled, Sound, At, Writing
  <2>7. ASSUME NEW q \in Parts, q < part \/ step # "write" PROVE data'[q] = repairer[r].outputs
    <3>1. q < p \/ q = p BY <2>7, <1>0 DEF Parts, LastPart
    <3>2. CASE q = p BY <3>2, <2>1, <1>0
    <3>3. CASE q < p
      <4>1. data[q] = repairer[r].outputs BY <2>5, <3>3 DEF Sound, SoFar, At, Writing
      <4>2. p # q BY <3>3, <1>0 DEF Parts
      <4> QED BY <4>1, <4>2, <2>1, <1>0
    <3> QED BY <3>1, <3>2, <3>3
  <2>8. SoFar(r)' BY <2>2, <2>7 DEF SoFar
  <2> QED BY <2>4, <2>6, <2>8 DEF Sound
<1>6. CASE Verify(r) /\ ~Go(r, "release")
  <2>1. Go(r, "finish") /\ At(r, "verify") /\ UNCHANGED stores BY <1>6 DEF Verify
  <2>2. /\ repairer'[r].at = "finish" /\ repairer'[r].outputs = repairer[r].outputs
        /\ repairer'[r].cursor = repairer[r].cursor
    BY <2>1, <1>s, GoKeeps
  <2>3. Fenced(r)' <=> Fenced(r) BY <2>1 DEF Fenced, stores
  <2>4. Current(r)' /\ Known(r)' /\ FromFirst(r)'
    BY <1>2, <2>2 DEF Current, Known, FromFirst, Checked, Fresh
  <2>5. Journaled(r)' /\ SoFar(r)'
    BY <2>1, <2>2, <2>3 DEF Sound, Journaled, SoFar, Writing, At, stores
  <2> QED BY <2>4, <2>5 DEF Sound
<1>7. CASE Finish(r) /\ ~Go(r, "release")
  <2>1. Go(r, "open") BY <1>7 DEF Finish
  <2>2. /\ repairer'[r].at = "open" /\ repairer'[r].outputs = repairer[r].outputs
        /\ repairer'[r].cursor = repairer[r].cursor
    BY <2>1, <1>s, GoKeeps
  <2> QED BY <1>2, <2>2 DEF Sound, Current, Known, FromFirst, Journaled, SoFar, Writing, Checked, Fresh
<1>8. CASE Open(r) BY <1>1, <1>8 DEF Open
<1>9. CASE Go(r, "release") BY <1>1, <1>9
<1> QED BY <1>3, <1>4, <1>5, <1>6, <1>7, <1>8, <1>9 DEF Writes
(***************************************************************************)
(* The store, under the steps of a repairer and of the scanner.            *)
(***************************************************************************)
(* A repairer under its fence has the scanner off, and the right outputs.  *)
LEMMA FenceExcludesScanner ==
  ASSUME DInv, NEW r \in Repairers, scannerLease = r
  PROVE  scanner = "off" /\ scannerLease # Scanner
  BY RepairAssumption DEF DInv, StoreSound, ScannerHasLease

LEMMA StoreUntouched ==
  ASSUME StoreSound, UNCHANGED <<journal, data, right>>, ScannerHasLease', ScanningIsClear'
  PROVE  StoreSound'
  BY DEF StoreSound, NothingAhead, WholeWithoutJournal

LEMMA StoreWrites ==
  ASSUME TypeOK, DInv, NEW r \in Repairers, Writes(r)
  PROVE  StoreSound' /\ \A p \in Parts : data'[p] >= data[p]
<1>0. /\ data \in [Parts -> Nat] /\ right \in Nat /\ repairer[r].part \in Parts
      /\ repairer[r].outputs \in Nat /\ \A p \in Parts : data[p] <= right
  BY DEF TypeOK, RepairerStates, DInv, StoreSound, NothingAhead
<1>1. /\ scanner' = scanner /\ scannerLease' = scannerLease /\ right' = right
      /\ repairer[r].at \in Checked
  BY DEF Writes, Claim, Close, Record, Write, Verify, Finish, Open, At, Checked, stores
<1>2. ScannerHasLease' BY <1>1 DEF DInv, StoreSound, ScannerHasLease
<1>3. ASSUME UNCHANGED <<journal, data>> PROVE StoreSound' /\ \A p \in Parts : data'[p] >= data[p]
  <2>1. ScanningIsClear' BY <1>1, <1>3 DEF DInv, StoreSound, ScanningIsClear
  <2> QED BY <1>0, <1>1, <1>2, <1>3, <2>1, StoreUntouched DEF DInv
<1>4. ASSUME Fenced(r)
      PROVE  /\ ScanningIsClear' /\ Sound(r) /\ repairer[r].outputs = right
             /\ repairer[r].cursor # NoJournal
  <2>1. scanner = "off" BY <1>4, FenceExcludesScanner DEF Fenced
  <2> QED BY <1>1, <1>4, <2>1 DEF ScanningIsClear, DInv, Sound, Current, Known, Fenced
<1>5. CASE Record(r) /\ Fenced(r)
  <2>1. journal' = repairer[r].cursor /\ data' = data BY <1>5 DEF Record
  <2> QED BY <1>0, <1>1, <1>2, <1>4, <1>5, <2>1
          DEF StoreSound, NothingAhead, WholeWithoutJournal
<1>6. CASE Write(r) /\ Fenced(r)
  <2>1. data' = [data EXCEPT ![repairer[r].part] = right] /\ journal' = journal
    BY <1>4, <1>6 DEF Write, Written
  <2>2. \A p \in Parts : data'[p] \in {data[p], right} BY <1>0, <2>1
  <2>3. journal' # NoJournal
    BY <1>4, <1>6, <2>1 DEF Write, At, Sound, Journaled, Writing
  <2>4. NothingAhead' /\ \A p \in Parts : data'[p] >= data[p]
    BY <1>0, <1>1, <2>2 DEF NothingAhead
  <2> QED BY <1>2, <1>4, <1>6, <2>3, <2>4 DEF StoreSound, WholeWithoutJournal
<1>7. CASE Finish(r) /\ Fenced(r)
  <2>1. data' = data BY <1>7 DEF Finish
  <2>2. \A p \in Parts : data[p] = right
    BY <1>4, <1>7 DEF Finish, At, Sound, SoFar, Writing
  <2>3. WholeWithoutJournal' BY <2>1, <2>2 DEF WholeWithoutJournal, Parts
  <2> QED BY <1>0, <1>1, <1>2, <1>4, <1>7, <2>1, <2>3 DEF StoreSound, NothingAhead
<1>8. CASE ~Fenced(r) BY <1>3, <1>8 DEF Writes, Claim, Close, Record, Write, Written, Verify,
                                        Finish, Open, stores
<1>9. CASE Claim(r) \/ Close(r) \/ Verify(r) \/ Open(r)
  BY <1>3, <1>9 DEF Claim, Close, Verify, Open, stores
<1> QED BY <1>5, <1>6, <1>7, <1>8, <1>9 DEF Writes

LEMMA StoreScans ==
  ASSUME TypeOK, StoreSound, Scans \/ ScanCrash \/ Grow \/ Fork
  PROVE  /\ StoreSound' /\ \A p \in Parts : data'[p] >= data[p]
         /\ UNCHANGED <<journal, repairer, repairLease>>
         /\ scannerLease' \in {scannerLease, Scanner, Free, Gone}
         /\ scannerLease = Scanner \/ UNCHANGED <<right, data>>
<1>0. /\ data \in [Parts -> Nat] /\ right \in Nat /\ \A p \in Parts : data[p] <= right
  BY DEF TypeOK, StoreSound, NothingAhead
<1>1. /\ UNCHANGED <<journal, repairer, repairLease>>
      /\ scannerLease' \in {scannerLease, Scanner, Free, Gone}
  BY DEF Scans, ScanStart, ScanBegin, ScanBlock, ScanRollback, ScanEnd, ScanCrash, Grow, Fork, stores, Dead
<1>2. ScannerHasLease' /\ ScanningIsClear'
  BY DEF Scans, ScanStart, ScanBegin, ScanBlock, ScanRollback, ScanEnd, ScanCrash, Grow, Fork, stores,
     StoreSound, ScannerHasLease, ScanningIsClear, Clear
<1>3. CASE UNCHANGED <<right, data>>
  <2>1. \A p \in Parts : data'[p] >= data[p] BY <1>0, <1>3
  <2> QED BY <1>1, <1>2, <1>3, <2>1, StoreUntouched
<1>4. CASE /\ scanner = "scanning" /\ right' = right + 1 /\ data' = [p \in Parts |-> right']
  <2>1. \A p \in Parts : data'[p] = right + 1 BY <1>4
  <2>2. NothingAhead' /\ \A p \in Parts : data'[p] >= data[p] BY <1>0, <1>4, <2>1 DEF NothingAhead
  <2>3. WholeWithoutJournal' BY <2>1 DEF WholeWithoutJournal, Parts
  <2>4. scannerLease = Scanner BY <1>4 DEF StoreSound, ScannerHasLease
  <2> QED BY <1>1, <1>2, <2>2, <2>3, <2>4 DEF StoreSound
<1>5. \/ UNCHANGED <<right, data>>
      \/ /\ scanner = "scanning" /\ right' = right + 1 /\ data' = [p \in Parts |-> right']
  BY DEF Scans, ScanStart, ScanBegin, ScanBlock, ScanRollback, ScanEnd, ScanCrash, Grow, Fork, stores
<1> QED BY <1>3, <1>4, <1>5

LEMMA DataStep ==
  ASSUME TypeOK, DInv, [Next]_vars
  PROVE  DInv' /\ \A p \in Parts : data'[p] >= data[p]
<1> USE RepairAssumption
<1>0. /\ data \in [Parts -> Nat] /\ StoreSound /\ \A s \in Repairers : Sound(s)
  BY DEF TypeOK, DInv
<1>k. ASSUME UNCHANGED <<journal, data, right, scanner, repairer>>,
             repairLease' \in {repairLease, Free, Gone},
             \/ scannerLease' = scannerLease
             \/ scannerLease \in Repairers \union {Gone} /\ scannerLease' = Free
      PROVE  DInv' /\ \A p \in Parts : data'[p] >= data[p]
  <2>1. \A s \in Repairers : Sound(s)' BY <1>0, <1>k, OthersKept
  <2>2. ScannerHasLease' /\ ScanningIsClear'
    BY <1>0, <1>k DEF StoreSound, ScannerHasLease, ScanningIsClear, Free, Gone, Scanner
  <2>3. StoreSound' BY <1>0, <1>k, <2>2, StoreUntouched
  <2> QED BY <1>0, <1>k, <2>1, <2>3 DEF DInv
<1>u. CASE UNCHANGED vars BY <1>u, <1>k DEF vars
<1>a. ASSUME NEW r \in Repairers, Prepares(r) \/ Acquire(r) PROVE DInv' /\ \A p \in Parts : data'[p] >= data[p]
  <2>1. Sound(r)' BY <1>a, <1>0, SoundPrepares
  <2>2. /\ UNCHANGED <<journal, data, right, scanner, repairLease>>
        /\ scannerLease' = scannerLease \/ (scannerLease = Free /\ scannerLease' = r)
    BY <1>a DEF Prepares, ReadJournal, Held, First, Second, Check, Acquire, stores
  <2>3. \A s \in Repairers \ {r} : repairer'[s] = repairer[s] BY <1>a, Prepared DEF Lands
  <2>4. \A s \in Repairers \ {r} : Sound(s)' BY <1>0, <2>2, <2>3, OthersKept
  <2>5. ScannerHasLease' /\ ScanningIsClear'
    BY <1>0, <2>2 DEF StoreSound, ScannerHasLease, ScanningIsClear, Free, Scanner
  <2>6. StoreSound' BY <1>0, <2>2, <2>5, StoreUntouched
  <2> QED BY <1>0, <2>1, <2>2, <2>4, <2>6 DEF DInv
<1>b. ASSUME NEW r \in Repairers, Writes(r) PROVE DInv' /\ \A p \in Parts : data'[p] >= data[p]
  <2>1. Sound(r)' BY <1>b, <1>0, SoundWrites
  <2>2. StoreSound' /\ \A p \in Parts : data'[p] >= data[p] BY <1>b, StoreWrites
  <2>3. /\ scannerLease' = scannerLease /\ right' = right
        /\ repairLease' = repairLease \/ repairLease' = r
        /\ ~Fenced(r) => UNCHANGED <<journal, data>>
    BY <1>b DEF Writes, Claim, Close, Record, Write, Written, Verify, Finish, Open, stores
  <2>4. \A s \in Repairers \ {r} : repairer'[s] = repairer[s]
    <3>1. \E steps : Lands(r, steps) BY <1>b, Prepared, WroteOrLeft DEF Writes
    <3> QED BY <3>1 DEF Lands
  <2>5. ASSUME NEW s \in Repairers \ {r} PROVE Sound(s)'
    <3>1. Fenced(s) => ~Fenced(r) BY DEF Fenced
    <3> QED BY <1>0, <2>3, <2>4, <3>1, OthersKept
  <2> QED BY <2>1, <2>2, <2>5 DEF DInv
<1>c. ASSUME NEW r \in Repairers, Release(r) \/ Throws(r) \/ Crash(r)
      PROVE  DInv' /\ \A p \in Parts : data'[p] >= data[p]
  <2>1. Lands(r, {"release", "idle"})
    <3>1. Lands(r, {"release"}) \/ Lands(r, {"idle"}) BY <1>c, WroteOrLeft
    <3> QED BY <3>1 DEF Lands
  <2>2. /\ UNCHANGED <<journal, data, right, scanner>>
        /\ repairLease' \in {repairLease, Free, Gone}
        /\ scannerLease' = scannerLease \/ (scannerLease = r /\ scannerLease' \in {Free, Gone})
    BY <1>c DEF Release, Throws, Crash, stores, Dead
  <2>3. Sound(r)' BY <2>1, NothingKnown DEF Lands
  <2>4. \A s \in Repairers \ {r} : Sound(s)' BY <1>0, <2>1, <2>2, OthersKept DEF Lands
  <2>5. ScannerHasLease' /\ ScanningIsClear'
    BY <1>0, <2>2 DEF StoreSound, ScannerHasLease, ScanningIsClear
  <2>6. StoreSound' BY <1>0, <2>2, <2>5, StoreUntouched
  <2> QED BY <1>0, <2>2, <2>3, <2>4, <2>6 DEF DInv
<1>d. ASSUME NEW q \in Readers, Admit(q) \/ Answer(q) \/ Vanish(q)
      PROVE  DInv' /\ \A p \in Parts : data'[p] >= data[p]
  BY <1>d, <1>k DEF Admit, Answer, Vanish, stores
<1>e. CASE Scans \/ ScanCrash \/ Grow \/ Fork
  <2>1. /\ StoreSound' /\ \A p \in Parts : data'[p] >= data[p]
        /\ UNCHANGED <<journal, repairer, repairLease>>
        /\ scannerLease' \in {scannerLease, Scanner, Free, Gone}
        /\ scannerLease = Scanner \/ UNCHANGED <<right, data>>
    BY <1>0, <1>e, StoreScans
  <2>2. ASSUME NEW s \in Repairers PROVE Sound(s)'
    <3>1. s \notin {Scanner, Free, Gone} OBVIOUS
    <3>2. Fenced(s) => scannerLease # Scanner BY <3>1 DEF Fenced
    <3> QED BY <1>0, <2>1, <3>1, <3>2, OthersKept
  <2> QED BY <2>1, <2>2 DEF DInv
<1>f. CASE Expire \/ Lapse \/ RemoveOrphan
  <2>1. /\ UNCHANGED <<journal, data, right, scanner, repairer>>
        /\ repairLease' \in {repairLease, Free, Gone}
        /\ \/ scannerLease' = scannerLease
           \/ scannerLease \in Repairers \union {Gone} /\ scannerLease' = Free
    BY <1>f DEF Expire, Expired, Lapse, RemoveOrphan
  <2> QED BY <2>1, <1>k
<1> QED BY <1>u, <1>a, <1>b, <1>c, <1>d, <1>e, <1>f DEF Next

(***************************************************************************)
(* A store without a journal is of one version: whatever a repair leaves   *)
(* half done, by whatever death, the journal is there to say so.           *)
(***************************************************************************)
THEOREM NoHalfRepairUnjournaled == Spec => []WholeWithoutJournal
<1>1. Init => IInv /\ DInv BY RepairInit, DataInit
<1>2. IInv /\ DInv /\ [Next]_vars => IInv' /\ DInv' BY RepairStep, DataStep DEF IInv
<1>3. DInv => WholeWithoutJournal BY DEF DInv, StoreSound
<1> QED BY <1>1, <1>2, <1>3, PTL DEF Spec

(***************************************************************************)
(* No part of the repaired data is ever put back to an older state of the  *)
(* chain, by however many repairers were replaced on the way.              *)
(***************************************************************************)
THEOREM RepairNeverRegresses == Spec => NeverRegresses
<1>1. Init => IInv /\ DInv BY RepairInit, DataInit
<1>2. IInv /\ DInv /\ [Next]_vars => IInv' /\ DInv' BY RepairStep, DataStep DEF IInv
<1>3. IInv /\ DInv /\ [Next]_vars => [\A p \in Parts : data'[p] >= data[p]]_vars
  BY DataStep DEF IInv
<1> QED BY <1>1, <1>2, <1>3, PTL DEF Spec, NeverRegresses
=============================================================================
