----------------------------- MODULE LocalRepair -----------------------------
(***************************************************************************)
(* The local repair of drifted handles (utils/localRepair.ts): an operator's *)
(* process reads the owner outputs as they are on the chain at the stored  *)
(* cursor, shuts the HTTP readers out, journals what it is about to do,    *)
(* writes batch by batch under two leases and opens the gate again.  It    *)
(* may die or be timed out anywhere, be run again, and be run twice at     *)
(* once; the scheduled scanner and the readers go on around it.            *)
(*                                                                         *)
(* The repaired data is three parts in the order in which they are         *)
(* written.  A version tells which state of the chain a part shows; Right  *)
(* is the version the chain has at the cursor.  The tokens of leases are   *)
(* random, one per process started: the token of a dead process is Gone.   *)
(***************************************************************************)
EXTENDS Integers, FiniteSets

CONSTANTS
    Repairers, Readers,
    MaxLinks,      \* parent links walked from the tip to the cursor (64)
    Blocks,        \* blocks the scanner takes in; the chain goes MaxLinks further
    MaxFaults      \* crashes, timeouts, lapsed leases and forks

Free == "free"
Gone == "gone"
Scanner == "scanner"
NoJournal == 0             \* a journal is known by its cursor
FirstCursor == 1
Parts == 1 .. 3            \* outputs added, old outputs removed, MPT root

ASSUME RepairAssumption ==
    /\ {Free, Gone, Scanner} \intersect Repairers = {}
    /\ MaxLinks \in Nat /\ Blocks \in Nat /\ MaxFaults \in Nat

VARIABLES
    scannerLease, repairLease,   \* scanner:lease, local-repair:lease
    gate,          \* local-repair:reader-gate: Free, who closed it, or Gone
    tokens,        \* local-repair:readers
    journal,
    lock,          \* lockLambdas
    cursor, right,
    chain,         \* its tip; orphaned: it left the block of the cursor;
                   \* minted: its last block that mints or burns an owner token
    data,
    repairer, reader, scanner,
    faults

stores == <<scannerLease, repairLease, gate, tokens, journal, lock, cursor, data>>
vars == <<scannerLease, repairLease, gate, tokens, journal, lock, cursor, right, chain,
          data, repairer, reader, scanner, faults>>

Dead(token, p) == IF token = p THEN Gone ELSE token   \* what p leaves when it ends

Steps == {"idle", "lease", "first", "second", "check", "claim", "close", "record",
          "write", "verify", "finish", "open", "release"}
Idle == [at |-> "idle", journal |-> NoJournal, stored |-> [p \in Parts |-> 0],
         anchor |-> 0, outputs |-> 0, cursor |-> 0, lock |-> "unlocked", part |-> 1]
Leaving == [Idle EXCEPT !.at = "release"]      \* what it had read is of no use
Go(r, step) ==
    repairer' = [repairer EXCEPT ![r] = IF step = "release" THEN Leaving ELSE [@ EXCEPT !.at = step]]
At(r, step) == repairer[r].at = step
Fault == faults < MaxFaults /\ faults' = faults + 1

Init ==
    /\ scannerLease = Free /\ repairLease = Free /\ gate = Free /\ tokens = {}
    /\ journal = NoJournal /\ lock = "unlocked"
    /\ cursor = FirstCursor /\ right = 1
    /\ chain = [tip |-> FirstCursor + 1, orphaned |-> FALSE, minted |-> 0]
    /\ data = [p \in Parts |-> 0]
    /\ repairer = [r \in Repairers |-> Idle]
    /\ reader = [q \in Readers |-> "out"]
    /\ scanner = "off"
    /\ faults = 0

-----------------------------------------------------------------------------
(***************************************************************************)
(* Before anything is written.                                             *)
(***************************************************************************)
ReadJournal(r) ==
    /\ At(r, "idle")
    /\ repairer' = [repairer EXCEPT ![r] = [Idle EXCEPT !.at = "lease", !.journal = journal]]
    /\ UNCHANGED <<stores, right, chain, reader, scanner, faults>>

(* repairPreflight: the scanner's lease, then the stored records. *)
Acquire(r) ==
    /\ At(r, "lease") /\ scannerLease = Free
    /\ scannerLease' = r
    /\ repairer' = [repairer EXCEPT ![r].at = "first", ![r].stored = data]
    /\ UNCHANGED <<repairLease, gate, tokens, journal, lock, cursor, data,
                   right, chain, reader, scanner, faults>>
Held(r) ==
    /\ At(r, "lease") /\ scannerLease # Free /\ Go(r, "idle")
    /\ UNCHANGED <<stores, right, chain, reader, scanner, faults>>

(* createKoiosRepairReader: the outputs at the cursor, which must be the one *)
(* of the first read and the tip or an ancestor of it, not too many links    *)
(* away; from today's outputs back to those no owner token is minted, and    *)
(* none of them may be burnt by now.                                         *)
Near == chain.tip - cursor <= MaxLinks
Anchored(r) ==
    /\ ~chain.orphaned /\ Near
    /\ repairer[r].anchor # 0 => repairer[r].anchor = cursor
Traced == chain.minted <= cursor
Shown(r) == Anchored(r) /\ Traced
Owns(r) == scannerLease = r
First(r) ==
    /\ At(r, "first")
    /\ IF Shown(r) /\ Owns(r)
       THEN repairer' = [repairer EXCEPT ![r].at = "second", ![r].anchor = cursor, ![r].outputs = right]
       ELSE Go(r, "release")
    /\ UNCHANGED <<stores, right, chain, reader, scanner, faults>>
Second(r) ==
    /\ At(r, "second")
    /\ IF Shown(r) /\ Owns(r) /\ repairer[r].outputs = right /\ repairer[r].stored = data
       THEN Go(r, "check") ELSE Go(r, "release")
    /\ UNCHANGED <<stores, right, chain, reader, scanner, faults>>

JournalStands(r) ==
    /\ journal = repairer[r].journal
    /\ journal # NoJournal => journal = cursor
Locked(r) == lock = IF repairer[r].journal = NoJournal THEN "unlocked" ELSE "reindex"
Check(r) ==
    /\ At(r, "check")
    /\ repairer' = [repairer EXCEPT
          ![r].at = IF JournalStands(r) /\ Locked(r) THEN "claim" ELSE "release",
          ![r].cursor = cursor, ![r].lock = lock]
    /\ UNCHANGED <<stores, right, chain, reader, scanner, faults>>

-----------------------------------------------------------------------------
(***************************************************************************)
(* Under the fence of both leases.                                         *)
(***************************************************************************)
Fenced(r) == repairLease = r /\ scannerLease = r

(* snapshotClaim: nobody has the repair lease, the scanner lease is still  *)
(* the one taken, the metrics are those just read.                         *)
Claimable(r) ==
    /\ repairLease = Free /\ scannerLease = r
    /\ cursor = repairer[r].cursor /\ lock = repairer[r].lock
Claim(r) ==
    /\ At(r, "claim")
    /\ repairLease' = IF Claimable(r) THEN r ELSE repairLease
    /\ Go(r, IF Claimable(r) THEN "close" ELSE "release")
    /\ UNCHANGED <<scannerLease, gate, tokens, journal, lock, cursor, data,
                   right, chain, reader, scanner, faults>>

(* localRepairReaderGate.lua: close refuses while a reader is admitted, and *)
(* a gate left closed without a journal.                                    *)
AnyReaders == TRUE                       \* a mutant: the readers are not counted
NoReaderLeft == tokens = {}
MayClose(r) == Fenced(r) /\ NoReaderLeft /\ (gate # Free => journal # NoJournal)
Close(r) ==
    /\ At(r, "close")
    /\ gate' = IF MayClose(r) THEN r ELSE gate
    /\ Go(r, IF MayClose(r) THEN "record" ELSE "release")
    /\ UNCHANGED <<scannerLease, repairLease, tokens, journal, lock, cursor, data,
                   right, chain, reader, scanner, faults>>

(* The epoch changes: a response begun before is not sent (localRepairGuard). *)
Spanned == [q \in Readers |-> IF reader[q] = "reading" THEN "spanned" ELSE reader[q]]

Record(r) ==
    /\ At(r, "record")
    /\ IF Fenced(r)
       THEN /\ journal' = repairer[r].cursor /\ lock' = "reindex" /\ reader' = Spanned
            /\ Go(r, "write")
       ELSE Go(r, "release") /\ UNCHANGED <<journal, lock, reader>>
    /\ UNCHANGED <<scannerLease, repairLease, gate, tokens, cursor, data,
                   right, chain, scanner, faults>>

OneMore == 4                             \* a mutant: a batch too many
RootForgotten == 2                       \* a mutant: the MPT root is not rebuilt
LastPart == 3
(* One fenced batch: it is in the store whole, or the fence was lost. *)
Unfenced(r) == TRUE                      \* a mutant: the batch does not watch the leases
Written(r) == Fenced(r)
Write(r) ==
    /\ At(r, "write")
    /\ LET p == repairer[r].part IN
       IF Written(r)
       THEN /\ data' = [data EXCEPT ![p] = repairer[r].outputs]
            /\ repairer' = [repairer EXCEPT ![r].at = IF p = LastPart THEN "verify" ELSE "write",
                                            ![r].part = IF p = LastPart THEN p ELSE p + 1]
       ELSE Go(r, "release") /\ UNCHANGED data
    /\ UNCHANGED <<scannerLease, repairLease, gate, tokens, journal, lock, cursor,
                   right, chain, reader, scanner, faults>>

Verify(r) ==
    /\ At(r, "verify")
    /\ Go(r, IF Shown(r) /\ repairer[r].outputs = right THEN "finish" ELSE "release")
    /\ UNCHANGED <<stores, right, chain, reader, scanner, faults>>

Finish(r) ==
    /\ At(r, "finish")
    /\ IF Fenced(r)
       THEN /\ journal' = NoJournal /\ lock' = "unlocked" /\ reader' = Spanned
            /\ Go(r, "open")
       ELSE Go(r, "release") /\ UNCHANGED <<journal, lock, reader>>
    /\ UNCHANGED <<scannerLease, repairLease, gate, tokens, cursor, data,
                   right, chain, scanner, faults>>

MayOpen(r) == Fenced(r) /\ gate = r /\ journal = NoJournal /\ tokens = {}
Open(r) ==
    /\ At(r, "open") /\ Go(r, "release")
    /\ gate' = IF MayOpen(r) THEN Free ELSE gate
    /\ UNCHANGED <<scannerLease, repairLease, tokens, journal, lock, cursor, data,
                   right, chain, reader, scanner, faults>>

(* finally: snapshotRelease and the release of the scanner's lease, each if *)
(* it is still the own one.  A gate still shut stays so.                    *)
Release(r) ==
    /\ At(r, "release") /\ repairer' = [repairer EXCEPT ![r] = Idle]
    /\ repairLease' = IF repairLease = r THEN Free ELSE repairLease
    /\ scannerLease' = IF scannerLease = r THEN Free ELSE scannerLease
    /\ gate' = Dead(gate, r)
    /\ UNCHANGED <<tokens, journal, lock, cursor, data, right, chain,
                   reader, scanner, faults>>

(* A call throws (the provider, a timeout); the process dies. *)
Throws(r) ==
    /\ repairer[r].at \notin {"idle", "lease", "release"} /\ Fault /\ Go(r, "release")
    /\ UNCHANGED <<stores, right, chain, reader, scanner>>
Crash(r) ==
    /\ repairer[r].at # "idle" /\ Fault
    /\ repairer' = [repairer EXCEPT ![r] = Idle]
    /\ repairLease' = Dead(repairLease, r) /\ scannerLease' = Dead(scannerLease, r)
    /\ gate' = Dead(gate, r)
    /\ UNCHANGED <<tokens, journal, lock, cursor, data, right, chain, reader, scanner>>

(* The time of a lease is up.  The scanner at work renews its own. *)
Never(lease) == FALSE                    \* a mutant: the leases are taken without a TTL
Expired(lease) == lease = Gone
Expire ==
    /\ \/ Expired(scannerLease) /\ scannerLease' = Free /\ UNCHANGED repairLease
       \/ Expired(repairLease) /\ repairLease' = Free /\ UNCHANGED scannerLease
    /\ UNCHANGED <<gate, tokens, journal, lock, cursor, data, right, chain,
                   repairer, reader, scanner, faults>>
(* A repairer that was too slow, and does not know. *)
Lapse ==
    /\ Fault
    /\ \/ scannerLease \in Repairers /\ scannerLease' = Free /\ UNCHANGED repairLease
       \/ repairLease \in Repairers /\ repairLease' = Free /\ UNCHANGED scannerLease
    /\ UNCHANGED <<gate, tokens, journal, lock, cursor, data, right, chain,
                   repairer, reader, scanner>>

-----------------------------------------------------------------------------
(***************************************************************************)
(* The readers: localRepairReaderAdmission around localRepairGuard.        *)
(***************************************************************************)
Admit(q) ==
    /\ reader[q] = "out" /\ gate = Free /\ journal = NoJournal
    /\ tokens' = tokens \union {q} /\ reader' = [reader EXCEPT ![q] = "reading"]
    /\ UNCHANGED <<scannerLease, repairLease, gate, journal, lock, cursor, data,
                   right, chain, repairer, scanner, faults>>
(* The response is sent or refused, and its last byte gone. *)
Answer(q) ==
    /\ reader[q] \in {"reading", "spanned"}
    /\ tokens' = tokens \ {q} /\ reader' = [reader EXCEPT ![q] = "out"]
    /\ UNCHANGED <<scannerLease, repairLease, gate, journal, lock, cursor, data,
                   right, chain, repairer, scanner, faults>>
(* The API dies, or its release of the token fails: the token stays. *)
Vanish(q) ==
    /\ reader[q] \in {"reading", "spanned"} /\ Fault
    /\ reader' = [reader EXCEPT ![q] = "out"]
    /\ UNCHANGED <<stores, right, chain, repairer, scanner>>
(* An operator who has made sure that the process is dead (the runbook). *)
RemoveOrphan ==
    /\ \/ \E q \in tokens : reader[q] = "out" /\ tokens' = tokens \ {q} /\ UNCHANGED gate
       \/ gate = Gone /\ journal = NoJournal /\ gate' = Free /\ UNCHANGED tokens
    /\ UNCHANGED <<scannerLease, repairLease, journal, lock, cursor, data,
                   right, chain, repairer, reader, scanner, faults>>

-----------------------------------------------------------------------------
(***************************************************************************)
(* The scanner (ScannerControl, ChainFollow): the lease, the look at the   *)
(* journal, then blocks or the rollback of orphaned ones.                  *)
(***************************************************************************)
ScanStart ==
    /\ scanner = "off" /\ scannerLease = Free
    /\ scannerLease' = Scanner /\ scanner' = "started"
    /\ UNCHANGED <<repairLease, gate, tokens, journal, lock, cursor, data,
                   right, chain, repairer, reader, faults>>
Clear == journal = NoJournal
ScanBegin ==
    /\ scanner = "started"
    /\ IF Clear THEN scanner' = "scanning" /\ lock' = "scanning" /\ UNCHANGED scannerLease
       ELSE scanner' = "off" /\ scannerLease' = Free /\ UNCHANGED lock
    /\ UNCHANGED <<repairLease, gate, tokens, journal, cursor, data,
                   right, chain, repairer, reader, faults>>
(* A block, that moves one of the handles or none. *)
ScanBlock ==
    /\ scanner = "scanning" /\ ~chain.orphaned
    /\ cursor < chain.tip /\ cursor < FirstCursor + Blocks
    /\ cursor' = cursor + 1
    /\ \/ UNCHANGED <<right, data>>
       \/ right' = right + 1 /\ data' = [p \in Parts |-> right']
    /\ UNCHANGED <<scannerLease, repairLease, gate, tokens, journal, lock, chain,
                   repairer, reader, scanner, faults>>
ScanRollback ==
    /\ scanner = "scanning" /\ chain.orphaned
    /\ chain' = [chain EXCEPT !.orphaned = FALSE] /\ cursor' = cursor - 1
    /\ right' = right + 1 /\ data' = [p \in Parts |-> right']
    /\ UNCHANGED <<scannerLease, repairLease, gate, tokens, journal, lock,
                   repairer, reader, scanner, faults>>
ScanEnd ==
    /\ scanner = "scanning"
    /\ scanner' = "off" /\ scannerLease' = Free /\ lock' = "unlocked"
    /\ UNCHANGED <<repairLease, gate, tokens, journal, cursor, data,
                   right, chain, repairer, reader, faults>>
ScanCrash ==
    /\ scanner # "off" /\ Fault
    /\ scanner' = "off" /\ scannerLease' = Dead(scannerLease, Scanner)
    /\ UNCHANGED <<repairLease, gate, tokens, journal, lock, cursor, data,
                   right, chain, repairer, reader>>
(* The chain goes on, whether or not the scanner does, or switches. *)
Grow ==
    /\ chain.tip < FirstCursor + Blocks + MaxLinks
    /\ \E last \in {chain.minted, chain.tip + 1} :
          chain' = [chain EXCEPT !.tip = @ + 1, !.minted = last]
    /\ UNCHANGED <<stores, right, repairer, reader, scanner, faults>>
Fork ==
    /\ ~chain.orphaned /\ cursor > FirstCursor /\ Fault
    /\ chain' = [chain EXCEPT !.orphaned = TRUE, !.minted = 0]
    /\ UNCHANGED <<stores, right, repairer, reader, scanner>>

-----------------------------------------------------------------------------
Prepares(r) == ReadJournal(r) \/ Held(r) \/ First(r) \/ Second(r) \/ Check(r)
Writes(r) == Claim(r) \/ Close(r) \/ Record(r) \/ Write(r) \/ Verify(r) \/ Finish(r) \/ Open(r)
Scans == ScanStart \/ ScanBegin \/ ScanBlock \/ ScanRollback \/ ScanEnd
Next ==
    \/ \E r \in Repairers : \/ Prepares(r) \/ Acquire(r) \/ Writes(r) \/ Release(r)
                            \/ Throws(r) \/ Crash(r)
    \/ \E q \in Readers : Admit(q) \/ Answer(q) \/ Vanish(q)
    \/ Scans \/ ScanCrash \/ Grow \/ Fork \/ Expire \/ Lapse \/ RemoveOrphan

(* The operator runs the repair again until it is through.                 *)
Fairness ==
    /\ \A r \in Repairers : /\ WF_vars(Prepares(r) \/ Writes(r) \/ Release(r))
                            /\ SF_vars(Acquire(r))
    /\ WF_vars(ScanBegin \/ ScanEnd) /\ WF_vars(Expire)
Spec == Init /\ [][Next]_vars /\ Fairness

-----------------------------------------------------------------------------
Locks == {"unlocked", "scanning", "reindex"}
RepairerStates ==
    [at : Steps, journal : Nat, stored : [Parts -> Nat], anchor : Nat, outputs : Nat,
     cursor : Nat, lock : Locks, part : Parts]
TypeOK ==
    /\ scannerLease \in Repairers \union {Free, Gone, Scanner}
    /\ repairLease \in Repairers \union {Free, Gone} /\ gate \in Repairers \union {Free, Gone}
    /\ tokens \subseteq Readers
    /\ cursor \in Nat \ {0} /\ right \in Nat
    /\ chain \in [tip : Nat, orphaned : BOOLEAN, minted : Nat]
    /\ journal \in Nat /\ lock \in Locks
    /\ data \in [Parts -> Nat]
    /\ repairer \in [Repairers -> RepairerStates]
    /\ reader \in [Readers -> {"out", "reading", "spanned"}]
    /\ scanner \in {"off", "started", "scanning"}
    /\ faults \in 0 .. MaxFaults

(***************************************************************************)
(* From the journal's first to its last moment no response is being        *)
(* computed, through all crashes and recoveries: nobody reads a store that *)
(* is half repaired, and the guard has nothing left to refuse.             *)
(***************************************************************************)
ReadersExcluded ==
    /\ journal # NoJournal => \A q \in Readers : reader[q] = "out"
    /\ \A q \in Readers : reader[q] # "spanned"

(***************************************************************************)
(* A store without a journal is of one version: what a dead repair left    *)
(* half done is never without the journal that says so.                    *)
(***************************************************************************)
WholeWithoutJournal == journal = NoJournal => \A p \in Parts : data[p] = data[1]

(***************************************************************************)
(* No part is ever put back to an older state of the chain, by a repairer  *)
(* that was replaced, or by outputs read before the scanner went on.       *)
(***************************************************************************)
NeverRegresses == [][\A p \in Parts : data'[p] >= data[p]]_vars

(***************************************************************************)
(* A recovery goes through, unless it is too late for one: while the       *)
(* journal stands the scanner is stopped and the chain goes on, so that in *)
(* the end the cursor is too far behind the tip, on a branch that was      *)
(* left, or before a mint or burn of an owner token, and every reading is  *)
(* refused.  The timer of the scanner is stopped for the recovery: a       *)
(* repairer that finds the lease held gives up, and endless scans could    *)
(* always be in its way.                                                   *)
(***************************************************************************)
TooLate == chain.orphaned \/ ~Near \/ ~Traced
RecoveryCompletes ==
    <>[](scanner = "off") => ((journal # NoJournal) ~> (journal = NoJournal \/ TooLate))
=============================================================================
