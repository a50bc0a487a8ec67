------------------------ MODULE ScannerControlProofs ------------------------
(***************************************************************************)
(* Proofs about ScannerControl: ticks exclude each other, a partial index  *)
(* is flagged and never scanned over, and a stale label root is marked,    *)
(* for any set of processes, any chain and any number of deaths, failures  *)
(* and requests.                                                           *)
(***************************************************************************)
EXTENDS ScannerControl, TLAPS

(***************************************************************************)
(* Of an undisturbed tick: it still has the lease in Early; it has found   *)
(* or made the lock free in Clear; the lock is its own in Locked.          *)
(***************************************************************************)
Early == Checking \union Scanning \union {"reindex", "relock"}
Clear == {"flag", "legacy", "schema", "reindex", "relock", "scan"}
Locked == {"wipe", "read", "write", "root", "stamp", "unflag",
           "apply", "finish", "rename", "reroot", "unpend", "unlock"}

OnlyTicks == \A p \in Sideload \union Publisher : pc[p] \in {"down", "seen"}
EarlyHasLease == \A p \in Tick : pc[p] \in Early => lease = p
ClearIsUnlocked == \A p \in Tick : pc[p] \in Clear => lock = "UNLOCKED"
StaleIsOld == \A p \in Tick : pc[p] \in {"flagging", "unlocking"} => old
LockedIsOwn == \A p \in Tick : pc[p] \in Locked => lock # "UNLOCKED" /\ locker = p /\ ~old

Undisturbed == OnlyTicks /\ EarlyHasLease /\ ClearIsUnlocked /\ StaleIsOld /\ LockedIsOwn

Exclusion == ~interfered => Undisturbed /\ ~overlapped

(***************************************************************************)
(* While nobody overlapped, one process at most is at work, and what it    *)
(* has done of its rebuild is known from its stage.                        *)
(***************************************************************************)
OneAtWork == \A p, q \in Proc : pc[p] \in Work /\ pc[q] \in Work => p = q

RebuildIsFlagged == \A p \in Proc : pc[p] \in Rebuilding \ {"reindex"} => recovery = "reindex"

Built == {"root", "stamp", "unflag"}

RebuildSoFar ==
    \A p \in Proc :
        /\ pc[p] = "read" => index = Nothing
        /\ pc[p] = "write" => /\ frame[p].utxos = base
                              /\ \A h \in Handle \ frame[p].todo : index[h] = base[h]
        /\ pc[p] \in Built \union Scanning \union {"legacy", "schema"} => index = base
        /\ pc[p] \in Scanning \union {"unflag"} => current

WholeOrFlagged == index # base => recovery = "reindex"

SoFar == RebuildIsFlagged /\ RebuildSoFar /\ WholeOrFlagged

Wholeness == ~overlapped => OneAtWork /\ SoFar

-----------------------------------------------------------------------------
(***************************************************************************)
(* Types.                                                                  *)
(***************************************************************************)

LEMMA AfterType ==
    ASSUME NEW n \in Block, NEW i \in [Handle -> Block]
    PROVE  After(n, i) \in [Handle -> Block]
<1>1. 0 \in Block
  BY ControlAssumption DEF Block
<1>2. QED
  BY <1>1 DEF After

LEMMA GoesType ==
    ASSUME NEW p \in Proc, NEW stage \in Stage, pc \in [Proc -> Stage],
           overlapped \in BOOLEAN, Goes(p, stage)
    PROVE  pc' \in [Proc -> Stage] /\ overlapped' \in BOOLEAN
BY DEF Goes

LEMMA FrameType ==
    ASSUME NEW p \in Proc, NEW f \in Frame, frame \in [Proc -> Frame], SetFrame(p, f)
    PROVE  frame' \in [Proc -> Frame]
BY DEF SetFrame

LEMMA IdleType == Idle \in Frame
BY DEF Idle, Frame, Nothing, Block

(* The stages a step can lead to, spelt out for the steps below.           *)
LEMMA StageFact ==
    Stage = {"reindex", "relock", "wipe", "read", "write", "root", "stamp", "unflag",
             "scan", "apply", "finish", "rename", "reroot", "unpend",
             "deferral", "lock", "flagging", "unlocking", "flag", "legacy", "schema",
             "down", "unlock", "release", "seen", "publish"}
BY DEF Stage, Rebuilding, Scanning, Checking

(* Every step of p goes to a stage; its frame and the keys keep their types. *)
LEMMA ControlTypeStep == ControlTypeOK /\ [ControlNext]_vars => ControlTypeOK'
<1> SUFFICES ASSUME ControlTypeOK, ControlNext PROVE ControlTypeOK'
  BY DEF ControlTypeOK, vars, guards, data, env, history
<1> USE DEF ControlTypeOK, guards, data, env
<1>1. ASSUME NEW p \in Tick, AcquireLease(p) PROVE ControlTypeOK'
  BY <1>1, GoesType, StageFact DEF AcquireLease, Proc
<1>2. ASSUME NEW p \in Tick, CheckDeferral(p) PROVE ControlTypeOK'
  BY <1>2, GoesType, StageFact DEF CheckDeferral, Proc
<1>3. ASSUME NEW p \in Tick, CheckLock(p) PROVE ControlTypeOK'
  BY <1>3, GoesType, StageFact DEF CheckLock, Proc
<1>4. ASSUME NEW p \in Tick, FlagStaleReindex(p) PROVE ControlTypeOK'
  BY <1>4, GoesType, StageFact DEF FlagStaleReindex, Proc
<1>5. ASSUME NEW p \in Tick, CheckFlag(p) PROVE ControlTypeOK'
  BY <1>5, GoesType, StageFact DEF CheckFlag, Proc
<1>6. ASSUME NEW p \in Tick, ClearRollbackFlag(p) PROVE ControlTypeOK'
  BY <1>6, GoesType, StageFact DEF ClearRollbackFlag, Proc
<1>7. ASSUME NEW p \in Tick, CheckSchema(p) PROVE ControlTypeOK'
  BY <1>7, GoesType, StageFact DEF CheckSchema, Proc
<1>8. ASSUME NEW p \in Tick, ClearStaleLock(p) PROVE ControlTypeOK'
  BY <1>8, GoesType, StageFact DEF ClearStaleLock, Unlocked, Lock, Proc
<1>9. ASSUME NEW p \in Tick, Shortcut(p) PROVE ControlTypeOK'
  BY <1>9, GoesType, StageFact, ControlAssumption DEF Shortcut, Counted, Proc
<1>10. ASSUME NEW p \in Tick, BeginScan(p) PROVE ControlTypeOK'
  <2>1. [frame[p] EXCEPT !.start = cursor, !.last = cursor] \in Frame
    BY <1>10 DEF Frame, Proc
  <2>2. frame' \in [Proc -> Frame]
    BY <1>10, <2>1, FrameType DEF BeginScan, Proc
  <2> QED
    BY <1>10, <2>2, GoesType, StageFact DEF BeginScan, SetLock, Lock, Proc
<1>11. ASSUME NEW p \in Tick, ApplyBlock(p) PROVE ControlTypeOK'
  BY <1>11, GoesType, StageFact, FrameType, AfterType DEF ApplyBlock, Frame, Proc
<1>12. ASSUME NEW p \in Tick, StopScan(p) PROVE ControlTypeOK'
  BY <1>12, GoesType, StageFact DEF StopScan, Proc
<1>13. ASSUME NEW p \in Tick, FinishScan(p) PROVE ControlTypeOK'
  BY <1>13, GoesType, StageFact, FrameType, IdleType DEF FinishScan, Frame, Proc
<1>14. ASSUME NEW p \in Tick, ClearPending(p) PROVE ControlTypeOK'
  BY <1>14, GoesType, StageFact, FrameType, IdleType DEF ClearPending, Finish, Proc
<1>15. ASSUME NEW p \in Tick, FailRoot(p) PROVE ControlTypeOK'
  BY <1>15, GoesType, StageFact, FrameType, IdleType, ControlAssumption DEF FailRoot, Counted, Finish, Proc
<1>16. ASSUME NEW p \in Tick \union Sideload, SetFlag(p) PROVE ControlTypeOK'
  BY <1>16, GoesType, StageFact DEF SetFlag, Proc
<1>17. ASSUME NEW p \in Tick \union Sideload, LockReindex(p) PROVE ControlTypeOK'
  BY <1>17, GoesType, StageFact DEF LockReindex, SetLock, Lock, Proc
<1>18. ASSUME NEW p \in Tick \union Sideload, WipeIndex(p) PROVE ControlTypeOK'
  BY <1>18, GoesType, StageFact, ControlAssumption DEF WipeIndex, Nothing, Block, Proc
<1>19. ASSUME NEW p \in Tick \union Sideload, ReadUtxos(p) PROVE ControlTypeOK'
  <2>1. [frame[p] EXCEPT !.utxos = base, !.todo = Names(base)] \in Frame
    BY <1>19 DEF Frame, Names, Proc
  <2>2. frame' \in [Proc -> Frame]
    BY <1>19, <2>1, FrameType DEF ReadUtxos, Proc
  <2> QED
    BY <1>19, <2>2, GoesType, StageFact DEF ReadUtxos, Proc
<1>20. ASSUME NEW p \in Tick \union Sideload, WriteChunk(p) PROVE ControlTypeOK'
  BY <1>20, GoesType, StageFact, FrameType DEF WriteChunk, Frame, Proc
<1>21. ASSUME NEW p \in Tick \union Sideload, ReadNames(p) PROVE ControlTypeOK'
  <2>1. [Idle EXCEPT !.names = Names(index), !.retry = frame[p].retry] \in Frame
    BY <1>21, IdleType DEF Frame, Names, Proc
  <2>2. frame' \in [Proc -> Frame]
    BY <1>21, <2>1, FrameType DEF ReadNames, Proc
  <2> QED
    BY <1>21, <2>2, GoesType, StageFact DEF ReadNames, Proc
<1>22. ASSUME NEW p \in Tick \union Sideload, StoreRoot(p) PROVE ControlTypeOK'
  BY <1>22, GoesType, StageFact, FrameType, IdleType DEF StoreRoot, Frame, Proc
<1>23. ASSUME NEW p \in Tick \union Sideload, StampSchema(p) PROVE ControlTypeOK'
  BY <1>23, GoesType, StageFact DEF StampSchema, Proc
<1>24. ASSUME NEW p \in Tick \union Sideload, ClearFlag(p) PROVE ControlTypeOK'
  BY <1>24, GoesType, StageFact, FrameType, IdleType DEF ClearFlag, Finish, Proc
<1>25. ASSUME NEW p \in Tick \union Sideload, Unlock(p) PROVE ControlTypeOK'
  BY <1>25, GoesType, StageFact DEF Unlock, Unlocked, Lock, Proc
<1>26. ASSUME NEW p \in Tick \union Sideload, ReleaseLease(p) PROVE ControlTypeOK'
  BY <1>26, GoesType, StageFact DEF ReleaseLease, Proc
<1>27. ASSUME NEW p \in Tick \union Sideload, FailRebuild(p) PROVE ControlTypeOK'
  BY <1>27, GoesType, StageFact, FrameType, IdleType, ControlAssumption DEF FailRebuild, Counted, Finish, Proc
<1>28. ASSUME NEW p \in Sideload, DetectSideload(p) PROVE ControlTypeOK'
  <2>1. [Idle EXCEPT !.needed = ~current] \in Frame
    BY <1>28, IdleType DEF Frame, Proc
  <2>2. frame' \in [Proc -> Frame]
    BY <1>28, <2>1, FrameType DEF DetectSideload, Proc
  <2> QED
    BY <1>28, <2>2, GoesType, StageFact, ControlAssumption DEF DetectSideload, Counted, Proc
<1>29. ASSUME NEW p \in Sideload, RefuseSideload(p) PROVE ControlTypeOK'
  BY <1>29, GoesType, StageFact, FrameType, IdleType DEF RefuseSideload, Proc
<1>30. ASSUME NEW p \in Sideload, NEW mode, RunSideload(p, mode) PROVE ControlTypeOK'
  BY <1>30, GoesType, StageFact, FrameType, IdleType DEF RunSideload, Proc
<1>31. ASSUME NEW p \in Publisher, WaitForUnlocked(p) PROVE ControlTypeOK'
  BY <1>31, GoesType, StageFact, ControlAssumption DEF WaitForUnlocked, Counted, Proc
<1>32. ASSUME NEW p \in Publisher, LockSnapshot(p) PROVE ControlTypeOK'
  BY <1>32, GoesType, StageFact DEF LockSnapshot, SetLock, Lock, Proc
<1>33. ASSUME NEW p \in Publisher, UnlockSnapshot(p) PROVE ControlTypeOK'
  BY <1>33, GoesType, StageFact DEF UnlockSnapshot, Unlocked, Lock, Proc
<1>34. ASSUME NEW p \in Proc, Die(p) PROVE ControlTypeOK'
  BY <1>34, GoesType, StageFact, FrameType, IdleType, ControlAssumption DEF Die, Counted, Proc
<1>35. CASE TriggerReindex
  BY <1>35, ControlAssumption DEF TriggerReindex, Counted, history
<1>36. CASE ExpireLease
  BY <1>36, ControlAssumption DEF ExpireLease, history
<1>37. CASE LockAges
  BY <1>37, ControlAssumption DEF LockAges, history
<1>38. CASE LockAgesEarly
  BY <1>38, ControlAssumption DEF LockAgesEarly, Counted
<1> QED
  BY <1>1, <1>2, <1>3, <1>4, <1>5, <1>6, <1>7, <1>8, <1>9, <1>10, <1>11, <1>12, <1>13, <1>14, <1>15, <1>16, <1>17, <1>18, <1>19, <1>20, <1>21, <1>22, <1>23, <1>24, <1>25, <1>26, <1>27, <1>28, <1>29, <1>30, <1>31, <1>32, <1>33, <1>34, <1>35, <1>36, <1>37, <1>38
     DEF ControlNext, TickStep, ScanStep, Rebuild, SideloadStep, PublisherStep

(* Every state's variables have their types. *)
THEOREM ControlTypeCorrect == ControlSpec => []ControlTypeOK
<1>1. ControlInit => ControlTypeOK
  <2> SUFFICES ASSUME ControlInit PROVE ControlTypeOK
    OBVIOUS
  <2>1. Nothing \in [Handle -> Block] /\ 0 \in Block
    BY ControlAssumption DEF Nothing, Block
  <2>2. frame \in [Proc -> Frame] /\ pc \in [Proc -> Stage]
    BY IdleType, StageFact DEF ControlInit
  <2>3. events \in 0..MaxEvents /\ root \in SUBSET Handle
    BY ControlAssumption DEF ControlInit
  <2> QED
    BY <2>1, <2>2, <2>3 DEF ControlInit, ControlTypeOK, Lock
<1> QED
  BY <1>1, ControlTypeStep, PTL DEF ControlSpec, ControlSafety

-----------------------------------------------------------------------------
(***************************************************************************)
(* Exclusion.                                                              *)
(***************************************************************************)

(* A tick is at work either early, with the lease, or with its lock.       *)
LEMMA WorkFact == Work \subseteq Early \union Locked
BY DEF Work, Rebuilding, Scanning, Checking, Early, Locked

(* What is at work early and has no lock yet has found the lock free.      *)
LEMMA EarlyFact == (Work \intersect Early) \ Locked \subseteq Clear
BY DEF Work, Rebuilding, Scanning, Checking, Early, Locked, Clear

(* So where ticks run undisturbed a step overlaps with nobody.             *)
LEMMA NoOverlap ==
    ASSUME ControlTypeOK, Undisturbed', ~overlapped,
           NEW p \in Proc, NEW stage \in Stage, Goes(p, stage)
    PROVE  ~overlapped'
<1> SUFFICES ASSUME stage \in Work, NEW q \in Proc \ {p}, pc[q] \in Work PROVE FALSE
  BY DEF Goes
<1>1. pc'[p] \in Work /\ pc'[q] \in Work
  BY DEF Goes, ControlTypeOK
<1>2. p \in Tick /\ q \in Tick
  BY <1>1 DEF Undisturbed, OnlyTicks, Proc, Work, Rebuilding, Scanning
<1>3. CASE pc'[p] \in Early \ Locked /\ pc'[q] \in Early \ Locked
  BY <1>2, <1>3 DEF Undisturbed, EarlyHasLease
<1>4. CASE pc'[p] \in Locked /\ pc'[q] \in Locked
  BY <1>2, <1>4 DEF Undisturbed, LockedIsOwn
<1>5. CASE pc'[p] \in Locked /\ pc'[q] \in Early \ Locked
  BY <1>1, <1>2, <1>5, EarlyFact DEF Undisturbed, ClearIsUnlocked, LockedIsOwn
<1>6. CASE pc'[p] \in Early \ Locked /\ pc'[q] \in Locked
  BY <1>1, <1>2, <1>6, EarlyFact DEF Undisturbed, ClearIsUnlocked, LockedIsOwn
<1> QED
  BY <1>1, <1>3, <1>4, <1>5, <1>6, WorkFact

(* Ticks take the lease while nobody early has it, and the lock while it   *)
(* is free; what is left of them stays theirs.                             *)
LEMMA UndisturbedStep ==
    ASSUME ControlTypeOK, Undisturbed, ~interfered', ControlNext
    PROVE  Undisturbed' /\ (overlapped' => overlapped \/ \E p \in Proc, stage \in Stage : Goes(p, stage))
<1> DEFINE Kept == Undisturbed' /\ (overlapped' => overlapped \/ \E p \in Proc, stage \in Stage : Goes(p, stage))
<1> USE DEF Undisturbed, OnlyTicks, EarlyHasLease, ClearIsUnlocked, StaleIsOld, LockedIsOwn,
            Early, Clear, Locked, Checking, Scanning, guards, data, env, Goes
<1>1. ASSUME NEW p \in Tick, AcquireLease(p) PROVE Kept
  BY <1>1, StageFact, ControlAssumption DEF AcquireLease, Proc, ControlTypeOK
<1>2. ASSUME NEW p \in Tick, CheckDeferral(p) PROVE Kept
  BY <1>2, StageFact, ControlAssumption DEF CheckDeferral, Proc, ControlTypeOK
<1>3. ASSUME NEW p \in Tick, CheckLock(p) PROVE Kept
  BY <1>3, StageFact, ControlAssumption DEF CheckLock, Proc, ControlTypeOK
<1>4. ASSUME NEW p \in Tick, FlagStaleReindex(p) PROVE Kept
  BY <1>4, StageFact, ControlAssumption DEF FlagStaleReindex, Proc, ControlTypeOK
<1>5. ASSUME NEW p \in Tick, CheckFlag(p) PROVE Kept
  BY <1>5, StageFact, ControlAssumption DEF CheckFlag, Proc, ControlTypeOK
<1>6. ASSUME NEW p \in Tick, ClearRollbackFlag(p) PROVE Kept
  BY <1>6, StageFact, ControlAssumption DEF ClearRollbackFlag, Proc, ControlTypeOK
<1>7. ASSUME NEW p \in Tick, CheckSchema(p) PROVE Kept
  BY <1>7, StageFact, ControlAssumption DEF CheckSchema, Proc, ControlTypeOK
<1>8. ASSUME NEW p \in Tick, ClearStaleLock(p) PROVE Kept
  BY <1>8, StageFact, ControlAssumption DEF ClearStaleLock, Unlocked, Proc, ControlTypeOK
<1>9. ASSUME NEW p \in Tick, Shortcut(p) PROVE Kept
  BY <1>9, StageFact, ControlAssumption DEF Shortcut, Proc, ControlTypeOK
<1>10. ASSUME NEW p \in Tick, BeginScan(p) PROVE Kept
  BY <1>10, StageFact, ControlAssumption DEF BeginScan, SetLock, Proc, ControlTypeOK
<1>11. ASSUME NEW p \in Tick, ApplyBlock(p) PROVE Kept
  BY <1>11, StageFact, ControlAssumption DEF ApplyBlock, Proc, ControlTypeOK
<1>12. ASSUME NEW p \in Tick, StopScan(p) PROVE Kept
  BY <1>12, StageFact, ControlAssumption DEF StopScan, Proc, ControlTypeOK
<1>13. ASSUME NEW p \in Tick, FinishScan(p) PROVE Kept
  BY <1>13, StageFact, ControlAssumption DEF FinishScan, Proc, ControlTypeOK
<1>14. ASSUME NEW p \in Tick, ClearPending(p) PROVE Kept
  BY <1>14, StageFact, ControlAssumption DEF ClearPending, Finish, Proc, ControlTypeOK
<1>15. ASSUME NEW p \in Tick, FailRoot(p) PROVE Kept
  BY <1>15, StageFact, ControlAssumption DEF FailRoot, Finish, Proc, ControlTypeOK
<1>16. ASSUME NEW p \in Tick, SetFlag(p) PROVE Kept
  BY <1>16, StageFact, ControlAssumption DEF SetFlag, Proc, ControlTypeOK
<1>17. ASSUME NEW p \in Tick, LockReindex(p) PROVE Kept
  BY <1>17, StageFact, ControlAssumption DEF LockReindex, SetLock, Proc, ControlTypeOK
<1>18. ASSUME NEW p \in Tick, WipeIndex(p) PROVE Kept
  BY <1>18, StageFact, ControlAssumption DEF WipeIndex, Proc, ControlTypeOK
<1>19. ASSUME NEW p \in Tick, ReadUtxos(p) PROVE Kept
  BY <1>19, StageFact, ControlAssumption DEF ReadUtxos, Proc, ControlTypeOK
<1>20. ASSUME NEW p \in Tick, WriteChunk(p) PROVE Kept
  BY <1>20, StageFact, ControlAssumption DEF WriteChunk, Proc, ControlTypeOK
<1>21. ASSUME NEW p \in Tick, ReadNames(p) PROVE Kept
  BY <1>21, StageFact, ControlAssumption DEF ReadNames, Proc, ControlTypeOK
<1>22. ASSUME NEW p \in Tick, StoreRoot(p) PROVE Kept
  BY <1>22, StageFact, ControlAssumption DEF StoreRoot, Proc, ControlTypeOK
<1>23. ASSUME NEW p \in Tick, StampSchema(p) PROVE Kept
  BY <1>23, StageFact, ControlAssumption DEF StampSchema, Proc, ControlTypeOK
<1>24. ASSUME NEW p \in Tick, ClearFlag(p) PROVE Kept
  BY <1>24, StageFact, ControlAssumption DEF ClearFlag, Finish, Proc, ControlTypeOK
<1>25. ASSUME NEW p \in Tick, Unlock(p) PROVE Kept
  BY <1>25, StageFact, ControlAssumption DEF Unlock, Unlocked, Proc, ControlTypeOK
<1>26. ASSUME NEW p \in Tick, ReleaseLease(p) PROVE Kept
  BY <1>26, StageFact, ControlAssumption DEF ReleaseLease, Proc, ControlTypeOK
<1>27. ASSUME NEW p \in Tick, FailRebuild(p) PROVE Kept
  BY <1>27, StageFact, ControlAssumption DEF FailRebuild, Finish, Proc, ControlTypeOK
<1>28. ASSUME NEW p \in Sideload, Rebuild(p) \/ FailRebuild(p) PROVE FALSE
  BY <1>28 DEF Rebuild, SetFlag, LockReindex, WipeIndex, ReadUtxos, WriteChunk, ReadNames,
              StoreRoot, StampSchema, ClearFlag, Unlock, ReleaseLease, FailRebuild
<1>29. ASSUME NEW p \in Sideload, DetectSideload(p) PROVE Kept
  BY <1>29, StageFact, ControlAssumption DEF DetectSideload, Proc, ControlTypeOK
<1>30. ASSUME NEW p \in Sideload, RefuseSideload(p) PROVE Kept
  BY <1>30, StageFact, ControlAssumption DEF RefuseSideload, Proc, ControlTypeOK
<1>31. ASSUME NEW p \in Sideload, NEW mode, RunSideload(p, mode) PROVE FALSE
  BY <1>31 DEF RunSideload
<1>32. ASSUME NEW p \in Publisher, WaitForUnlocked(p) PROVE Kept
  BY <1>32, StageFact, ControlAssumption DEF WaitForUnlocked, Proc, ControlTypeOK
<1>33. ASSUME NEW p \in Publisher, LockSnapshot(p) PROVE Kept
  BY <1>33, StageFact, ControlAssumption DEF LockSnapshot, Proc, ControlTypeOK
<1>34. ASSUME NEW p \in Publisher, UnlockSnapshot(p) PROVE Kept
  BY <1>34, StageFact, ControlAssumption DEF UnlockSnapshot, Proc, ControlTypeOK
<1>35. ASSUME NEW p \in Proc, Die(p) PROVE Kept
  BY <1>35, StageFact, ControlAssumption DEF Die, Proc, ControlTypeOK
<1>36. CASE TriggerReindex
  BY <1>36, ControlAssumption DEF TriggerReindex, history, Proc, ControlTypeOK
<1>37. CASE ExpireLease
  BY <1>37, ControlAssumption DEF ExpireLease, history, Blocking, Proc, ControlTypeOK
<1>38. CASE LockAges
  BY <1>38, ControlAssumption DEF LockAges, history, Proc, ControlTypeOK
<1>39. CASE LockAgesEarly
  BY <1>39, ControlAssumption DEF LockAgesEarly, history, Proc, ControlTypeOK
<1> QED
  BY <1>1, <1>2, <1>3, <1>4, <1>5, <1>6, <1>7, <1>8, <1>9, <1>10, <1>11, <1>12, <1>13, <1>14, <1>15, <1>16, <1>17, <1>18, <1>19, <1>20, <1>21, <1>22, <1>23, <1>24, <1>25, <1>26, <1>27, <1>28, <1>29, <1>30, <1>31, <1>32, <1>33, <1>34, <1>35, <1>36, <1>37, <1>38, <1>39
     DEF ControlNext, TickStep, ScanStep, Rebuild, SideloadStep, PublisherStep

(* What ever disturbed the ticks is remembered.                            *)
LEMMA InterferedStays == ControlNext /\ interfered => interfered'
BY DEF ControlNext, TickStep, ScanStep, Rebuild, SideloadStep, PublisherStep,
       AcquireLease, CheckDeferral, CheckLock, FlagStaleReindex, ClearStaleLock, CheckFlag,
       ClearRollbackFlag, CheckSchema, Shortcut, BeginScan, ApplyBlock, StopScan, FinishScan,
       ClearPending, FailRoot, SetFlag, LockReindex, WipeIndex, ReadUtxos, WriteChunk, ReadNames,
       StoreRoot, StampSchema, ClearFlag, Unlock, ReleaseLease, FailRebuild, DetectSideload,
       RefuseSideload, RunSideload, WaitForUnlocked, LockSnapshot, UnlockSnapshot, Die,
       TriggerReindex, ExpireLease, LockAges, LockAgesEarly, history

LEMMA ExclusionStep ==
    ControlTypeOK /\ Exclusion /\ [ControlNext]_vars => Exclusion'
<1> SUFFICES ASSUME ControlTypeOK, Exclusion, [ControlNext]_vars, ~interfered'
             PROVE  Undisturbed' /\ ~overlapped'
  BY DEF Exclusion
<1>1. CASE UNCHANGED vars
  BY <1>1 DEF vars, guards, data, env, history, Exclusion, Undisturbed, OnlyTicks,
              EarlyHasLease, ClearIsUnlocked, StaleIsOld, LockedIsOwn
<1>2. CASE ControlNext
  <2>1. Undisturbed /\ ~overlapped
    BY <1>2, InterferedStays DEF Exclusion
  <2>2. Undisturbed' /\ (overlapped' => overlapped \/ \E p \in Proc, stage \in Stage : Goes(p, stage))
    BY <1>2, <2>1, UndisturbedStep
  <2> QED
    BY <2>1, <2>2, NoOverlap
<1> QED
  BY <1>1, <1>2

(* The lease and the lock together keep undisturbed ticks apart, for any   *)
(* number of them.                                                         *)
THEOREM TicksExcludeCorrect == ControlSpec => []TicksExcludeEachOther
<1>1. ControlInit => Exclusion
  BY DEF ControlInit, Exclusion, Undisturbed, OnlyTicks, EarlyHasLease, ClearIsUnlocked,
         StaleIsOld, LockedIsOwn, Early, Clear, Locked, Checking, Scanning, Proc
<1>2. Exclusion => TicksExcludeEachOther
  BY DEF Exclusion, TicksExcludeEachOther
<1> QED
  BY <1>1, <1>2, ExclusionStep, ControlTypeCorrect, PTL DEF ControlSpec, ControlSafety

-----------------------------------------------------------------------------
(***************************************************************************)
(* Wholeness.                                                              *)
(***************************************************************************)

(* A step that overlaps with nobody leaves one at work at most.            *)
LEMMA OneAtWorkStep ==
    ASSUME ControlTypeOK, OneAtWork, ~overlapped',
           NEW p \in Proc, NEW stage \in Stage, Goes(p, stage)
    PROVE  OneAtWork' /\ ~overlapped
BY DEF Goes, OneAtWork, ControlTypeOK

(* An overlap is remembered.                                               *)
LEMMA OverlapStays == ControlNext /\ overlapped => overlapped'
<1> SUFFICES ASSUME ControlNext, overlapped PROVE overlapped'
  OBVIOUS
<1>1. ASSUME NEW p \in Tick, TickStep(p) \/ Shortcut(p) \/ FailRoot(p) PROVE overlapped'
  <2>1. CASE Rebuild(p)
    BY <2>1 DEF Rebuild, Goes, Finish, SetFlag, LockReindex, WipeIndex, ReadUtxos, WriteChunk,
                ReadNames, StoreRoot, StampSchema, ClearFlag, Unlock, ReleaseLease
  <2>2. CASE ScanStep(p)
    BY <2>2 DEF ScanStep, Goes, Finish, BeginScan, ApplyBlock, StopScan, FinishScan, ClearPending
  <2>3. CASE Shortcut(p) \/ FailRoot(p)
    BY <2>3 DEF Shortcut, FailRoot, Goes, Finish
  <2>4. CASE \/ AcquireLease(p) \/ CheckDeferral(p) \/ CheckLock(p) \/ FlagStaleReindex(p)
             \/ ClearStaleLock(p) \/ CheckFlag(p) \/ ClearRollbackFlag(p) \/ CheckSchema(p)
    BY <2>4 DEF Goes, AcquireLease, CheckDeferral, CheckLock, FlagStaleReindex, ClearStaleLock,
                CheckFlag, ClearRollbackFlag, CheckSchema
  <2> QED
    BY <1>1, <2>1, <2>2, <2>3, <2>4 DEF TickStep
<1>2. ASSUME NEW p \in Sideload, DetectSideload(p) \/ SideloadStep(p) PROVE overlapped'
  <2>1. CASE Rebuild(p)
    BY <2>1 DEF Rebuild, Goes, Finish, SetFlag, LockReindex, WipeIndex, ReadUtxos, WriteChunk,
                ReadNames, StoreRoot, StampSchema, ClearFlag, Unlock, ReleaseLease
  <2> QED
    BY <1>2, <2>1 DEF SideloadStep, DetectSideload, RefuseSideload, RunSideload, Goes
<1>3. ASSUME NEW p \in Publisher, WaitForUnlocked(p) \/ PublisherStep(p) PROVE overlapped'
  BY <1>3 DEF PublisherStep, WaitForUnlocked, LockSnapshot, UnlockSnapshot, Goes
<1>4. ASSUME NEW p, FailRebuild(p) \/ Die(p) PROVE overlapped'
  BY <1>4 DEF FailRebuild, Die, Finish, Goes
<1>5. CASE TriggerReindex \/ ExpireLease \/ LockAges \/ LockAgesEarly
  BY <1>5 DEF TriggerReindex, ExpireLease, LockAges, LockAgesEarly, history
<1> QED
  BY <1>1, <1>2, <1>3, <1>4, <1>5 DEF ControlNext

(* Whoever writes the index or deletes the flag is at work alone; it goes  *)
(* on to the next stage with what that stage needs.                        *)
LEMMA SoFarStep ==
    ASSUME ControlTypeOK, OneAtWork, SoFar, ~overlapped', ControlNext
    PROVE  OneAtWork' /\ SoFar'
<1> DEFINE Kept == OneAtWork' /\ SoFar'
<1> USE DEF SoFar, RebuildIsFlagged, RebuildSoFar, WholeOrFlagged, Built, guards, data, env
<1>1. ASSUME NEW p \in Tick, AcquireLease(p) PROVE Kept
  <2>1. OneAtWork'
    BY <1>1, OneAtWorkStep, StageFact DEF AcquireLease, Proc
  <2> QED
    BY <1>1, <2>1 DEF AcquireLease, Goes, OneAtWork, Work, Rebuilding, Scanning, Proc, ControlTypeOK
<1>2. ASSUME NEW p \in Tick, CheckDeferral(p) PROVE Kept
  <2>1. OneAtWork'
    BY <1>2, OneAtWorkStep, StageFact DEF CheckDeferral, Proc
  <2> QED
    BY <1>2, <2>1 DEF CheckDeferral, Goes, OneAtWork, Work, Rebuilding, Scanning, Proc, ControlTypeOK
<1>3. ASSUME NEW p \in Tick, CheckLock(p) PROVE Kept
  <2>1. OneAtWork'
    BY <1>3, OneAtWorkStep, StageFact DEF CheckLock, Proc
  <2> QED
    BY <1>3, <2>1 DEF CheckLock, Goes, OneAtWork, Work, Rebuilding, Scanning, Proc, ControlTypeOK
<1>4. ASSUME NEW p \in Tick, FlagStaleReindex(p) PROVE Kept
  <2>1. OneAtWork'
    BY <1>4, OneAtWorkStep, StageFact DEF FlagStaleReindex, Proc
  <2> QED
    BY <1>4, <2>1 DEF FlagStaleReindex, Goes, OneAtWork, Work, Rebuilding, Scanning, Proc, ControlTypeOK
<1>5. ASSUME NEW p \in Tick, CheckFlag(p) PROVE Kept
  <2>1. OneAtWork'
    BY <1>5, OneAtWorkStep, StageFact DEF CheckFlag, ControlTypeOK, Proc
  <2> QED
    BY <1>5, <2>1 DEF CheckFlag, Goes, OneAtWork, Work, Rebuilding, Scanning, Proc, ControlTypeOK
<1>6. ASSUME NEW p \in Tick, ClearRollbackFlag(p) PROVE Kept
  <2>1. OneAtWork'
    BY <1>6, OneAtWorkStep, StageFact DEF ClearRollbackFlag, Proc
  <2> QED
    BY <1>6, <2>1 DEF ClearRollbackFlag, Goes, OneAtWork, Work, Rebuilding, Scanning, Proc, ControlTypeOK
<1>7. ASSUME NEW p \in Tick, CheckSchema(p) PROVE Kept
  <2>1. OneAtWork'
    BY <1>7, OneAtWorkStep, StageFact DEF CheckSchema, Proc
  <2> QED
    BY <1>7, <2>1 DEF CheckSchema, Goes, OneAtWork, Work, Rebuilding, Scanning, Proc, ControlTypeOK
<1>8. ASSUME NEW p \in Tick, ClearStaleLock(p) PROVE Kept
  <2>1. OneAtWork'
    BY <1>8, OneAtWorkStep, StageFact DEF ClearStaleLock, Proc
  <2> QED
    BY <1>8, <2>1 DEF ClearStaleLock, Unlocked, Goes, OneAtWork, Work, Rebuilding, Scanning, Proc, ControlTypeOK
<1>9. ASSUME NEW p \in Tick, Shortcut(p) PROVE Kept
  <2>1. OneAtWork'
    BY <1>9, OneAtWorkStep, StageFact DEF Shortcut, Proc
  <2> QED
    BY <1>9, <2>1 DEF Shortcut, Goes, OneAtWork, Work, Rebuilding, Scanning, Proc, ControlTypeOK
<1>10. ASSUME NEW p \in Tick, BeginScan(p) PROVE Kept
  <2>1. OneAtWork'
    BY <1>10, OneAtWorkStep, StageFact DEF BeginScan, Proc
  <2> QED
    BY <1>10, <2>1 DEF BeginScan, SetLock, SetFrame, Goes, OneAtWork, Work, Rebuilding, Scanning, Proc, ControlTypeOK
<1>11. ASSUME NEW p \in Tick, ApplyBlock(p) PROVE Kept
  <2>1. OneAtWork'
    BY <1>11, OneAtWorkStep, StageFact DEF ApplyBlock, Proc
  <2> QED
    BY <1>11, <2>1 DEF ApplyBlock, SetFrame, Goes, OneAtWork, Work, Rebuilding, Scanning, Proc, ControlTypeOK
<1>12. ASSUME NEW p \in Tick, StopScan(p) PROVE Kept
  <2>1. OneAtWork'
    BY <1>12, OneAtWorkStep, StageFact DEF StopScan, Proc
  <2> QED
    BY <1>12, <2>1 DEF StopScan, Goes, OneAtWork, Work, Rebuilding, Scanning, Proc, ControlTypeOK
<1>13. ASSUME NEW p \in Tick, FinishScan(p) PROVE Kept
  <2>1. OneAtWork'
    BY <1>13, OneAtWorkStep, StageFact DEF FinishScan, Proc
  <2> QED
    BY <1>13, <2>1 DEF FinishScan, SetFrame, Goes, OneAtWork, Work, Rebuilding, Scanning, Proc, ControlTypeOK
<1>14. ASSUME NEW p \in Tick, ClearPending(p) PROVE Kept
  <2>1. OneAtWork'
    BY <1>14, OneAtWorkStep, StageFact DEF ClearPending, Finish, Proc
  <2> QED
    BY <1>14, <2>1 DEF ClearPending, Finish, SetFrame, Goes, OneAtWork, Work, Rebuilding, Scanning, Proc, ControlTypeOK
<1>15. ASSUME NEW p \in Tick, FailRoot(p) PROVE Kept
  <2>1. OneAtWork'
    BY <1>15, OneAtWorkStep, StageFact DEF FailRoot, Finish, Proc
  <2> QED
    BY <1>15, <2>1 DEF FailRoot, Finish, SetFrame, Goes, OneAtWork, Work, Rebuilding, Scanning, Proc, ControlTypeOK
<1>16. ASSUME NEW p \in Tick \union Sideload, SetFlag(p) PROVE Kept
  <2>1. OneAtWork'
    BY <1>16, OneAtWorkStep, StageFact DEF SetFlag, Proc
  <2> QED
    BY <1>16, <2>1 DEF SetFlag, Goes, OneAtWork, Work, Rebuilding, Scanning, Proc, ControlTypeOK
<1>17. ASSUME NEW p \in Tick \union Sideload, LockReindex(p) PROVE Kept
  <2>1. OneAtWork'
    BY <1>17, OneAtWorkStep, StageFact DEF LockReindex, Proc
  <2> QED
    BY <1>17, <2>1 DEF LockReindex, SetLock, Goes, OneAtWork, Work, Rebuilding, Scanning, Proc, ControlTypeOK
<1>18. ASSUME NEW p \in Tick \union Sideload, WipeIndex(p) PROVE Kept
  <2>1. OneAtWork'
    BY <1>18, OneAtWorkStep, StageFact DEF WipeIndex, Proc
  <2> QED
    BY <1>18, <2>1 DEF WipeIndex, Goes, OneAtWork, Work, Rebuilding, Scanning, Proc, ControlTypeOK
<1>19. ASSUME NEW p \in Tick \union Sideload, ReadUtxos(p) PROVE Kept
  <2>1. OneAtWork'
    BY <1>19, OneAtWorkStep, StageFact DEF ReadUtxos, Proc
  <2> QED
    BY <1>19, <2>1 DEF ReadUtxos, SetFrame, Names, Nothing, Goes, OneAtWork, Work, Rebuilding, Scanning, Proc, ControlTypeOK
<1>20. ASSUME NEW p \in Tick \union Sideload, WriteChunk(p) PROVE Kept
  <2>1. OneAtWork'
    BY <1>20, OneAtWorkStep, StageFact DEF WriteChunk, Proc
  <2> QED
    BY <1>20, <2>1 DEF WriteChunk, SetFrame, Goes, OneAtWork, Work, Rebuilding, Scanning, Proc, ControlTypeOK
<1>21. ASSUME NEW p \in Tick \union Sideload, ReadNames(p) PROVE Kept
  <2>1. OneAtWork'
    BY <1>21, OneAtWorkStep, StageFact DEF ReadNames, Proc
  <2> QED
    BY <1>21, <2>1 DEF ReadNames, SetFrame, Goes, OneAtWork, Work, Rebuilding, Scanning, Proc, ControlTypeOK
<1>22. ASSUME NEW p \in Tick \union Sideload, StoreRoot(p) PROVE Kept
  <2>1. OneAtWork'
    BY <1>22, OneAtWorkStep, StageFact DEF StoreRoot, Proc
  <2> QED
    BY <1>22, <2>1 DEF StoreRoot, SetFrame, Goes, OneAtWork, Work, Rebuilding, Scanning, Proc, ControlTypeOK
<1>23. ASSUME NEW p \in Tick \union Sideload, StampSchema(p) PROVE Kept
  <2>1. OneAtWork'
    BY <1>23, OneAtWorkStep, StageFact DEF StampSchema, Proc
  <2> QED
    BY <1>23, <2>1 DEF StampSchema, Goes, OneAtWork, Work, Rebuilding, Scanning, Proc, ControlTypeOK
<1>24. ASSUME NEW p \in Tick \union Sideload, ClearFlag(p) PROVE Kept
  <2>1. OneAtWork'
    BY <1>24, OneAtWorkStep, StageFact DEF ClearFlag, Finish, Proc
  <2> QED
    BY <1>24, <2>1 DEF ClearFlag, Finish, SetFrame, Goes, OneAtWork, Work, Rebuilding, Scanning, Proc, ControlTypeOK
<1>25. ASSUME NEW p \in Tick \union Sideload, Unlock(p) PROVE Kept
  <2>1. OneAtWork'
    BY <1>25, OneAtWorkStep, StageFact DEF Unlock, Proc
  <2> QED
    BY <1>25, <2>1 DEF Unlock, Unlocked, Goes, OneAtWork, Work, Rebuilding, Scanning, Proc, ControlTypeOK
<1>26. ASSUME NEW p \in Tick \union Sideload, ReleaseLease(p) PROVE Kept
  <2>1. OneAtWork'
    BY <1>26, OneAtWorkStep, StageFact DEF ReleaseLease, Proc
  <2> QED
    BY <1>26, <2>1 DEF ReleaseLease, Goes, OneAtWork, Work, Rebuilding, Scanning, Proc, ControlTypeOK
<1>27. ASSUME NEW p \in Tick \union Sideload, FailRebuild(p) PROVE Kept
  <2>1. OneAtWork'
    BY <1>27, OneAtWorkStep, StageFact DEF FailRebuild, Finish, Proc
  <2> QED
    BY <1>27, <2>1 DEF FailRebuild, Finish, SetFrame, Goes, OneAtWork, Work, Rebuilding, Scanning, Proc, ControlTypeOK
<1>28. ASSUME NEW p \in Sideload, DetectSideload(p) PROVE Kept
  <2>1. OneAtWork'
    BY <1>28, OneAtWorkStep, StageFact DEF DetectSideload, Proc
  <2> QED
    BY <1>28, <2>1 DEF DetectSideload, SetFrame, Goes, OneAtWork, Work, Rebuilding, Scanning, Proc, ControlTypeOK
<1>29. ASSUME NEW p \in Sideload, RefuseSideload(p) PROVE Kept
  <2>1. OneAtWork'
    BY <1>29, OneAtWorkStep, StageFact DEF RefuseSideload, Proc
  <2> QED
    BY <1>29, <2>1 DEF RefuseSideload, SetFrame, Goes, OneAtWork, Work, Rebuilding, Scanning, Proc, ControlTypeOK
<1>30. ASSUME NEW p \in Sideload, NEW mode, RunSideload(p, mode) PROVE Kept
  <2>1. OneAtWork'
    BY <1>30, OneAtWorkStep, StageFact DEF RunSideload, Proc
  <2> QED
    BY <1>30, <2>1 DEF RunSideload, SetFrame, Goes, OneAtWork, Work, Rebuilding, Scanning, Proc, ControlTypeOK
<1>31. ASSUME NEW p \in Publisher, WaitForUnlocked(p) PROVE Kept
  <2>1. OneAtWork'
    BY <1>31, OneAtWorkStep, StageFact DEF WaitForUnlocked, Proc
  <2> QED
    BY <1>31, <2>1 DEF WaitForUnlocked, Goes, OneAtWork, Work, Rebuilding, Scanning, Proc, ControlTypeOK
<1>32. ASSUME NEW p \in Publisher, LockSnapshot(p) PROVE Kept
  <2>1. OneAtWork'
    BY <1>32, OneAtWorkStep, StageFact DEF LockSnapshot, Proc
  <2> QED
    BY <1>32, <2>1 DEF LockSnapshot, SetLock, Goes, OneAtWork, Work, Rebuilding, Scanning, Proc, ControlTypeOK
<1>33. ASSUME NEW p \in Publisher, UnlockSnapshot(p) PROVE Kept
  <2>1. OneAtWork'
    BY <1>33, OneAtWorkStep, StageFact DEF UnlockSnapshot, Proc
  <2> QED
    BY <1>33, <2>1 DEF UnlockSnapshot, Unlocked, Goes, OneAtWork, Work, Rebuilding, Scanning, Proc, ControlTypeOK
<1>34. ASSUME NEW p \in Proc, Die(p) PROVE Kept
  <2>1. OneAtWork'
    BY <1>34, OneAtWorkStep, StageFact DEF Die, Proc
  <2> QED
    BY <1>34, <2>1 DEF Die, SetFrame, Goes, OneAtWork, Work, Rebuilding, Scanning, Proc, ControlTypeOK
<1>35. CASE TriggerReindex
  BY <1>35 DEF TriggerReindex, history, OneAtWork
<1>36. CASE ExpireLease
  BY <1>36 DEF ExpireLease, history, OneAtWork
<1>37. CASE LockAges
  BY <1>37 DEF LockAges, history, OneAtWork
<1>38. CASE LockAgesEarly
  BY <1>38 DEF LockAgesEarly, OneAtWork
<1> QED
  BY <1>1, <1>2, <1>3, <1>4, <1>5, <1>6, <1>7, <1>8, <1>9, <1>10, <1>11, <1>12, <1>13, <1>14, <1>15, <1>16, <1>17, <1>18, <1>19, <1>20, <1>21, <1>22, <1>23, <1>24, <1>25, <1>26, <1>27, <1>28, <1>29, <1>30, <1>31, <1>32, <1>33, <1>34, <1>35, <1>36, <1>37, <1>38
     DEF ControlNext, TickStep, ScanStep, Rebuild, SideloadStep, PublisherStep

LEMMA WholenessStep ==
    ControlTypeOK /\ Wholeness /\ [ControlNext]_vars => Wholeness'
<1> SUFFICES ASSUME ControlTypeOK, Wholeness, [ControlNext]_vars, ~overlapped'
             PROVE  OneAtWork' /\ SoFar'
  BY DEF Wholeness
<1>1. CASE UNCHANGED vars
  BY <1>1 DEF vars, guards, data, env, history, Wholeness, OneAtWork, SoFar,
              RebuildIsFlagged, RebuildSoFar, WholeOrFlagged
<1>2. CASE ControlNext
  BY <1>2, OverlapStays, SoFarStep DEF Wholeness
<1> QED
  BY <1>1, <1>2

THEOREM WholenessCorrect == ControlSpec => []Wholeness
<1>1. ControlInit => Wholeness
  BY DEF ControlInit, Wholeness, OneAtWork, SoFar, RebuildIsFlagged, RebuildSoFar,
         WholeOrFlagged, Built, Work, Rebuilding, Scanning
<1> QED
  BY <1>1, WholenessStep, ControlTypeCorrect, PTL DEF ControlSpec, ControlSafety

(* Wherever processes died or failed, a derived index that does not stand  *)
(* for the outputs is flagged, unless two processes worked at once.        *)
THEOREM PartialFlaggedCorrect == ControlSpec => []PartialIndexIsFlagged
<1>1. Wholeness => PartialIndexIsFlagged
  BY DEF Wholeness, SoFar, WholeOrFlagged, PartialIndexIsFlagged
<1> QED
  BY <1>1, WholenessCorrect, PTL

(* A scan never works on a partial index or one of an older schema, unless *)
(* two processes worked at once.                                           *)
THEOREM ScansWholeCorrect == ControlSpec => []ScansWholeIndex
<1>1. Wholeness => ScansWholeIndex
  BY DEF Wholeness, SoFar, RebuildSoFar, ScansWholeIndex
<1> QED
  BY <1>1, WholenessCorrect, PTL

-----------------------------------------------------------------------------
(***************************************************************************)
(* The label root.  A scan that has moved the cursor may leave a stale     *)
(* root behind it until it has stored the next one; everybody else finds   *)
(* the root of the index, or a mark that it is to be rebuilt.  A rollback  *)
(* flag is no such mark, which is why its deletion needs the root named.   *)
(***************************************************************************)
RootOK == root # Names(index) => pending \/ recovery = "reindex"
Stale == {"apply", "finish", "rename", "reroot"}
Rooted == {"root", "stamp", "unflag", "unpend", "legacy"} \union Stale

FreshUnlessStale == (\A p \in Proc : pc[p] \notin Stale) => RootOK
RootSoFar ==
    \A p \in Proc :
        /\ pc[p] \in {"apply", "finish"} => /\ frame[p].last = cursor /\ frame[p].start <= cursor
                                            /\ cursor = frame[p].start => RootOK
        /\ pc[p] \in {"root", "reroot"} => frame[p].names = Names(index)
        /\ pc[p] \in {"stamp", "unflag", "unpend"} => root = Names(index)
        /\ pc[p] = "legacy" => root = Names(index) \/ pending

RootSound == ~overlapped /\ ~died => FreshUnlessStale /\ RootSoFar

(* A step outside the scan and the root's own stages.                      *)
LEMMA RootElsewhere ==
    ASSUME ControlTypeOK, FreshUnlessStale, RootSoFar, NEW p \in Proc, NEW stage, Goes(p, stage),
           UNCHANGED <<root, index, pending, cursor>>, recovery' \in {recovery, "reindex"},
           \A q \in Proc \ {p} : frame'[q] = frame[q],
           pc[p] \notin Stale, stage \notin Rooted
    PROVE  FreshUnlessStale' /\ RootSoFar'
<1>1. RootOK => RootOK' BY DEF RootOK, Names
<1>2. pc'[p] = stage /\ \A q \in Proc \ {p} : pc'[q] = pc[q] BY DEF Goes, ControlTypeOK
<1>3. FreshUnlessStale' BY <1>1, <1>2 DEF FreshUnlessStale, Rooted
<1>4. RootSoFar'
  <2> SUFFICES ASSUME NEW q \in Proc
               PROVE  /\ pc'[q] \in {"apply", "finish"} =>
                           /\ frame'[q].last = cursor' /\ frame'[q].start <= cursor'
                           /\ cursor' = frame'[q].start => RootOK'
                      /\ pc'[q] \in {"root", "reroot"} => frame'[q].names = Names(index')
                      /\ pc'[q] \in {"stamp", "unflag", "unpend"} => root' = Names(index')
                      /\ pc'[q] = "legacy" => root' = Names(index') \/ pending'
    BY DEF RootSoFar, Names
  <2>1. CASE q = p BY <1>2, <2>1 DEF Rooted, Stale
  <2>2. CASE q # p BY <1>1, <1>2, <2>2 DEF RootSoFar
  <2> QED BY <2>1, <2>2
<1> QED BY <1>3, <1>4

(* A step of the only one at work.                                         *)
LEMMA RootAlone ==
    ASSUME ControlTypeOK, OneAtWork, NEW p \in Proc, NEW stage, Goes(p, stage), pc[p] \in Work,
           stage \notin Stale => RootOK',
           /\ stage \in {"apply", "finish"} => /\ frame'[p].last = cursor' /\ frame'[p].start <= cursor'
                                               /\ cursor' = frame'[p].start => RootOK'
           /\ stage \in {"root", "reroot"} => frame'[p].names = Names(index')
           /\ stage \in {"stamp", "unflag", "unpend"} => root' = Names(index')
           /\ stage = "legacy" => root' = Names(index') \/ pending'
    PROVE  FreshUnlessStale' /\ RootSoFar'
<1>1. pc'[p] = stage /\ \A q \in Proc \ {p} : pc'[q] = pc[q] BY DEF Goes, ControlTypeOK
<1>2. \A q \in Proc \ {p} : pc[q] \notin Work BY DEF OneAtWork
<1>3. FreshUnlessStale' BY <1>1 DEF FreshUnlessStale
<1>4. ASSUME NEW q \in Proc \ {p} PROVE pc'[q] \notin Rooted
  BY <1>1, <1>2 DEF Rooted, Stale, Work, Rebuilding, Scanning
<1>5. RootSoFar'
  <2> SUFFICES ASSUME NEW q \in Proc
               PROVE  /\ pc'[q] \in {"apply", "finish"} =>
                           /\ frame'[q].last = cursor' /\ frame'[q].start <= cursor'
                           /\ cursor' = frame'[q].start => RootOK'
                      /\ pc'[q] \in {"root", "reroot"} => frame'[q].names = Names(index')
                      /\ pc'[q] \in {"stamp", "unflag", "unpend"} => root' = Names(index')
                      /\ pc'[q] = "legacy" => root' = Names(index') \/ pending'
    BY DEF RootSoFar, Names
  <2>1. CASE q = p BY <1>1, <2>1
  <2>2. CASE q # p BY <1>4, <2>2 DEF Rooted, Stale
  <2> QED BY <2>1, <2>2
<1> QED BY <1>3, <1>5

(* While a rebuild is on, the flag stands for the root too.                *)
LEMMA FlagSuffices == ASSUME recovery' = "reindex" PROVE RootOK'
  BY DEF RootOK

(* Whoever writes the index, the root or their marks is at work alone.     *)
LEMMA RootStep ==
    ASSUME ControlTypeOK, OneAtWork, SoFar, FreshUnlessStale, RootSoFar,
           ~overlapped', ~died', ControlNext
    PROVE  FreshUnlessStale' /\ RootSoFar'
<1> DEFINE Kept == FreshUnlessStale' /\ RootSoFar'
<1> USE DEF guards, data, env, Rooted, Stale
<1>0. /\ pc \in [Proc -> Stage] /\ frame \in [Proc -> Frame] /\ cursor \in Nat
      /\ \A p \in Proc : frame[p] \in Frame
  BY DEF ControlTypeOK, Block
(* What the only one at work finds when no scan is on.                     *)
<1>19. ASSUME NEW p \in Proc, pc[p] \in Work \ Stale PROVE RootOK
  <2>1. \A q \in Proc : pc[q] \in Stale => pc[q] \in Work BY DEF Work, Scanning
  <2> QED BY <1>19, <2>1 DEF OneAtWork, FreshUnlessStale
<1>1. ASSUME NEW p \in Tick,
             \/ AcquireLease(p) \/ CheckDeferral(p) \/ CheckLock(p) \/ FlagStaleReindex(p)
             \/ ClearStaleLock(p) \/ CheckSchema(p) \/ Shortcut(p)
      PROVE  Kept
  <2>1. PICK stage \in {"deferral", "lock", "release", "flag", "flagging", "unlocking", "scan", "reindex"} :
            Goes(p, stage) /\ pc[p] \in {"down"} \union Checking
    BY <1>1 DEF AcquireLease, CheckDeferral, CheckLock, FlagStaleReindex, ClearStaleLock,
                CheckSchema, Shortcut, Checking
  <2>2. UNCHANGED <<root, index, pending, cursor, frame>> /\ recovery' \in {recovery, "reindex"}
    BY <1>1 DEF AcquireLease, CheckDeferral, CheckLock, FlagStaleReindex, ClearStaleLock,
                CheckSchema, Shortcut
  <2> QED BY <2>1, <2>2, RootElsewhere DEF Proc, Checking
<1>2. ASSUME NEW p \in Tick, CheckFlag(p) PROVE Kept
  <2>1. UNCHANGED <<root, index, pending, cursor, frame, recovery>> /\ pc[p] = "flag"
    BY <1>2 DEF CheckFlag
  <2>2. CASE recovery = "rollback"
    <3>1. Goes(p, "legacy") BY <1>2, <2>2 DEF CheckFlag
    <3>2. \A q \in Proc : pc'[q] = IF q = p THEN "legacy" ELSE pc[q] BY <1>0, <3>1 DEF Goes
    <3>3. \A q \in Proc \ {p} : pc[q] \notin Work BY <3>1 DEF Goes, Work
    <3>4. RootOK BY <2>1, <3>3 DEF FreshUnlessStale, Work, Scanning
    <3>5. FreshUnlessStale' BY <2>1, <3>4 DEF FreshUnlessStale, RootOK, Names
    <3>6. RootSoFar'
      BY <2>1, <2>2, <3>2, <3>4 DEF RootSoFar, RootOK, Names
    <3> QED BY <3>5, <3>6
  <2>3. CASE recovery # "rollback"
    <3>1. PICK stage \in {"schema", "reindex"} : Goes(p, stage)
      BY <1>2, <2>3 DEF CheckFlag, ControlTypeOK
    <3> QED BY <2>1, <3>1, RootElsewhere DEF Proc
  <2> QED BY <2>2, <2>3
<1>3. ASSUME NEW p \in Tick, ClearRollbackFlag(p) PROVE Kept
  <2>1. UNCHANGED <<root, index, pending, cursor, frame>> /\ pc[p] = "legacy" /\ Goes(p, "schema")
    BY <1>3 DEF ClearRollbackFlag
  <2>2. RootOK' BY <2>1 DEF RootSoFar, RootOK, Names, Proc
  <2> QED BY <2>1, <2>2, RootAlone DEF Proc, Work
<1>4. ASSUME NEW p \in Tick, BeginScan(p) PROVE Kept
  <2>1. UNCHANGED <<root, index, pending, cursor, recovery>> /\ pc[p] = "scan" /\ Goes(p, "apply")
    BY <1>4 DEF BeginScan
  <2>2. frame'[p].start = cursor /\ frame'[p].last = cursor
    BY <1>0, <1>4 DEF BeginScan, SetFrame, Proc, Frame
  <2>3. pc[p] \in Work /\ RootOK BY <1>19, <2>1 DEF Work, Scanning, Proc
  <2>4. RootOK' BY <2>1, <2>3 DEF RootOK, Names
  <2> QED BY <1>0, <2>1, <2>2, <2>3, <2>4, RootAlone DEF Proc
<1>5. ASSUME NEW p \in Tick, ApplyBlock(p) PROVE Kept
  <2>1. pc[p] = "apply" /\ Goes(p, "apply") /\ cursor' = frame[p].last + 1
        /\ frame'[p].last = frame[p].last + 1 /\ frame'[p].start = frame[p].start
    BY <1>0, <1>5 DEF ApplyBlock, SetFrame, Proc, Frame
  <2>2. frame[p].last = cursor /\ frame[p].start <= cursor /\ frame[p].start \in Nat
    BY <1>0, <2>1 DEF RootSoFar, Proc, Frame, Block
  <2>3. frame'[p].last = cursor' /\ frame'[p].start <= cursor' /\ cursor' # frame'[p].start
    BY <1>0, <2>1, <2>2
  <2> QED BY <2>1, <2>3, RootAlone DEF Proc, Work, Scanning
<1>6. ASSUME NEW p \in Tick, StopScan(p) PROVE Kept
  <2>1. pc[p] = "apply" /\ Goes(p, "finish") /\ UNCHANGED <<root, index, pending, cursor, frame, recovery>>
    BY <1>6 DEF StopScan
  <2>2. RootOK => RootOK' BY <2>1 DEF RootOK, Names
  <2>3. /\ frame'[p].last = cursor' /\ frame'[p].start <= cursor'
        /\ cursor' = frame'[p].start => RootOK'
    BY <2>1, <2>2 DEF RootSoFar, Proc
  <2> QED BY <2>1, <2>3, RootAlone DEF Proc, Work, Scanning
<1>7. ASSUME NEW p \in Tick, FinishScan(p) PROVE Kept
  <2>1. pc[p] = "finish" /\ UNCHANGED <<root, index, pending, cursor, recovery>>
    BY <1>7 DEF FinishScan
  <2>2. CASE cursor # frame[p].start \/ pending
    <3>1. Goes(p, "rename") BY <1>7, <2>2 DEF FinishScan
    <3> QED BY <2>1, <3>1, RootAlone DEF Proc, Work, Scanning
  <2>3. CASE cursor = frame[p].start /\ ~pending
    <3>1. Goes(p, "unlock") BY <1>7, <2>3 DEF FinishScan
    <3>2. RootOK' BY <2>1, <2>3 DEF RootSoFar, RootOK, Names, Proc
    <3> QED BY <2>1, <3>1, <3>2, RootAlone DEF Proc, Work, Scanning
  <2> QED BY <2>2, <2>3
<1>8. ASSUME NEW p \in Tick, ClearPending(p) PROVE Kept
  <2>1. pc[p] = "unpend" /\ Goes(p, "unlock") /\ UNCHANGED <<root, index>>
    BY <1>8 DEF ClearPending, Finish
  <2>2. RootOK' BY <2>1 DEF RootSoFar, RootOK, Names, Proc
  <2> QED BY <2>1, <2>2, RootAlone DEF Proc, Work, Scanning
<1>9. ASSUME NEW p \in Tick, FailRoot(p) PROVE Kept
  <2>1. pc[p] \in {"rename", "reroot", "unpend"} /\ Goes(p, "unlock") /\ pending'
    BY <1>9 DEF FailRoot, Finish
  <2>2. RootOK' BY <2>1 DEF RootOK
  <2> QED BY <2>1, <2>2, RootAlone DEF Proc, Work, Scanning
<1>10. ASSUME NEW p \in Tick \union Sideload,
              SetFlag(p) \/ LockReindex(p) \/ ReadUtxos(p) \/ Unlock(p) \/ ReleaseLease(p) \/ FailRebuild(p)
       PROVE  Kept
  <2>1. PICK stage \in {"relock", "wipe", "write", "release", "down", "unlock"} :
          Goes(p, stage) /\ pc[p] \notin Stale
    BY <1>10 DEF SetFlag, LockReindex, ReadUtxos, Unlock, ReleaseLease, FailRebuild, Finish
  <2>2. /\ UNCHANGED <<root, index, pending, cursor>> /\ recovery' \in {recovery, "reindex"}
        /\ \A q \in Proc \ {p} : frame'[q] = frame[q]
    BY <1>0, <1>10 DEF SetFlag, LockReindex, ReadUtxos, Unlock, ReleaseLease, FailRebuild, Finish, SetFrame
  <2> QED BY <2>1, <2>2, RootElsewhere DEF Proc
<1>11. ASSUME NEW p \in Tick \union Sideload, WipeIndex(p) \/ WriteChunk(p) PROVE Kept
  <2>1. PICK stage \in {"read", "write"} :
          Goes(p, stage) /\ pc[p] \in {"wipe", "write"} /\ recovery' = recovery
    BY <1>11 DEF WipeIndex, WriteChunk
  <2>2. RootOK' BY <2>1, FlagSuffices DEF SoFar, RebuildIsFlagged, Rebuilding, Proc
  <2> QED BY <2>1, <2>2, RootAlone DEF Proc, Work, Rebuilding
<1>12. ASSUME NEW p \in Tick \union Sideload, ReadNames(p) PROVE Kept
  <2>1. frame'[p].names = Names(index) /\ UNCHANGED <<root, index, recovery>>
    BY <1>0, <1>12 DEF ReadNames, SetFrame, Proc, Frame, Idle
  <2>2. CASE pc[p] = "write" /\ Goes(p, "root")
    <3>1. RootOK' BY <2>1, <2>2, FlagSuffices DEF SoFar, RebuildIsFlagged, Rebuilding, Proc
    <3> QED BY <2>1, <2>2, <3>1, RootAlone DEF Proc, Work, Rebuilding, Names
  <2>3. CASE pc[p] = "rename" /\ Goes(p, "reroot")
    BY <2>1, <2>3, RootAlone DEF Proc, Work, Scanning, Names
  <2> QED BY <1>12, <2>2, <2>3 DEF ReadNames
<1>13. ASSUME NEW p \in Tick \union Sideload, StoreRoot(p) PROVE Kept
  <2>1. /\ root' = frame[p].names /\ index' = index /\ pc[p] \in {"root", "reroot"}
        /\ \E stage \in {"stamp", "unpend", "unlock"} : Goes(p, stage)
    BY <1>13 DEF StoreRoot
  <2>2. root' = Names(index') BY <2>1 DEF RootSoFar, Names, Proc
  <2>3. RootOK' BY <2>2 DEF RootOK, Names
  <2>4. PICK stage \in {"stamp", "unpend", "unlock"} : Goes(p, stage) BY <2>1
  <2> QED BY <2>1, <2>2, <2>3, <2>4, RootAlone DEF Proc, Work, Scanning, Rebuilding
<1>14. ASSUME NEW p \in Tick \union Sideload, StampSchema(p) \/ ClearFlag(p) PROVE Kept
  <2>1. /\ UNCHANGED <<root, index>> /\ pc[p] \in {"stamp", "unflag"}
        /\ \E stage \in {"unflag", "unlock"} : Goes(p, stage)
    BY <1>14 DEF StampSchema, ClearFlag, Finish
  <2>2. root' = Names(index') BY <2>1 DEF RootSoFar, Names, Proc
  <2>3. RootOK' BY <2>2 DEF RootOK, Names
  <2>4. PICK stage \in {"unflag", "unlock"} : Goes(p, stage) BY <2>1
  <2> QED BY <2>1, <2>2, <2>3, <2>4, RootAlone DEF Proc, Work, Rebuilding
<1>15. ASSUME NEW p \in Sideload, NEW mode, DetectSideload(p) \/ RefuseSideload(p) \/ RunSideload(p, mode)
       PROVE  Kept
  <2>1. PICK stage \in {"seen", "down", "reindex", "release"} :
          Goes(p, stage) /\ pc[p] \in {"down", "seen"}
    BY <1>15 DEF DetectSideload, RefuseSideload, RunSideload
  <2>2. UNCHANGED <<root, index, pending, cursor, recovery>> /\ \A q \in Proc \ {p} : frame'[q] = frame[q]
    BY <1>0, <1>15 DEF DetectSideload, RefuseSideload, RunSideload, SetFrame
  <2> QED BY <2>1, <2>2, RootElsewhere DEF Proc
<1>16. ASSUME NEW p \in Publisher, WaitForUnlocked(p) \/ LockSnapshot(p) \/ UnlockSnapshot(p) PROVE Kept
  <2>1. PICK stage \in {"seen", "publish", "down"} :
          Goes(p, stage) /\ pc[p] \in {"down", "seen", "publish"}
    BY <1>16 DEF WaitForUnlocked, LockSnapshot, UnlockSnapshot
  <2>2. UNCHANGED <<root, index, pending, cursor, recovery, frame>>
    BY <1>16 DEF WaitForUnlocked, LockSnapshot, UnlockSnapshot
  <2> QED BY <2>1, <2>2, RootElsewhere DEF Proc
<1>17. ASSUME NEW p \in Proc, Die(p) PROVE Kept
  <2>1. Goes(p, "down") /\ pc[p] \notin Scanning BY <1>17 DEF Die
  <2>2. UNCHANGED <<root, index, pending, cursor, recovery>> /\ \A q \in Proc \ {p} : frame'[q] = frame[q]
    BY <1>0, <1>17 DEF Die, SetFrame
  <2> QED BY <2>1, <2>2, RootElsewhere DEF Scanning
<1>18. CASE TriggerReindex \/ ExpireLease \/ LockAges \/ LockAgesEarly
  <2>1. UNCHANGED <<root, index, pending, cursor, pc, frame>> /\ recovery' \in {recovery, "reindex"}
    BY <1>18 DEF TriggerReindex, ExpireLease, LockAges, LockAgesEarly
  <2>2. RootOK => RootOK' BY <2>1 DEF RootOK, Names
  <2> QED BY <2>1, <2>2 DEF FreshUnlessStale, RootSoFar, Names
<1> QED
  BY <1>1, <1>2, <1>3, <1>4, <1>5, <1>6, <1>7, <1>8, <1>9, <1>10, <1>11, <1>12, <1>13, <1>14,
     <1>15, <1>16, <1>17, <1>18
  DEF ControlNext, TickStep, ScanStep, Rebuild, SideloadStep, PublisherStep

(* A death among the blocks is remembered.                                 *)
LEMMA DeathStays == ControlNext /\ died => died'
<1> SUFFICES ASSUME ControlNext, died PROVE died'
  OBVIOUS
<1>1. ASSUME NEW p, Rebuild(p) \/ ScanStep(p) PROVE died'
  BY <1>1 DEF Rebuild, SetFlag, LockReindex, WipeIndex, ReadUtxos, WriteChunk, ReadNames, StoreRoot,
              StampSchema, ClearFlag, Unlock, ReleaseLease, ScanStep, BeginScan, ApplyBlock, StopScan,
              FinishScan, ClearPending
<1>2. ASSUME NEW p, \/ AcquireLease(p) \/ CheckDeferral(p) \/ CheckLock(p) \/ FlagStaleReindex(p)
                    \/ ClearStaleLock(p) \/ CheckFlag(p) \/ ClearRollbackFlag(p) \/ CheckSchema(p)
                    \/ Shortcut(p) \/ FailRoot(p)
      PROVE  died'
  BY <1>2 DEF AcquireLease, CheckDeferral, CheckLock, FlagStaleReindex, ClearStaleLock, CheckFlag,
              ClearRollbackFlag, CheckSchema, Shortcut, FailRoot
<1>3. ASSUME NEW p, NEW mode, \/ DetectSideload(p) \/ RefuseSideload(p) \/ RunSideload(p, mode)
                              \/ WaitForUnlocked(p) \/ PublisherStep(p) \/ FailRebuild(p) \/ Die(p)
      PROVE  died'
  BY <1>3 DEF DetectSideload, RefuseSideload, RunSideload, WaitForUnlocked, PublisherStep, LockSnapshot,
              UnlockSnapshot, FailRebuild, Die
<1>4. CASE TriggerReindex \/ ExpireLease \/ LockAges \/ LockAgesEarly
  BY <1>4 DEF TriggerReindex, ExpireLease, LockAges, LockAgesEarly, history
<1> QED
  BY <1>1, <1>2, <1>3, <1>4 DEF ControlNext, TickStep, SideloadStep

(* The root invariant holds from the first state on.                       *)
THEOREM RootInvariant == ControlSpec => []RootSound
<1>1. ControlInit => RootSound
  BY DEF ControlInit, RootSound, FreshUnlessStale, RootSoFar, RootOK, Names, Nothing
<1>2. ControlTypeOK /\ Wholeness /\ Wholeness' /\ RootSound /\ [ControlNext]_vars => RootSound'
  <2> SUFFICES ASSUME ControlTypeOK, Wholeness, RootSound, [ControlNext]_vars, ~overlapped', ~died'
               PROVE  FreshUnlessStale' /\ RootSoFar'
    BY DEF RootSound
  <2>1. CASE UNCHANGED vars
    BY <2>1 DEF vars, guards, data, history, RootSound, FreshUnlessStale, RootSoFar, RootOK, Names
  <2>2. CASE ControlNext
    BY <2>2, OverlapStays, DeathStays, RootStep DEF Wholeness, RootSound
  <2> QED BY <2>1, <2>2
<1> QED
  BY <1>1, <1>2, WholenessCorrect, ControlTypeCorrect, PTL DEF ControlSpec, ControlSafety

(* Between invocations the stored label root is the root of the index, or  *)
(* a mark says that it is to be rebuilt, unless a tick died among its      *)
(* blocks or two processes worked at once.                                 *)
THEOREM RootCorrect == ControlSpec => []RootMatchesAtRest
<1>1. RootSound => RootMatchesAtRest
  BY DEF RootSound, FreshUnlessStale, RootOK, RootMatchesAtRest, Quiet, Work, Scanning, Stale
<1> QED
  BY <1>1, RootInvariant, PTL

=============================================================================
