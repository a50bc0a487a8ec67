------------------------ MODULE SnapshotImportProofs ------------------------
(***************************************************************************)
(* Proofs about how a cache comes by a snapshot: its import, by            *)
(* SnapshotImport, for every set of processes and snapshots, every number  *)
(* of chunks and every bound on crashes, time-outs, expiries, publications *)
(* and resets; and, in the last two sections, the making of the file from  *)
(* two providers, by BootstrapApis, for every list of assets, page and     *)
(* batch size, number of workers and history of the chain.                 *)
(*                                                                         *)
(* The import first.  Its inductive invariant has four parts.  A           *)
(* transaction that watches unchanged keys has passed reads that still     *)
(* hold (Watching).  A claim carries the images its cursors were computed  *)
(* from (Claims).  The data is where the owner's cursors say, whoever      *)
(* owned the import before (Owned), and a marker lags behind it by one     *)
(* chunk at most (Marked).                                                 *)
(***************************************************************************)
EXTENDS SnapshotImport, BootstrapApis, FiniteSetTheorems, WellFoundedInduction, TLAPS

(* The data once the next chunk after the cursors m and u is stored.       *)
Extended(s, m, u) ==
    IF m < NMint THEN Prefix(s, m + 1, u)
    ELSE IF u < NUtxo THEN Prefix(s, m, u + 1) ELSE Whole(s)

Reached(s, m, u) == {Prefix(s, m, u), Extended(s, m, u)}

Calling(p) == req[p] # "none"

Watching == \A p \in Proc : req[p] = "watched" => Holds(p)

Unready == Recover \/ metrics \notin Ready

Claiming(f) ==
    /\ f.image \in Image
    /\ Recover \/ f.image.metrics \notin Ready
    /\ IF f.image.progress = None THEN f.md = 0 /\ f.utxo = 0
       ELSE f.image.progress = [snap |-> f.cand, md |-> f.md, utxo |-> f.utxo] /\ f.cand \in Snapshot
    /\ f.cand = None => f.image.metrics = None /\ f.image.progress = None

Claims == \A p \in Proc : Calling(p) /\ frame[p].op = "claim" => Claiming(frame[p])

(* Where the data stands when f is the frame of the owner's call.          *)
Position(f) ==
    /\ f.utxo = 0 \/ f.md = NMint
    /\ f.op # "unmark" => Unready
    /\ f.op = "clear" => f.cand # None /\ f.md = 0 /\ f.utxo = 0 /\ progress = None
    /\ f.op = "mark" => f.cand # None /\ chunks = Prefix(f.cand, f.md, f.utxo)
    /\ f.op \in {"mint", "utxo", "blocks"} =>
        /\ f.cand # None
        /\ f.op = Work(f.md, f.utxo)
        /\ progress \in {None, [snap |-> f.cand, md |-> f.md, utxo |-> f.utxo]}
        /\ chunks \in Reached(f.cand, f.md, f.utxo)
    /\ f.op \in {"commit", "unmark"} =>
        IF f.cand = None THEN chunks = {} /\ progress = None ELSE chunks = Whole(f.cand)

Owned ==
    \A p \in Proc :
        ownerKey = p /\ Calling(p) /\ frame[p].op # "claim" => Position(frame[p])

Marked ==
    progress # None =>
        /\ progress.utxo = 0 \/ progress.md = NMint
        /\ chunks \in Reached(progress.snap, progress.md, progress.utxo)

Complete == ~Recover => StartingPointIsComplete

Counted == \A p \in Proc : frame[p].from <= frame[p].utxo

ImportInv ==
    ImportTypeOK /\ Watching /\ Claims /\ Owned /\ Marked /\ Complete /\ Counted

PCs == {"down", "ready", "locked", "call", "release", "end", "leave"}
Reqs == {"none", "sent", "watched", "touched"}
Ops == {"claim", "clear", "mark", "mint", "utxo", "blocks", "commit", "unmark"}

-----------------------------------------------------------------------------
(***************************************************************************)
(* The helpers.                                                            *)
(***************************************************************************)

(* Touching transactions ends their watch and neither starts nor ends one. *)
LEMMA TouchFact ==
    ASSUME NEW r \in [Proc -> Reqs]
    PROVE  /\ Touch(r) \in [Proc -> Reqs]
           /\ \A q \in Proc : Touch(r)[q] # "watched" /\ (Touch(r)[q] # "none" => r[q] # "none")
BY DEF Touch, Reqs

LEMMA TouchClaimsFact ==
    ASSUME ImportTypeOK
    PROVE  /\ TouchClaims \in [Proc -> Reqs]
           /\ \A q \in Proc : /\ TouchClaims[q] # "none" => req[q] # "none"
                              /\ TouchClaims[q] = "watched" =>
                                    req[q] = "watched" /\ frame[q].op # "claim"
BY DEF TouchClaims, Reqs, ImportTypeOK

(* The empty frame is a frame, with or without a scanner's token.          *)
LEMMA IdleFrame ==
    ASSUME NEW t \in Token
    PROVE  Idle \in Frame /\ [Idle EXCEPT !.scanner = t] \in Frame
           /\ [Idle EXCEPT !.scanner = t].from = 0 /\ [Idle EXCEPT !.scanner = t].utxo = 0
BY SnapshotAssumption DEF Idle, Frame, Token

(* Where a process goes, only its own frame changes.                       *)
LEMMA GoesFact ==
    ASSUME ImportTypeOK, Counted, NEW p \in Proc, NEW w \in PCs, NEW r \in Reqs, NEW g \in Frame,
           g.from <= g.utxo, Goes(p, w, r, g)
    PROVE  /\ pc' \in [Proc -> PCs] /\ frame' \in [Proc -> Frame] /\ Counted'
           /\ \A q \in Proc : q # p => frame'[q] = frame[q]
           /\ r # "none" => frame'[p] = g
<1> DEFINE h == IF r # "none" THEN g
                ELSE IF w = "release" THEN [Idle EXCEPT !.scanner = g.scanner] ELSE Idle
<1>1. pc' = [pc EXCEPT ![p] = w] /\ frame' = [frame EXCEPT ![p] = h]
  BY DEF Goes
<1>2. h \in Frame /\ h.from <= h.utxo
  <2>1. g.scanner \in Token
    BY DEF Frame
  <2>2. Idle.from = 0 /\ Idle.utxo = 0
    BY DEF Idle
  <2> QED
    BY <2>1, <2>2, IdleFrame
<1>3. r # "none" => h = g
  OBVIOUS
<1> HIDE DEF h
<1>4. pc' \in [Proc -> PCs] /\ frame' \in [Proc -> Frame]
  BY <1>1, <1>2 DEF ImportTypeOK, PCs
<1>5. \A q \in Proc : frame'[q] = IF q = p THEN h ELSE frame[q]
  BY <1>1 DEF ImportTypeOK
<1> QED
  BY <1>2, <1>3, <1>4, <1>5 DEF Counted

(* After an EXEC no transaction is watched, and p's next call, if it makes *)
(* one, is the one it was answered with.                                   *)
LEMMA AnsweredFact ==
    ASSUME ImportTypeOK, Counted, NEW p \in Proc, NEW g \in Frame, NEW next \in Ops \union {"done"},
           g.from <= g.utxo, Answered(p, g, next)
    PROVE  /\ pc' \in [Proc -> PCs] /\ frame' \in [Proc -> Frame] /\ req' \in [Proc -> Reqs]
           /\ Counted'
           /\ \A q \in Proc : req'[q] # "watched"
           /\ \A q \in Proc : q # p => frame'[q] = frame[q] /\ (req'[q] # "none" => req[q] # "none")
           /\ req'[p] # "none" => next # "done" /\ frame'[p] = [g EXCEPT !.op = next]
<1>1. CASE pc[p] = "call" /\ next # "done"
  <2> DEFINE r == [req EXCEPT ![p] = "sent"]
             h == [g EXCEPT !.op = next]
  <2>1. req' = Touch(r) /\ Goes(p, "call", "sent", h)
    BY <1>1 DEF Answered
  <2>2. r \in [Proc -> Reqs] /\ \A q \in Proc : q # p => r[q] = req[q]
    BY DEF ImportTypeOK, Reqs
  <2>3. h \in Frame /\ h.from = g.from /\ h.utxo = g.utxo
    BY <1>1 DEF Frame, Ops
  <2> HIDE DEF r, h
  <2>4. "call" \in PCs /\ "sent" \in Reqs /\ "sent" # "none"
    BY DEF PCs, Reqs
  <2>5. /\ pc' \in [Proc -> PCs] /\ frame' \in [Proc -> Frame] /\ Counted'
        /\ \A q \in Proc : q # p => frame'[q] = frame[q]
        /\ frame'[p] = h
    BY <2>1, <2>3, <2>4, GoesFact
  <2> QED
    BY <1>1, <2>1, <2>2, <2>5, TouchFact DEF h
<1>2. CASE ~(pc[p] = "call" /\ next # "done")
  <2> DEFINE r == [req EXCEPT ![p] = "none"]
             w == IF pc[p] = "call" THEN "release" ELSE pc[p]
  <2>1. req' = Touch(r) /\ Goes(p, w, "none", g)
    BY <1>2 DEF Answered
  <2>2. r \in [Proc -> Reqs] /\ r[p] = "none" /\ \A q \in Proc : q # p => r[q] = req[q]
    BY DEF ImportTypeOK, Reqs
  <2>3. w \in PCs /\ "none" \in Reqs
    BY DEF ImportTypeOK, PCs, Reqs
  <2> HIDE DEF r, w
  <2>4. /\ pc' \in [Proc -> PCs] /\ frame' \in [Proc -> Frame] /\ Counted'
        /\ \A q \in Proc : q # p => frame'[q] = frame[q]
    BY <2>1, <2>3, GoesFact
  <2> QED
    BY <2>1, <2>2, <2>4, TouchFact
<1> QED
  BY <1>1, <1>2

(* Before the first chunk there is nothing.                                *)
LEMMA PrefixEmpty ==
    ASSUME NEW s
    PROVE  Prefix(s, 0, 0) = {}
<1>1. 1..0 = {}
  OBVIOUS
<1> QED
  BY <1>1 DEF Prefix

(* Chunks are chunks.                                                      *)
LEMMA PrefixType ==
    ASSUME NEW s \in Source, NEW m \in Nat, NEW u \in Nat
    PROVE  Prefix(s, m, u) \subseteq Chunk /\ Whole(s) \subseteq Chunk
BY SnapshotAssumption DEF Prefix, Whole, Chunk, Source

-----------------------------------------------------------------------------
(***************************************************************************)
(* Two shapes of steps keep the invariant.                                 *)
(***************************************************************************)

(* What a transaction read still holds if nothing it watches changes.      *)
LEMMA StillHolds ==
    ASSUME NEW q \in Proc, Holds(q), frame'[q] = frame[q], keys' = keys,
           frame[q].op = "claim" => UNCHANGED <<metrics, progress, chunks>>
    PROVE  Holds(q)'
BY DEF Holds, ClaimHolds, FenceHolds, ScannerOwner, Load, keys

(* A step that stores nothing: it may reset the starting point and the     *)
(* marker, end calls, and give up the ownership.                           *)
LEMMA QuietInv ==
    ASSUME ImportInv,
           metrics' \in {metrics, Stale}, progress' \in {progress, None},
           UNCHANGED <<chunks, holderCount>>,
           ownerKey' \in {ownerKey, None}, scannerKey' \in Token,
           pc' \in [Proc -> PCs], lease' \in [Proc -> BOOLEAN],
           frame' \in [Proc -> Frame], req' \in [Proc -> Reqs],
           published' \in Snapshot \union {None}, resetting' \in BOOLEAN, events' \in 0..MaxEvents,
           Counted',
           \A q \in Proc : req'[q] # "none" => req[q] # "none" /\ frame'[q] = frame[q],
           \A q \in Proc : req'[q] = "watched" => Holds(q)'
    PROVE  ImportInv'
<1> USE DEF ImportInv
<1>1. Stale \notin Ready
  BY SnapshotAssumption DEF Ready, Source
<1>2. ImportTypeOK'
  BY DEF ImportTypeOK, PCs, Reqs
<1>3. Watching'
  BY DEF Watching
<1>4. Claims'
  BY DEF Claims, Calling, Claiming
<1>5. Owned'
  <2> SUFFICES ASSUME NEW p \in Proc, ownerKey' = p, req'[p] # "none", frame'[p].op # "claim"
               PROVE  Position(frame[p])'
    BY DEF Owned, Calling
  <2>1. ownerKey = p /\ req[p] # "none" /\ frame'[p] = frame[p]
    BY ProcAssumption
  <2>2. PICK f : f = frame[p]
    OBVIOUS
  <2>3. Position(f) /\ frame'[p] = f
    BY <2>1, <2>2 DEF Owned, Calling
  <2>4. Position(f)'
    BY <1>1, <2>3 DEF Position, Unready
  <2> QED
    BY <2>3, <2>4
<1>6. Marked'
  BY DEF Marked
<1>7. Complete'
  BY <1>1 DEF Complete, StartingPointIsComplete, Ready
<1> QED
  BY <1>2, <1>3, <1>4, <1>5, <1>6, <1>7

(* A transaction of p succeeds: p owns the import from then on, and its    *)
(* next call finds the data in the position its cursors say.               *)
LEMMA LandingInv ==
    ASSUME ImportInv, NEW p \in Proc, NEW g \in Frame, NEW next \in (Ops \ {"claim"}) \union {"done"},
           Answered(p, g, next), g.from <= g.utxo,
           UNCHANGED <<lease, env>>, ownerKey' = p, scannerKey' \in Token,
           metrics' \in Ready \union {None, Stale}, progress' \in Marker \union {None},
           chunks' \in SUBSET Chunk, holderCount' \in 0..NUtxo,
           Marked', Complete',
           next # "done" => Position([g EXCEPT !.op = next])'
    PROVE  ImportInv'
<1> USE DEF ImportInv
<1>1. /\ pc' \in [Proc -> PCs] /\ frame' \in [Proc -> Frame] /\ req' \in [Proc -> Reqs]
      /\ Counted'
      /\ \A q \in Proc : req'[q] # "watched"
      /\ \A q \in Proc : q # p => frame'[q] = frame[q] /\ (req'[q] # "none" => req[q] # "none")
      /\ req'[p] # "none" => next # "done" /\ frame'[p] = [g EXCEPT !.op = next]
  BY AnsweredFact
<1>2. ImportTypeOK'
  BY <1>1 DEF ImportTypeOK, PCs, Reqs, env
<1>3. Watching'
  BY <1>1 DEF Watching
<1>4. Claims'
  <2> SUFFICES ASSUME NEW q \in Proc, req'[q] # "none", frame'[q].op = "claim"
               PROVE  Claiming(frame'[q])
    BY DEF Claims, Calling, Claiming
  <2>1. CASE q = p
    <3>1. next # "done" /\ frame'[p] = [g EXCEPT !.op = next]
      BY <1>1, <2>1
    <3>2. frame'[p].op = next
      BY <3>1 DEF Frame
    <3> QED
      BY <2>1, <3>1, <3>2
  <2>2. CASE q # p
    BY <1>1, <2>2 DEF Claims, Calling
  <2> QED
    BY <2>1, <2>2
<1>5. Owned'
  <2> SUFFICES ASSUME NEW q \in Proc, ownerKey' = q, req'[q] # "none"
               PROVE  Position(frame[q])'
    BY DEF Owned, Calling
  <2>1. q = p
    OBVIOUS
  <2> QED
    BY <1>1, <2>1
<1> QED
  BY <1>1, <1>2, <1>3, <1>4, <1>5

-----------------------------------------------------------------------------
(***************************************************************************)
(* The transactions.                                                       *)
(***************************************************************************)

(* Tokens are tokens. *)
LEMMA TokenFact ==
    ASSUME ImportTypeOK, NEW p \in Proc
    PROVE  Scan(p) \in Token /\ Load(p) \in Token /\ ScannerOwner(p) \in Token /\ None \in Token
BY DEF ImportTypeOK, Frame, Token, Scan, Load, ScannerOwner

(* Whoever's transaction succeeds owns the import, and the data is where   *)
(* its cursors say.                                                        *)
LEMMA OwnerLands ==
    ASSUME ImportInv, NEW p \in Proc, NEW o \in Ops \ {"claim"}, Lands(p, o)
    PROVE  /\ frame[p].op = o /\ frame[p] \in Frame /\ Position(frame[p])
           /\ ownerKey = p /\ scannerKey = ScannerOwner(p) /\ scannerKey \in Token
           /\ frame[p].from <= frame[p].utxo
           /\ frame[p].from \in Nat /\ frame[p].utxo \in Nat /\ frame[p].md \in Nat
<1>1. req[p] = "watched" /\ frame[p].op = o
  BY DEF Lands
<1>2. FenceHolds(p)
  BY <1>1 DEF ImportInv, Watching, Holds
<1>3. frame[p] \in Frame
  BY DEF ImportInv, ImportTypeOK
<1>4. Position(frame[p])
  BY <1>1, <1>2 DEF ImportInv, Owned, Calling, FenceHolds
<1> QED
  BY <1>1, <1>2, <1>3, <1>4, TokenFact DEF FenceHolds, ImportInv, Counted, Frame

(* What is left to do: the kind of the next chunk.                         *)
LEMMA WorkFact ==
    ASSUME NEW m \in 0..NMint, NEW u \in 0..NUtxo
    PROVE  /\ Work(m, u) \in {"mint", "utxo", "blocks"}
           /\ Work(m, u) = "mint" => m < NMint
           /\ Work(m, u) = "utxo" => m = NMint /\ u < NUtxo
           /\ Work(m, u) = "blocks" => m = NMint /\ u = NUtxo
BY SnapshotAssumption DEF Work

LEMMA ClaimInv ==
    ASSUME ImportInv, NEW p \in Proc, LandClaim(p)
    PROVE  ImportInv'
<1> USE DEF ImportInv
<1>1. PICK f \in Frame : f = frame[p]
  BY DEF ImportTypeOK
<1>2. PICK g : g = [f EXCEPT !.image = None]
  OBVIOUS
<1>3. /\ g \in Frame /\ g.op = f.op /\ g.cand = f.cand /\ g.md = f.md /\ g.utxo = f.utxo
      /\ g.from = f.from
  BY <1>2 DEF Frame
<1>4. PICK next : next = IF f.cand = None THEN "commit"
                         ELSE IF f.image.progress = None THEN "clear" ELSE Work(f.md, f.utxo)
  OBVIOUS
<1>5. f.md \in 0..NMint /\ f.utxo \in 0..NUtxo
  BY DEF Frame
<1>6. next \in Ops \ {"claim"} /\ next # "done"
  BY <1>4, <1>5, WorkFact DEF Ops
<1>7. /\ req[p] = "watched" /\ f.op = "claim" /\ ownerKey' = p /\ scannerKey' = ScannerOwner(p)
      /\ Answered(p, g, next) /\ UNCHANGED <<metrics, progress, chunks, holderCount, lease, env>>
  BY <1>1, <1>2, <1>4 DEF LandClaim, Lands, store, cache
<1>8. ClaimHolds(p)
  BY <1>1, <1>7 DEF Watching, Holds
<1>9. /\ metrics = f.image.metrics /\ progress = f.image.progress
      /\ f.cand = None => chunks = {}
  <2>1. [metrics |-> metrics, progress |-> progress] = f.image
    BY <1>1, <1>8 DEF ClaimHolds
  <2> QED
    BY <1>1, <1>8, <2>1 DEF ClaimHolds
<1>10. Claiming(f)
  BY <1>1, <1>7 DEF Claims, Calling
<1>11. PICK h : h = [g EXCEPT !.op = next]
  OBVIOUS
<1>12. h.op = next /\ h.cand = f.cand /\ h.md = f.md /\ h.utxo = f.utxo
  BY <1>3, <1>11 DEF Frame
<1>13. Position(h)'
  <2>1. Unready'
    BY <1>7, <1>9, <1>10 DEF Unready, Claiming
  <2>2. CASE f.cand = None
    <3>1. next = "commit" /\ progress = None /\ f.md = 0 /\ f.utxo = 0
      BY <1>4, <1>9, <1>10, <2>2 DEF Claiming
    <3> QED
      BY <1>7, <1>9, <1>12, <2>1, <2>2, <3>1 DEF Position
  <2>3. CASE f.cand # None /\ f.image.progress = None
    <3>1. next = "clear" /\ progress = None /\ f.md = 0 /\ f.utxo = 0
      BY <1>4, <1>9, <1>10, <2>3 DEF Claiming
    <3> QED
      BY <1>7, <1>12, <2>1, <2>3, <3>1 DEF Position
  <2>4. CASE f.cand # None /\ f.image.progress # None
    <3>1. PICK m : m = [snap |-> f.cand, md |-> f.md, utxo |-> f.utxo]
      OBVIOUS
    <3>2. m.snap = f.cand /\ m.md = f.md /\ m.utxo = f.utxo
      BY <3>1
    <3>3. next = Work(f.md, f.utxo) /\ progress = m /\ progress # None
      BY <1>4, <1>9, <1>10, <2>4, <3>1 DEF Claiming
    <3>4. f.utxo = 0 \/ f.md = NMint
      BY <3>2, <3>3 DEF Marked
    <3>5. chunks \in Reached(f.cand, f.md, f.utxo)
      BY <3>2, <3>3 DEF Marked
    <3>6. next \in {"mint", "utxo", "blocks"}
      BY <1>5, <3>3, WorkFact
    <3> QED
      BY <1>7, <1>12, <2>1, <2>4, <3>1, <3>3, <3>4, <3>5, <3>6 DEF Position, Reached
  <2> QED
    BY <2>2, <2>3, <2>4
<1>14. g.from <= g.utxo
  BY <1>1, <1>3 DEF Counted
<1>15. Marked' /\ Complete'
  BY <1>7 DEF Marked, Complete, StartingPointIsComplete
<1>16. /\ metrics' \in Ready \union {None, Stale} /\ progress' \in Marker \union {None}
       /\ chunks' \in SUBSET Chunk /\ holderCount' \in 0..NUtxo /\ scannerKey' \in Token
  BY <1>7, TokenFact DEF ImportTypeOK
<1>17. UNCHANGED <<lease, env>> /\ ownerKey' = p
  BY <1>7
<1> HIDE DEF ImportInv
<1> QED
  BY <1>3, <1>6, <1>7, <1>11, <1>13, <1>14, <1>15, <1>16, <1>17, LandingInv

LEMMA ClearInv ==
    ASSUME ImportInv, NEW p \in Proc, LandClear(p)
    PROVE  ImportInv'
<1>1. PICK f \in Frame : f = frame[p]
  BY DEF ImportInv, ImportTypeOK
<1>2. /\ f.op = "clear" /\ Position(f) /\ ownerKey = p /\ scannerKey \in Token /\ f.from <= f.utxo
  BY <1>1, OwnerLands DEF LandClear, Ops
<1>3. /\ f.cand # None /\ f.md = 0 /\ f.utxo = 0 /\ progress = None /\ Unready
  BY <1>2 DEF Position
<1>4. PICK next \in {"mark", "clear"} :
        /\ Answered(p, f, next)
        /\ next = "mark" => chunks' = {} /\ metrics' \in {None, Stale}
        /\ chunks' \in SUBSET chunks /\ metrics' \in {metrics, None} /\ holderCount' \in {holderCount, 0}
        /\ UNCHANGED <<progress, keys, lease, env>>
  BY <1>1 DEF LandClear
<1>5. None \notin Ready /\ Stale \notin Ready
  BY SnapshotAssumption DEF Ready, Source
<1>6. Unready'
  BY <1>3, <1>4, <1>5 DEF Unready
<1>7. PICK h : h = [f EXCEPT !.op = next]
  OBVIOUS
<1>8. h.op = next /\ h.cand = f.cand /\ h.md = f.md /\ h.utxo = f.utxo
  BY <1>7 DEF Frame
<1>9. Position(h)'
  <2>1. next = "mark" => chunks' = Prefix(h.cand, h.md, h.utxo)
    BY <1>3, <1>4, <1>8, PrefixEmpty
  <2> QED
    BY <1>3, <1>4, <1>6, <1>8, <2>1 DEF Position
<1>10. Marked'
  BY <1>3, <1>4 DEF Marked
<1>11. Complete'
  BY <1>5, <1>6 DEF Complete, Unready, StartingPointIsComplete, Ready
<1>12. /\ metrics' \in Ready \union {None, Stale} /\ progress' \in Marker \union {None}
       /\ chunks' \in SUBSET Chunk /\ holderCount' \in 0..NUtxo
  BY <1>4, SnapshotAssumption DEF ImportInv, ImportTypeOK
<1>13. next \in Ops \ {"claim"} /\ ownerKey' = p /\ scannerKey' \in Token /\ UNCHANGED <<lease, env>>
  BY <1>2, <1>4 DEF Ops, keys
<1> QED
  BY <1>2, <1>4, <1>7, <1>9, <1>10, <1>11, <1>12, <1>13, LandingInv

LEMMA MarkInv ==
    ASSUME ImportInv, NEW p \in Proc, LandMark(p)
    PROVE  ImportInv'
<1>1. PICK f \in Frame : f = frame[p]
  BY DEF ImportInv, ImportTypeOK
<1>2. /\ f.op = "mark" /\ Position(f) /\ ownerKey = p /\ scannerKey \in Token /\ f.from <= f.utxo
  BY <1>1, OwnerLands DEF LandMark, Ops
<1>3. /\ f.cand \in Snapshot /\ chunks = Prefix(f.cand, f.md, f.utxo) /\ Unready
      /\ f.utxo = 0 \/ f.md = NMint
  BY <1>2 DEF Position, Frame
<1>4. PICK m \in Marker : m = [snap |-> f.cand, md |-> f.md, utxo |-> f.utxo]
  BY <1>3 DEF Marker, Frame
<1>5. PICK next : next = Work(f.md, f.utxo)
  OBVIOUS
<1>6. next \in {"mint", "utxo", "blocks"}
  BY <1>5, WorkFact DEF Frame
<1>7. /\ progress' = m /\ Answered(p, f, next)
      /\ UNCHANGED <<metrics, chunks, holderCount, keys, lease, env>>
  BY <1>1, <1>4, <1>5 DEF LandMark
<1>8. PICK h : h = [f EXCEPT !.op = next]
  OBVIOUS
<1>9. h.op = next /\ h.cand = f.cand /\ h.md = f.md /\ h.utxo = f.utxo
  BY <1>8 DEF Frame
<1>10. Position(h)'
  <2>1. h.cand # None
    BY <1>3, <1>9, SnapshotAssumption DEF Source
  <2> QED
    BY <1>3, <1>4, <1>5, <1>6, <1>7, <1>9, <2>1 DEF Position, Unready, Reached
<1>11. Marked'
  BY <1>3, <1>4, <1>7 DEF Marked, Reached
<1>12. Complete'
  BY <1>7 DEF ImportInv, Complete, StartingPointIsComplete
<1>13. /\ metrics' \in Ready \union {None, Stale} /\ progress' \in Marker \union {None}
       /\ chunks' \in SUBSET Chunk /\ holderCount' \in 0..NUtxo
  BY <1>7 DEF ImportInv, ImportTypeOK
<1>14. next \in Ops \ {"claim"} /\ ownerKey' = p /\ scannerKey' \in Token /\ UNCHANGED <<lease, env>>
  BY <1>2, <1>6, <1>7 DEF Ops, keys
<1> QED
  BY <1>2, <1>7, <1>8, <1>10, <1>11, <1>12, <1>13, <1>14, LandingInv

(* An owner about to store a chunk finds all chunks before it stored, and  *)
(* perhaps the chunk itself; no starting point stands.                     *)
LEMMA NextChunk ==
    ASSUME ImportInv, NEW p \in Proc, NEW o \in {"mint", "utxo", "blocks"}, Lands(p, o)
    PROVE  LET f == frame[p] IN
           /\ f \in Frame /\ f.op = o /\ f.cand \in Snapshot /\ f.cand # None
           /\ ownerKey = p /\ scannerKey \in Token /\ f.from <= f.utxo
           /\ f.from \in Nat /\ f.utxo \in Nat /\ f.md \in Nat
           /\ f.utxo = 0 \/ f.md = NMint
           /\ Unready
           /\ o = "mint" => f.md < NMint /\ f.utxo = 0
           /\ o = "utxo" => f.md = NMint /\ f.utxo < NUtxo
           /\ o = "blocks" => f.md = NMint /\ f.utxo = NUtxo
           /\ progress \in {None, [snap |-> f.cand, md |-> f.md, utxo |-> f.utxo]}
           /\ chunks \in Reached(f.cand, f.md, f.utxo)
<1>1. PICK f \in Frame : f = frame[p]
  BY DEF ImportInv, ImportTypeOK
<1>2. /\ f.op = o /\ Position(f) /\ ownerKey = p /\ scannerKey \in Token /\ f.from <= f.utxo
      /\ f.from \in Nat /\ f.utxo \in Nat /\ f.md \in Nat
  BY <1>1, OwnerLands DEF Ops
<1>3. /\ f.cand # None /\ f.op = Work(f.md, f.utxo) /\ Unready
      /\ f.utxo = 0 \/ f.md = NMint
      /\ progress \in {None, [snap |-> f.cand, md |-> f.md, utxo |-> f.utxo]}
      /\ chunks \in Reached(f.cand, f.md, f.utxo)
  BY <1>2 DEF Position
<1>4. f.md \in 0..NMint /\ f.utxo \in 0..NUtxo /\ f.cand \in Snapshot
  BY <1>3 DEF Frame
<1>5. /\ o = "mint" => f.md < NMint
      /\ o = "utxo" => f.md = NMint /\ f.utxo < NUtxo
      /\ o = "blocks" => f.md = NMint /\ f.utxo = NUtxo
  BY <1>2, <1>3, <1>4, WorkFact
<1>6. o = "mint" => f.utxo = 0
  BY <1>3, <1>4, <1>5, SnapshotAssumption
<1> QED
  BY <1>1, <1>2, <1>3, <1>4, <1>5, <1>6

(* Storing a chunk moves the data on by one, from wherever it stood.       *)
LEMMA Stores ==
    ASSUME NEW s \in Snapshot, NEW m \in 0..NMint, NEW u \in 0..NUtxo, chunks \in Reached(s, m, u),
           NEW c, NEW k,
           \/ m < NMint /\ c = "mint" /\ k = m + 1
           \/ m = NMint /\ u < NUtxo /\ c = "utxo" /\ k = u + 1
           \/ m = NMint /\ u = NUtxo /\ c = "blocks" /\ k = 1,
           chunks' = chunks \union {<<s, c, k>>}
    PROVE  /\ chunks' = Extended(s, m, u)
           /\ chunks' \in SUBSET Chunk
<1> USE SnapshotAssumption
<1>1. Extended(s, m, u) = Prefix(s, m, u) \union {<<s, c, k>>}
  <2>0. m \in Nat /\ u \in Nat
    OBVIOUS
  <2>1. CASE m < NMint
    <3>1. c = "mint" /\ k = m + 1
      BY <2>0, <2>1
    <3>2. Prefix(s, m + 1, u) = Prefix(s, m, u) \union {<<s, "mint", m + 1>>}
      <4>1. 1..(m + 1) = (1..m) \union {m + 1}
        BY <2>0
      <4> QED
        BY <4>1 DEF Prefix
    <3>3. Extended(s, m, u) = Prefix(s, m + 1, u)
      BY <2>1 DEF Extended
    <3>4. <<s, c, k>> = <<s, "mint", m + 1>>
      BY <3>1
    <3> QED
      BY <3>2, <3>3, <3>4
  <2>2. CASE m = NMint /\ u < NUtxo
    <3>1. c = "utxo" /\ k = u + 1
      BY <2>0, <2>2
    <3>2. Prefix(s, m, u + 1) = Prefix(s, m, u) \union {<<s, "utxo", u + 1>>}
      <4>1. 1..(u + 1) = (1..u) \union {u + 1}
        BY <2>0
      <4> QED
        BY <4>1 DEF Prefix
    <3>3. Extended(s, m, u) = Prefix(s, m, u + 1)
      BY <2>2 DEF Extended
    <3>4. <<s, c, k>> = <<s, "utxo", u + 1>>
      BY <3>1
    <3> QED
      BY <3>2, <3>3, <3>4
  <2>3. CASE m = NMint /\ u = NUtxo
    BY <2>3 DEF Extended, Whole
  <2> QED
    BY <2>1, <2>2, <2>3
<1>2. Extended(s, m, u) \in SUBSET Chunk
  BY PrefixType DEF Extended, Source
<1> QED
  BY <1>1, <1>2 DEF Reached

(* A stored chunk leaves the marker at most one chunk behind.              *)
LEMMA StoredIsMarked ==
    ASSUME NEW f \in Frame, f.utxo = 0 \/ f.md = NMint,
           progress' \in {None, [snap |-> f.cand, md |-> f.md, utxo |-> f.utxo]},
           chunks' = Extended(f.cand, f.md, f.utxo)
    PROVE  Marked'
BY DEF Marked, Reached

LEMMA MintInv ==
    ASSUME ImportInv, NEW p \in Proc, LandMint(p)
    PROVE  ImportInv'
<1>1. PICK f \in Frame : f = frame[p]
  BY DEF ImportInv, ImportTypeOK
<1>2. /\ f.op = "mint" /\ f.cand \in Snapshot /\ f.cand # None
      /\ ownerKey = p /\ scannerKey \in Token /\ f.from <= f.utxo
      /\ Unready /\ f.md < NMint /\ f.utxo = 0
      /\ progress \in {None, [snap |-> f.cand, md |-> f.md, utxo |-> f.utxo]}
      /\ chunks \in Reached(f.cand, f.md, f.utxo)
  BY <1>1, NextChunk DEF LandMint
<1>3. f.md \in 0..NMint /\ f.utxo \in 0..NUtxo
  BY DEF Frame
<1>4. PICK g : g = [f EXCEPT !.md = @ + 1]
  OBVIOUS
<1>5. /\ g \in Frame /\ g.cand = f.cand /\ g.md = f.md + 1 /\ g.utxo = f.utxo /\ g.from = f.from
  <2>1. f.md + 1 \in 0..NMint
    BY <1>2, <1>3, SnapshotAssumption
  <2> QED
    BY <1>4, <2>1 DEF Frame
<1>6. /\ chunks' = chunks \union {<<f.cand, "mint", f.md + 1>>} /\ Answered(p, g, "mark")
      /\ UNCHANGED <<metrics, progress, holderCount, keys, lease, env>>
  BY <1>1, <1>4 DEF LandMint
<1>7. chunks' = Extended(f.cand, f.md, f.utxo) /\ chunks' \in SUBSET Chunk
  BY <1>2, <1>3, <1>6, Stores
<1>8. PICK h : h = [g EXCEPT !.op = "mark"]
  OBVIOUS
<1>9. h.op = "mark" /\ h.cand = f.cand /\ h.md = f.md + 1 /\ h.utxo = f.utxo
  BY <1>5, <1>8 DEF Frame
<1>10. Position(h)'
  <2>1. chunks' = Prefix(f.cand, f.md + 1, f.utxo)
    BY <1>2, <1>7 DEF Extended
  <2> QED
    BY <1>2, <1>6, <1>9, <2>1 DEF Position, Unready
<1>11. Marked'
  BY <1>2, <1>6, <1>7, StoredIsMarked
<1>12. Complete'
  BY <1>2, <1>6 DEF Complete, Unready, StartingPointIsComplete, Ready
<1>13. /\ metrics' \in Ready \union {None, Stale} /\ progress' \in Marker \union {None}
       /\ holderCount' \in 0..NUtxo
  BY <1>6 DEF ImportInv, ImportTypeOK
<1>14. "mark" \in Ops \ {"claim"} /\ ownerKey' = p /\ scannerKey' \in Token /\ UNCHANGED <<lease, env>>
  BY <1>2, <1>6 DEF Ops, keys
<1> QED
  BY <1>2, <1>5, <1>6, <1>7, <1>8, <1>10, <1>11, <1>12, <1>13, <1>14, LandingInv

LEMMA UtxoInv ==
    ASSUME ImportInv, NEW p \in Proc, LandUtxo(p)
    PROVE  ImportInv'
<1>1. PICK f \in Frame : f = frame[p]
  BY DEF ImportInv, ImportTypeOK
<1>2. /\ f.op = "utxo" /\ f.cand \in Snapshot /\ f.cand # None
      /\ ownerKey = p /\ scannerKey \in Token /\ f.from <= f.utxo
      /\ Unready /\ f.md = NMint /\ f.utxo < NUtxo
      /\ progress \in {None, [snap |-> f.cand, md |-> f.md, utxo |-> f.utxo]}
      /\ chunks \in Reached(f.cand, f.md, f.utxo)
  BY <1>1, NextChunk DEF LandUtxo
<1>3. f.md \in 0..NMint /\ f.utxo \in 0..NUtxo /\ f.from \in 0..NUtxo
  BY DEF Frame
<1>4. PICK g : g = [f EXCEPT !.utxo = @ + 1]
  OBVIOUS
<1>5. f.utxo + 1 \in 0..NUtxo /\ f.from <= f.utxo + 1 /\ f.utxo + 1 - f.from \in 0..NUtxo
  BY <1>2, <1>3, SnapshotAssumption
<1>6. /\ g \in Frame /\ g.cand = f.cand /\ g.md = f.md /\ g.utxo = f.utxo + 1 /\ g.from = f.from
  BY <1>4, <1>5 DEF Frame
<1>7. /\ chunks' = chunks \union {<<f.cand, "utxo", f.utxo + 1>>} /\ Answered(p, g, "mark")
      /\ holderCount' = f.utxo + 1 - f.from
      /\ UNCHANGED <<metrics, progress, keys, lease, env>>
  BY <1>1, <1>4 DEF LandUtxo
<1>8. chunks' = Extended(f.cand, f.md, f.utxo) /\ chunks' \in SUBSET Chunk
  BY <1>2, <1>3, <1>7, Stores
<1>9. PICK h : h = [g EXCEPT !.op = "mark"]
  OBVIOUS
<1>10. h.op = "mark" /\ h.cand = f.cand /\ h.md = f.md /\ h.utxo = f.utxo + 1
  BY <1>6, <1>9 DEF Frame
<1>11. Position(h)'
  <2>1. ~(f.md < NMint)
    BY <1>2, SnapshotAssumption
  <2>2. chunks' = Prefix(f.cand, f.md, f.utxo + 1)
    BY <1>2, <1>8, <2>1 DEF Extended
  <2> QED
    BY <1>2, <1>7, <1>10, <2>2 DEF Position, Unready
<1>12. Marked'
  BY <1>2, <1>7, <1>8, StoredIsMarked
<1>13. Complete'
  BY <1>2, <1>7 DEF Complete, Unready, StartingPointIsComplete, Ready
<1>14. /\ metrics' \in Ready \union {None, Stale} /\ progress' \in Marker \union {None}
       /\ holderCount' \in 0..NUtxo
  BY <1>5, <1>7 DEF ImportInv, ImportTypeOK
<1>15. "mark" \in Ops \ {"claim"} /\ ownerKey' = p /\ scannerKey' \in Token /\ UNCHANGED <<lease, env>>
       /\ g.from <= g.utxo
  BY <1>2, <1>5, <1>6, <1>7 DEF Ops, keys
<1> QED
  BY <1>2, <1>6, <1>7, <1>8, <1>9, <1>11, <1>12, <1>13, <1>14, <1>15, LandingInv

LEMMA BlocksInv ==
    ASSUME ImportInv, NEW p \in Proc, LandBlocks(p)
    PROVE  ImportInv'
<1>1. PICK f \in Frame : f = frame[p]
  BY DEF ImportInv, ImportTypeOK
<1>2. /\ f.op = "blocks" /\ f.cand \in Snapshot /\ f.cand # None
      /\ ownerKey = p /\ scannerKey \in Token /\ f.from <= f.utxo
      /\ Unready /\ f.md = NMint /\ f.utxo = NUtxo
      /\ progress \in {None, [snap |-> f.cand, md |-> f.md, utxo |-> f.utxo]}
      /\ chunks \in Reached(f.cand, f.md, f.utxo)
  BY <1>1, NextChunk DEF LandBlocks
<1>3. f.md \in 0..NMint /\ f.utxo \in 0..NUtxo
  BY DEF Frame
<1>4. /\ chunks' = chunks \union {<<f.cand, "blocks", 1>>} /\ Answered(p, f, "commit")
      /\ UNCHANGED <<metrics, progress, holderCount, keys, lease, env>>
  BY <1>1 DEF LandBlocks
<1>5. chunks' = Extended(f.cand, f.md, f.utxo) /\ chunks' \in SUBSET Chunk
  BY <1>2, <1>3, <1>4, Stores
<1>6. PICK h : h = [f EXCEPT !.op = "commit"]
  OBVIOUS
<1>7. h.op = "commit" /\ h.cand = f.cand /\ h.md = f.md /\ h.utxo = f.utxo
  BY <1>6 DEF Frame
<1>8. Position(h)'
  <2>1. ~(f.md < NMint) /\ ~(f.utxo < NUtxo)
    BY <1>2, SnapshotAssumption
  <2>2. chunks' = Whole(f.cand)
    BY <1>5, <2>1 DEF Extended
  <2> QED
    BY <1>2, <1>4, <1>7, <2>2 DEF Position, Unready
<1>9. Marked'
  BY <1>2, <1>4, <1>5, StoredIsMarked
<1>10. Complete'
  BY <1>2, <1>4 DEF Complete, Unready, StartingPointIsComplete, Ready
<1>11. /\ metrics' \in Ready \union {None, Stale} /\ progress' \in Marker \union {None}
       /\ holderCount' \in 0..NUtxo
  BY <1>4 DEF ImportInv, ImportTypeOK
<1>12. "commit" \in Ops \ {"claim"} /\ ownerKey' = p /\ scannerKey' \in Token /\ UNCHANGED <<lease, env>>
  BY <1>2, <1>4 DEF Ops, keys
<1> QED
  BY <1>2, <1>4, <1>5, <1>6, <1>8, <1>9, <1>10, <1>11, <1>12, LandingInv

LEMMA CommitInv ==
    ASSUME ImportInv, NEW p \in Proc, LandCommit(p)
    PROVE  ImportInv'
<1>1. PICK f \in Frame : f = frame[p]
  BY DEF ImportInv, ImportTypeOK
<1>2. /\ f.op = "commit" /\ Position(f) /\ ownerKey = p /\ scannerKey \in Token /\ f.from <= f.utxo
  BY <1>1, OwnerLands DEF LandCommit, Ops
<1>3. /\ metrics' = IF f.cand = None THEN Genesis ELSE f.cand
      /\ Answered(p, f, "unmark")
      /\ UNCHANGED <<progress, chunks, holderCount, keys, lease, env>>
  BY <1>1 DEF LandCommit
<1>4. /\ f.utxo = 0 \/ f.md = NMint
      /\ IF f.cand = None THEN chunks = {} /\ progress = None ELSE chunks = Whole(f.cand)
  BY <1>2 DEF Position
<1>5. PICK h : h = [f EXCEPT !.op = "unmark"]
  OBVIOUS
<1>6. h.op = "unmark" /\ h.cand = f.cand /\ h.md = f.md /\ h.utxo = f.utxo
  BY <1>5 DEF Frame
<1>7. Position(h)'
  BY <1>3, <1>4, <1>6 DEF Position
<1>8. Marked'
  BY <1>3 DEF ImportInv, Marked
<1>9. Complete'
  <2>1. Genesis \notin Snapshot
    BY SnapshotAssumption DEF Source
  <2>2. f.cand \in Snapshot \union {None} /\ Genesis # None /\ None \notin Snapshot
    BY SnapshotAssumption DEF Frame, Source
  <2> QED
    BY <1>3, <1>4, <2>1, <2>2 DEF Complete, StartingPointIsComplete
<1>10. /\ metrics' \in Ready \union {None, Stale} /\ progress' \in Marker \union {None}
       /\ chunks' \in SUBSET Chunk /\ holderCount' \in 0..NUtxo
  BY <1>3 DEF ImportInv, ImportTypeOK, Ready, Frame
<1>11. "unmark" \in Ops \ {"claim"} /\ ownerKey' = p /\ scannerKey' \in Token /\ UNCHANGED <<lease, env>>
  BY <1>2, <1>3 DEF Ops, keys
<1> QED
  BY <1>2, <1>3, <1>5, <1>7, <1>8, <1>9, <1>10, <1>11, LandingInv

LEMMA UnmarkInv ==
    ASSUME ImportInv, NEW p \in Proc, LandUnmark(p)
    PROVE  ImportInv'
<1>1. PICK f \in Frame : f = frame[p]
  BY DEF ImportInv, ImportTypeOK
<1>2. /\ f.op = "unmark" /\ ownerKey = p /\ scannerKey \in Token /\ f.from <= f.utxo
  BY <1>1, OwnerLands DEF LandUnmark, Ops
<1>3. /\ progress' = None /\ Answered(p, f, "done")
      /\ UNCHANGED <<metrics, chunks, holderCount, keys, lease, env>>
  BY <1>1 DEF LandUnmark
<1>4. Marked' /\ Complete'
  BY <1>3 DEF ImportInv, Marked, Complete, StartingPointIsComplete
<1>5. /\ metrics' \in Ready \union {None, Stale} /\ progress' \in Marker \union {None}
      /\ chunks' \in SUBSET Chunk /\ holderCount' \in 0..NUtxo
  BY <1>3 DEF ImportInv, ImportTypeOK
<1>6. ownerKey' = p /\ scannerKey' \in Token /\ UNCHANGED <<lease, env>>
  BY <1>2, <1>3 DEF keys
<1> QED
  BY <1>2, <1>3, <1>4, <1>5, <1>6, LandingInv

LEMMA LandInv ==
    ASSUME ImportInv, NEW p \in Proc, Land(p)
    PROVE  ImportInv'
BY ClaimInv, ClearInv, MarkInv, MintInv, UtxoInv, BlocksInv, CommitInv, UnmarkInv DEF Land

(* Who moves data holds both tokens; only a starting point that is taken   *)
(* back and a marker that is removed need none.                            *)
LEMMA LandWrites ==
    ASSUME ImportInv, NEW p \in Proc, Land(p)
    PROVE  \/ ownerKey = p /\ scannerKey = ScannerOwner(p) /\ req[p] = "watched"
           \/ UNCHANGED store
<1>1. CASE LandClaim(p)
  BY <1>1 DEF LandClaim
<1>2. CASE ~LandClaim(p)
  <2>1. PICK o \in Ops \ {"claim"} : Lands(p, o)
    BY <1>2 DEF Land, LandClear, LandMark, LandMint, LandUtxo, LandBlocks, LandCommit, LandUnmark, Ops
  <2> QED
    BY <2>1, OwnerLands DEF Lands
<1> QED
  BY <1>1, <1>2

-----------------------------------------------------------------------------
(***************************************************************************)
(* The steps that store nothing.                                           *)
(***************************************************************************)

(* A process starts an import: the cursors are those of the marker.        *)
LEMMA CaptureInv ==
    ASSUME ImportInv, NEW p \in Proc, Capture(p)
    PROVE  ImportInv'
<1> USE DEF ImportInv
<1>1. PICK g : g = Captured
  OBVIOUS
<1>2. /\ pc[p] \in {"down", "locked"} /\ req[p] = "none" /\ Admissible(p)
      /\ req' = [req EXCEPT ![p] = "sent"]
      /\ Goes(p, "call", "sent", g)
      /\ UNCHANGED <<store, keys, lease, env>>
  BY <1>1 DEF Capture
<1>3. PICK at : at = IF progress = None THEN [md |-> 0, utxo |-> 0] ELSE progress
  OBVIOUS
<1>4. g = [op |-> "claim", image |-> [metrics |-> metrics, progress |-> progress],
           scanner |-> scannerKey, cand |-> published,
           from |-> at.utxo, md |-> at.md, utxo |-> at.utxo]
  BY <1>1, <1>3 DEF Captured
<1>5. at.md \in 0..NMint /\ at.utxo \in 0..NUtxo
  BY <1>3, SnapshotAssumption DEF ImportTypeOK, Marker
<1>6. g \in Frame /\ g.from <= g.utxo /\ g.op = "claim"
  <2>1. [metrics |-> metrics, progress |-> progress] \in Image
    BY DEF ImportTypeOK, Image
  <2> QED
    BY <1>4, <1>5, <2>1 DEF ImportTypeOK, Frame
<1>7. Claiming(g)
  <2>1. PICK i : i = [metrics |-> metrics, progress |-> progress]
    OBVIOUS
  <2>2. i \in Image /\ i.metrics = metrics /\ i.progress = progress
    BY <2>1 DEF ImportTypeOK, Image
  <2>3. g.image = i /\ g.cand = published /\ g.md = at.md /\ g.utxo = at.utxo
    BY <1>4, <2>1
  <2>4. Recover \/ metrics \notin Ready
    BY <1>2 DEF Admissible, WantsImport
  <2>5. Fits(published)
    BY <1>2 DEF Admissible
  <2>6. published = None => metrics = None /\ progress = None
    BY <2>5 DEF Fits
  <2>7. CASE progress = None
    <3>1. g.md = 0 /\ g.utxo = 0
      BY <1>3, <2>3, <2>7
    <3> QED
      BY <2>2, <2>3, <2>4, <2>6, <2>7, <3>1 DEF Claiming
  <2>8. CASE progress # None
    <3>1. progress \in Marker /\ at = progress /\ progress.snap = published
      BY <1>3, <2>5, <2>6, <2>8 DEF Fits, ImportTypeOK
    <3>2. progress = [snap |-> g.cand, md |-> g.md, utxo |-> g.utxo] /\ g.cand \in Snapshot
      BY <2>3, <3>1 DEF Marker
    <3> QED
      BY <2>2, <2>3, <2>4, <2>6, <2>8, <3>2 DEF Claiming
  <2> QED
    BY <2>7, <2>8
<1>8. "call" \in PCs /\ "sent" \in Reqs /\ "sent" # "none"
  BY DEF PCs, Reqs
<1>9. /\ pc' \in [Proc -> PCs] /\ frame' \in [Proc -> Frame] /\ Counted'
      /\ \A q \in Proc : q # p => frame'[q] = frame[q] /\ req'[q] = req[q]
      /\ frame'[p] = g /\ req'[p] = "sent" /\ req' \in [Proc -> Reqs]
  BY <1>2, <1>6, <1>8, GoesFact DEF ImportTypeOK, Reqs
<1>10. /\ UNCHANGED <<metrics, progress, chunks, holderCount, ownerKey, scannerKey, lease>>
       /\ UNCHANGED <<published, resetting, events>>
  BY <1>2 DEF store, cache, keys, env
<1>11. ImportTypeOK'
  BY <1>9, <1>10 DEF ImportTypeOK, PCs, Reqs
<1>12. Watching'
  <2> SUFFICES ASSUME NEW q \in Proc, req'[q] = "watched"
               PROVE  Holds(q)'
    BY DEF Watching
  <2>1. q # p /\ Holds(q)
    BY <1>9 DEF Watching
  <2> QED
    BY <1>9, <1>10, <2>1, StillHolds DEF keys
<1>13. Claims'
  BY <1>7, <1>9 DEF Claims, Calling
<1>14. Owned'
  <2> SUFFICES ASSUME NEW q \in Proc, ownerKey = q, req'[q] # "none", frame'[q].op # "claim"
               PROVE  Position(frame[q])' 
    BY <1>10 DEF Owned, Calling
  <2>1. q # p
    BY <1>6, <1>9
  <2>2. PICK f : f = frame[q]
    OBVIOUS
  <2>3. Position(f) /\ frame'[q] = f
    BY <1>9, <2>1, <2>2 DEF Owned, Calling
  <2>4. Position(f)'
    BY <1>10, <2>3 DEF Position, Unready
  <2> QED
    BY <2>3, <2>4
<1>15. Marked' /\ Complete'
  BY <1>10 DEF Marked, Complete, StartingPointIsComplete
<1> QED
  BY <1>9, <1>11, <1>12, <1>13, <1>14, <1>15

(* A step that leaves the calls alone or touches them, moves one process   *)
(* and gives up keys or takes a free lease.                                *)
LEMMA MoveInv ==
    ASSUME ImportInv,
           UNCHANGED <<store, frame, published, resetting>>,
           req' = Touch(req) \/ (req' = req /\ keys' = keys),
           ownerKey' \in {ownerKey, None}, scannerKey' \in Token,
           pc' \in [Proc -> PCs], lease' \in [Proc -> BOOLEAN], events' \in 0..MaxEvents
    PROVE  ImportInv'
<1> USE DEF ImportInv
<1>1. UNCHANGED <<metrics, progress, chunks, holderCount>>
  BY DEF store, cache
<1>2. req \in [Proc -> Reqs] /\ frame' \in [Proc -> Frame] /\ Counted'
  BY DEF ImportTypeOK, Reqs, Counted
<1>3. req' \in [Proc -> Reqs] /\ \A q \in Proc : req'[q] # "none" => req[q] # "none"
  BY <1>2, TouchFact
<1>4. ASSUME NEW q \in Proc, req'[q] = "watched"
      PROVE  Holds(q)'
  <2>1. req' = req /\ keys' = keys
    BY <1>2, <1>4, TouchFact
  <2>2. Holds(q)
    BY <1>4, <2>1 DEF Watching
  <2> QED
    BY <1>1, <2>1, <2>2, StillHolds
<1>5. published' \in Snapshot \union {None} /\ resetting' \in BOOLEAN
  BY DEF ImportTypeOK
<1> HIDE DEF ImportInv
<1> QED
  BY <1>1, <1>2, <1>3, <1>4, <1>5, QuietInv

(* A step that ends or keeps p's call, and keeps all others.               *)
LEMMA EndInv ==
    ASSUME ImportInv, NEW p \in Proc, NEW w \in PCs, NEW r \in {"none", req[p]},
           Goes(p, w, r, frame[p]), req' = [req EXCEPT ![p] = r],
           UNCHANGED <<store, keys, published, resetting>>,
           lease' \in [Proc -> BOOLEAN], events' \in 0..MaxEvents
    PROVE  ImportInv'
<1> USE DEF ImportInv
<1>1. UNCHANGED <<metrics, progress, chunks, holderCount, ownerKey, scannerKey>>
  BY DEF store, cache, keys
<1>2. PICK g \in Frame : g = frame[p]
  BY DEF ImportTypeOK
<1>3. g.from <= g.utxo /\ r \in Reqs /\ Goes(p, w, r, g)
  BY <1>2 DEF Counted, ImportTypeOK, Reqs
<1>4. /\ pc' \in [Proc -> PCs] /\ frame' \in [Proc -> Frame] /\ Counted'
      /\ \A q \in Proc : q # p => frame'[q] = frame[q]
      /\ r # "none" => frame'[p] = frame[p]
  BY <1>2, <1>3, GoesFact
<1>5. /\ req' \in [Proc -> Reqs]
      /\ \A q \in Proc : req'[q] # "none" => req[q] = req'[q] /\ frame'[q] = frame[q]
  BY <1>3, <1>4 DEF ImportTypeOK, Reqs
<1>6. ASSUME NEW q \in Proc, req'[q] = "watched"
      PROVE  Holds(q)'
  BY <1>1, <1>5, <1>6, StillHolds DEF Watching, keys
<1>7. /\ published' \in Snapshot \union {None} /\ resetting' \in BOOLEAN /\ scannerKey' \in Token
  BY <1>1 DEF ImportTypeOK
<1> HIDE DEF ImportInv
<1> QED
  BY <1>1, <1>4, <1>5, <1>6, <1>7, QuietInv

(* A step that takes back the starting point or the marker touches the     *)
(* claims and nothing else.                                                *)
LEMMA ResetInv ==
    ASSUME ImportInv,
           metrics' \in {metrics, Stale}, progress' \in {progress, None},
           UNCHANGED <<chunks, holderCount, keys, lease, frame, published>>,
           req' = TouchClaims, pc' \in [Proc -> PCs],
           resetting' \in BOOLEAN, events' \in 0..MaxEvents
    PROVE  ImportInv'
<1> USE DEF ImportInv
<1>1. UNCHANGED <<ownerKey, scannerKey>>
  BY DEF keys
<1>2. /\ req' \in [Proc -> Reqs]
      /\ \A q \in Proc : /\ req'[q] # "none" => req[q] # "none"
                         /\ req'[q] = "watched" => req[q] = "watched" /\ frame[q].op # "claim"
  BY TouchClaimsFact
<1>3. ASSUME NEW q \in Proc, req'[q] = "watched"
      PROVE  Holds(q)'
  BY <1>2, <1>3, StillHolds DEF Watching
<1>4. /\ frame' \in [Proc -> Frame] /\ Counted' /\ lease' \in [Proc -> BOOLEAN]
      /\ published' \in Snapshot \union {None} /\ scannerKey' \in Token
  BY <1>1 DEF ImportTypeOK, Counted
<1> HIDE DEF ImportInv
<1> QED
  BY <1>1, <1>2, <1>3, <1>4, QuietInv

(* p's transaction has read both its tokens, or the images of its claim.   *)
LEMMA WatchInv ==
    ASSUME ImportInv, NEW p \in Proc, Watch(p)
    PROVE  ImportInv'
<1> USE DEF ImportInv
<1>1. /\ req[p] = "sent" /\ Holds(p) /\ req' = [req EXCEPT ![p] = "watched"]
      /\ UNCHANGED <<metrics, progress, chunks, holderCount, ownerKey, scannerKey, pc, lease, frame>>
      /\ UNCHANGED <<published, resetting, events>>
  BY DEF Watch, store, cache, keys, env
<1>2. /\ req' \in [Proc -> Reqs]
      /\ \A q \in Proc : req'[q] = IF q = p THEN "watched" ELSE req[q]
  BY <1>1 DEF ImportTypeOK, Reqs
<1>3. ASSUME NEW q \in Proc, req'[q] = "watched"
      PROVE  Holds(q)'
  <2>1. Holds(q)
    BY <1>1, <1>2, <1>3 DEF Watching
  <2> QED
    BY <1>1, <2>1, StillHolds DEF keys
<1>4. /\ frame' \in [Proc -> Frame] /\ Counted' /\ lease' \in [Proc -> BOOLEAN] /\ pc' \in [Proc -> PCs]
      /\ published' \in Snapshot \union {None} /\ scannerKey' \in Token
      /\ resetting' \in BOOLEAN /\ events' \in 0..MaxEvents
  BY <1>1 DEF ImportTypeOK, Counted, PCs
<1> HIDE DEF ImportInv
<1> QED
  BY <1>1, <1>2, <1>3, <1>4, QuietInv

(* p gives up what is still its own.                                       *)
LEMMA ReleaseInv ==
    ASSUME ImportInv, NEW p \in Proc, Release(p)
    PROVE  ImportInv'
<1> USE DEF ImportInv
<1>1. PICK g \in Frame : g = frame[p]
  BY DEF ImportTypeOK
<1>2. /\ req' = Touch(req) \/ (req' = req /\ keys' = keys)
      /\ Goes(p, Leave(p), req[p], g)
      /\ UNCHANGED <<metrics, progress, chunks, holderCount, lease, published, resetting, events>>
      /\ ownerKey' \in {ownerKey, None} /\ scannerKey' \in {scannerKey, None}
  BY <1>1 DEF Release, store, cache, env
<1>3. Leave(p) \in PCs /\ req[p] \in Reqs /\ g.from <= g.utxo
  BY <1>1 DEF Leave, PCs, Reqs, ImportTypeOK, Counted
<1>4. /\ pc' \in [Proc -> PCs] /\ frame' \in [Proc -> Frame] /\ Counted'
      /\ \A q \in Proc : req[q] # "none" => frame'[q] = frame[q]
  BY <1>1, <1>2, <1>3, GoesFact
<1>5. req \in [Proc -> Reqs]
  BY DEF ImportTypeOK, Reqs
<1>6. req' \in [Proc -> Reqs] /\ \A q \in Proc : req'[q] # "none" => req[q] # "none"
  BY <1>2, <1>5, TouchFact
<1>7. ASSUME NEW q \in Proc, req'[q] = "watched"
      PROVE  Holds(q)'
  <2>1. req' = req /\ keys' = keys
    BY <1>2, <1>5, <1>7, TouchFact
  <2>2. Holds(q) /\ frame'[q] = frame[q]
    BY <1>4, <1>7, <2>1 DEF Watching
  <2> QED
    BY <1>2, <2>1, <2>2, StillHolds
<1>8. /\ lease' \in [Proc -> BOOLEAN] /\ scannerKey' \in Token
      /\ published' \in Snapshot \union {None} /\ resetting' \in BOOLEAN /\ events' \in 0..MaxEvents
  BY <1>2, TokenFact DEF ImportTypeOK, Token
<1> HIDE DEF ImportInv
<1> QED
  BY <1>2, <1>4, <1>6, <1>7, <1>8, QuietInv

(* Every step of a process keeps the invariant.                            *)
LEMMA StepInv ==
    ASSUME ImportInv, NEW p \in Proc, Step(p)
    PROVE  ImportInv'
<1>1. /\ lease \in [Proc -> BOOLEAN] /\ events \in 0..MaxEvents /\ pc \in [Proc -> PCs]
      /\ scannerKey \in Token /\ None \in Token /\ Scan(p) \in Token /\ resetting \in BOOLEAN
      /\ req[p] \in Reqs
  BY TokenFact DEF ImportInv, ImportTypeOK, PCs, Reqs
<1>2. \A w \in PCs : [pc EXCEPT ![p] = w] \in [Proc -> PCs]
  BY <1>1
<1>3. "ready" \in PCs /\ "end" \in PCs /\ "down" \in PCs /\ "leave" \in PCs /\ "locked" \in PCs
  BY DEF PCs
<1>4. CASE AcquireLease(p)
  <2>1. /\ UNCHANGED <<store, frame, published, resetting>> /\ req' = Touch(req)
        /\ ownerKey' = ownerKey /\ scannerKey' \in Token /\ events' \in 0..MaxEvents
        /\ pc' \in [Proc -> PCs]
    BY <1>1, <1>2, <1>3, <1>4 DEF AcquireLease, env
  <2>2. lease' \in [Proc -> BOOLEAN]
    BY <1>1, <1>4 DEF AcquireLease
  <2> QED
    BY <2>1, <2>2, MoveInv
<1>5. CASE Lock(p)
  <2>1. UNCHANGED <<keys, lease, frame, env>> /\ pc' \in [Proc -> PCs]
    BY <1>2, <1>3, <1>5 DEF Lock
  <2>2. CASE metrics \in Ready
    BY <1>1, <1>5, <2>1, <2>2, MoveInv DEF Lock, env, keys
  <2>3. CASE metrics \notin Ready
    <3>1. WriteLock
      BY <1>5, <2>3 DEF Lock
    <3> QED
      BY <1>1, <2>1, <3>1, ResetInv DEF WriteLock, env
  <2> QED
    BY <2>2, <2>3
<1>6. CASE Unlock(p)
  <2>1. UNCHANGED <<keys, lease, frame, env>> /\ pc' \in [Proc -> PCs] /\ WriteLock
    BY <1>2, <1>3, <1>6 DEF Unlock
  <2> QED
    BY <1>1, <2>1, ResetInv DEF WriteLock, env
<1>7. CASE Refuse(p)
  <2>1. UNCHANGED <<store, keys, lease, frame, req, env>> /\ pc' \in [Proc -> PCs]
    BY <1>2, <1>3, <1>7 DEF Refuse
  <2> QED
    BY <1>1, <2>1, MoveInv DEF env, keys
<1>8. CASE ReleaseLease(p)
  <2>1. /\ UNCHANGED <<store, frame, published, resetting, events>> /\ pc' \in [Proc -> PCs]
        /\ ownerKey' = ownerKey /\ scannerKey' \in Token
    BY <1>1, <1>2, <1>3, <1>8 DEF ReleaseLease, env
  <2>2. req' = Touch(req) \/ (req' = req /\ keys' = keys)
    BY <1>8 DEF ReleaseLease, keys
  <2>3. lease' \in [Proc -> BOOLEAN]
    BY <1>1, <1>8 DEF ReleaseLease
  <2> QED
    BY <1>1, <2>1, <2>2, <2>3, MoveInv
<1>9. CASE Fail(p)
  <2>1. Thrown(p) \in PCs
    BY <1>1 DEF Thrown, Leave, PCs
  <2> QED
    BY <1>1, <1>9, <2>1, EndInv DEF Fail, env
<1> QED
  BY <1>4, <1>5, <1>6, <1>7, <1>8, <1>9, CaptureInv, ReleaseInv, WatchInv, LandInv DEF Step

(* What happens to processes and keys keeps it too.                        *)
LEMMA EventInv ==
    ASSUME ImportInv,
           \/ \E p \in Proc : TimeOut(p) \/ Crash(p) \/ Drop(p)
           \/ Lapse \/ Lose \/ PublishSnapshot \/ ResetMetrics \/ ResetProgress
    PROVE  ImportInv'
<1>1. /\ lease \in [Proc -> BOOLEAN] /\ events \in 0..MaxEvents /\ pc \in [Proc -> PCs]
      /\ scannerKey \in Token /\ None \in Token /\ resetting \in BOOLEAN
      /\ req \in [Proc -> Reqs]
  BY TokenFact DEF ImportInv, ImportTypeOK, PCs, Reqs, Token
<1>2. Event => events' \in 0..MaxEvents
  BY <1>1, ProcAssumption DEF Event
<1>3. ASSUME NEW p \in Proc, TimeOut(p)
      PROVE  ImportInv'
  <2>1. Thrown(p) \in PCs
    BY <1>1 DEF Thrown, Leave, PCs
  <2>2. req' = [req EXCEPT ![p] = req[p]]
    BY <1>1, <1>3 DEF TimeOut
  <2> QED
    BY <1>1, <1>2, <1>3, <2>1, <2>2, EndInv DEF TimeOut
<1>4. ASSUME NEW p \in Proc, Crash(p)
      PROVE  ImportInv'
  <2>1. req' = [req EXCEPT ![p] = req[p]] /\ lease' \in [Proc -> BOOLEAN] /\ "down" \in PCs
    BY <1>1, <1>4 DEF Crash, PCs
  <2> QED
    BY <1>2, <1>4, <2>1, EndInv DEF Crash
<1>5. ASSUME NEW p \in Proc, Drop(p)
      PROVE  ImportInv'
  BY <1>1, <1>5, EndInv DEF Drop, env
<1>6. CASE Lapse \/ Lose
  <2>1. /\ ownerKey' \in {ownerKey, None} /\ scannerKey' \in {scannerKey, None}
        /\ req' = Touch(req) /\ events' \in 0..MaxEvents
        /\ UNCHANGED <<store, pc, lease, frame, published, resetting>>
    BY <1>1, <1>2, <1>6 DEF Lapse, Lose, OwnerGone, ScannerGone, env
  <2> QED
    BY <1>1, <2>1, MoveInv
<1>7. CASE PublishSnapshot
  <2> USE DEF ImportInv
  <2>1. /\ UNCHANGED <<metrics, progress, chunks, holderCount, ownerKey, scannerKey>>
        /\ UNCHANGED <<pc, lease, frame, req, resetting>> /\ published' \in Snapshot
    BY <1>7 DEF PublishSnapshot, store, cache, keys, procs
  <2>2. ASSUME NEW q \in Proc, req'[q] = "watched"
        PROVE  Holds(q)'
    BY <2>1, <2>2, StillHolds DEF Watching, keys
  <2>3. events' \in 0..MaxEvents
    BY <1>2, <1>7 DEF PublishSnapshot
  <2>4. frame' \in [Proc -> Frame] /\ Counted'
    BY <2>1 DEF ImportTypeOK, Counted
  <2> HIDE DEF ImportInv
  <2> QED
    BY <1>1, <2>1, <2>2, <2>3, <2>4, QuietInv
<1>8. CASE ResetMetrics
  BY <1>1, <1>2, <1>8, ResetInv DEF ResetMetrics
<1>9. CASE ResetProgress
  BY <1>1, <1>9, ResetInv DEF ResetProgress
<1> QED
  BY <1>3, <1>4, <1>5, <1>6, <1>7, <1>8, <1>9

-----------------------------------------------------------------------------
(***************************************************************************)
(* Theorems.                                                               *)
(***************************************************************************)

(* The initial states: nobody runs, and the cache is empty or complete.    *)
LEMMA InitInv == ImportInit => ImportInv
<1> SUFFICES ASSUME ImportInit PROVE ImportInv
  OBVIOUS
<1> USE DEF ImportInit, CacheInit
<1>1. Stale \notin Ready /\ None \notin Ready /\ NUtxo \in Nat /\ NMint \in Nat
  BY SnapshotAssumption DEF Ready, Source
<1>2. chunks \in SUBSET Chunk
  BY <1>1, PrefixType DEF Source
<1>3. Idle \in Frame /\ Idle.from = 0 /\ Idle.utxo = 0
  BY SnapshotAssumption DEF Idle, Frame, Token
<1>4. metrics \in Ready \union {None, Stale} /\ holderCount \in 0..NUtxo
  BY <1>1 DEF Ready
<1>5. ImportTypeOK
  <2>1. frame \in [Proc -> Frame]
    BY <1>3
  <2>2. events \in 0..MaxEvents
    BY ProcAssumption
  <2> QED
    BY <1>2, <1>4, <2>1, <2>2 DEF ImportTypeOK, Token
<1>6. Watching /\ Claims /\ Owned /\ Marked
  BY DEF Watching, Claims, Owned, Marked, Calling
<1>7. Complete
  BY <1>1 DEF Complete, StartingPointIsComplete, Ready
<1>8. Counted
  BY <1>3 DEF Counted
<1> QED
  BY <1>5, <1>6, <1>7, <1>8 DEF ImportInv

(* The inductive invariant holds in every reachable state.                 *)
THEOREM ImportInvariant == ImportSpec => []ImportInv
<1>1. ImportInit => ImportInv
  BY InitInv
<1>2. ImportInv /\ [ImportNext]_importVars => ImportInv'
  <2> SUFFICES ASSUME ImportInv, [ImportNext]_importVars PROVE ImportInv'
    OBVIOUS
  <2>1. CASE ImportNext
    BY <2>1, StepInv, EventInv DEF ImportNext
  <2>2. CASE UNCHANGED importVars
    <3>1. UNCHANGED <<store, keys, pc, lease, frame, req, published, resetting, events>>
      BY <2>2 DEF importVars, procs, env
    <3>2. /\ lease \in [Proc -> BOOLEAN] /\ events \in 0..MaxEvents /\ pc \in [Proc -> PCs]
          /\ scannerKey \in Token
      BY DEF ImportInv, ImportTypeOK, PCs
    <3> QED
      BY <3>1, <3>2, MoveInv DEF keys
  <2> QED
    BY <2>1, <2>2
<1> QED
  BY <1>1, <1>2, PTL DEF ImportSpec

(* Variables keep their types (ImportTypeOK).                              *)
THEOREM ImportTypeCorrect == ImportSpec => []ImportTypeOK
BY ImportInvariant, PTL DEF ImportInv

(* What the marker counts is part of what it may find, and no other        *)
(* snapshot is.                                                            *)
LEMMA ReachedIsBacked ==
    ASSUME NEW s \in Snapshot, NEW m \in 0..NMint, NEW u \in 0..NUtxo, NEW d \in Reached(s, m, u)
    PROVE  Prefix(s, m, u) \subseteq d /\ \A c \in d : c[1] = s
<1>1. m \in Nat /\ u \in Nat /\ NMint \in Nat /\ NUtxo \in Nat
  BY SnapshotAssumption
<1>2. \A i, j \in Nat : \A c \in Prefix(s, i, j) : c[1] = s
  BY DEF Prefix
<1>3. \A c \in Whole(s) : c[1] = s
  BY <1>1, <1>2 DEF Whole
<1>4. \A c \in d : c[1] = s
  BY <1>1, <1>2, <1>3 DEF Reached, Extended
<1>5. Prefix(s, m, u) \subseteq d
  <2>1. 1..m \subseteq 1..(m + 1) /\ 1..u \subseteq 1..(u + 1)
        /\ 1..m \subseteq 1..NMint /\ 1..u \subseteq 1..NUtxo
    BY <1>1
  <2>2. /\ Prefix(s, m, u) \subseteq Prefix(s, m + 1, u)
        /\ Prefix(s, m, u) \subseteq Prefix(s, m, u + 1)
        /\ Prefix(s, m, u) \subseteq Whole(s)
    BY <2>1 DEF Prefix, Whole
  <2> QED
    BY <2>2 DEF Reached, Extended
<1> QED
  BY <1>4, <1>5

(* The marker of any reachable state counts only chunks that are stored,   *)
(* over data of its own snapshot (MarkerIsBacked).                         *)
THEOREM MarkerCorrect == ImportSpec => []MarkerIsBacked
<1>1. ImportInv => MarkerIsBacked
  <2> SUFFICES ASSUME ImportInv, progress # None
               PROVE  /\ Prefix(progress.snap, progress.md, progress.utxo) \subseteq chunks
                      /\ \A c \in chunks : c[1] = progress.snap
    BY DEF MarkerIsBacked
  <2>1. progress.snap \in Snapshot /\ progress.md \in 0..NMint /\ progress.utxo \in 0..NUtxo
    BY DEF ImportInv, ImportTypeOK, Marker
  <2>2. chunks \in Reached(progress.snap, progress.md, progress.utxo)
    BY DEF ImportInv, Marked
  <2> QED
    BY <2>1, <2>2, ReachedIsBacked
<1> QED
  BY <1>1, ImportInvariant, PTL

(* Where no import replaces a valid starting point, a starting point in    *)
(* any reachable state stands over the data it names                       *)
(* (StartingPointIsComplete).                                              *)
THEOREM StartingPointCorrect ==
    ASSUME ~Recover
    PROVE  ImportSpec => []StartingPointIsComplete
<1>1. ImportInv => StartingPointIsComplete
  BY DEF ImportInv, Complete
<1> QED
  BY <1>1, ImportInvariant, PTL

(* Only one transaction at a time is past its checks (OneWriter).          *)
THEOREM OneWriterCorrect == ImportSpec => []OneWriter
<1>1. ImportInv => OneWriter
  BY DEF ImportInv, Watching, Holds, FenceHolds, OneWriter, CouldWrite
<1> QED
  BY <1>1, ImportInvariant, PTL

-----------------------------------------------------------------------------
(* A step that is not an EXEC stores nothing: at most one of the starting  *)
(* point and the marker is taken back.                                     *)
LEMMA QuietStep ==
    ASSUME ImportNext, ~ \E p \in Proc : Land(p)
    PROVE  /\ UNCHANGED <<chunks, holderCount>>
           /\ \/ UNCHANGED <<metrics, progress>>
              \/ metrics' = Stale /\ UNCHANGED progress
              \/ progress' = None /\ UNCHANGED metrics
<1> USE DEF store, cache
<1>1. ASSUME NEW p \in Proc, Step(p)
      PROVE  UNCHANGED <<chunks, holderCount, progress>> /\ metrics' \in {metrics, Stale}
  <2>1. CASE Lock(p) \/ Unlock(p)
    BY <2>1 DEF Lock, Unlock, WriteLock
  <2>2. CASE ~(Lock(p) \/ Unlock(p))
    BY <1>1, <2>2 DEF Step, AcquireLease, Capture, Refuse, Release, ReleaseLease, Watch, Fail
  <2> QED
    BY <2>1, <2>2
<1>2. ASSUME NEW p \in Proc, TimeOut(p) \/ Crash(p) \/ Drop(p)
      PROVE  UNCHANGED <<metrics, progress, chunks, holderCount>>
  BY <1>2 DEF TimeOut, Crash, Drop
<1>3. CASE Lapse \/ Lose \/ PublishSnapshot
  BY <1>3 DEF Lapse, Lose, PublishSnapshot
<1>4. CASE ResetMetrics \/ ResetProgress
  BY <1>4 DEF ResetMetrics, ResetProgress
<1> QED
  BY <1>1, <1>2, <1>3, <1>4 DEF ImportNext

(* Every step that changes the data, moves the marker or sets a starting   *)
(* point is taken by an invocation that holds both tokens                  *)
(* (OnlyTheOwnerWrites).                                                   *)
THEOREM OnlyTheOwnerWritesCorrect == ImportSpec => OnlyTheOwnerWrites
<1> DEFINE A ==
      (\/ <<chunks, holderCount>>' # <<chunks, holderCount>>
       \/ metrics' # metrics /\ metrics' # Stale
       \/ progress' # progress /\ progress' # None)
      => \E p \in Proc : ownerKey = p /\ scannerKey = ScannerOwner(p) /\ req[p] = "watched"
<1>1. ImportInv /\ [ImportNext]_importVars => [A]_importVars
  <2> SUFFICES ASSUME ImportInv, ImportNext PROVE A
    OBVIOUS
  <2>1. CASE \E p \in Proc : Land(p)
    <3>1. PICK p \in Proc : Land(p)
      BY <2>1
    <3>2. \/ ownerKey = p /\ scannerKey = ScannerOwner(p) /\ req[p] = "watched"
          \/ UNCHANGED store
      BY <3>1, LandWrites
    <3> QED
      BY <3>2 DEF store, cache
  <2>2. CASE ~ \E p \in Proc : Land(p)
    BY <2>2, QuietStep
  <2> QED
    BY <2>1, <2>2
<1>2. [][A]_importVars <=> OnlyTheOwnerWrites
  BY PTL DEF OnlyTheOwnerWrites
<1> HIDE DEF A
<1> QED
  BY <1>1, <1>2, ImportInvariant, PTL DEF ImportSpec

-----------------------------------------------------------------------------
(***************************************************************************)
(* The import implements the cache.                                        *)
(***************************************************************************)

(* A replayed chunk is the next one, or is stored again.                   *)
LEMMA ReplayRefines ==
    ASSUME ~Recover, ImportInv, NEW p \in Proc, NEW o \in {"mint", "utxo", "blocks"}, Lands(p, o),
           NEW k, chunks' = chunks \union {<<frame[p].cand, o, k>>},
           o = "mint" => k = frame[p].md + 1,
           o = "utxo" => k = frame[p].utxo + 1,
           o = "blocks" => k = 1,
           UNCHANGED <<metrics, progress>>
    PROVE  [CacheNext]_cache
<1>1. PICK f \in Frame : f = frame[p]
  BY DEF ImportInv, ImportTypeOK
<1>2. /\ f.cand \in Snapshot /\ Unready /\ (f.utxo = 0 \/ f.md = NMint)
      /\ f.md \in 0..NMint /\ f.utxo \in 0..NUtxo
      /\ o = "mint" => f.md < NMint
      /\ o = "utxo" => f.md = NMint /\ f.utxo < NUtxo
      /\ o = "blocks" => f.md = NMint /\ f.utxo = NUtxo
      /\ chunks \in Reached(f.cand, f.md, f.utxo)
  BY <1>1, NextChunk DEF Frame
<1>3. chunks' = Extended(f.cand, f.md, f.utxo)
  BY <1>1, <1>2, Stores
<1>4. CASE chunks = Extended(f.cand, f.md, f.utxo)
  BY <1>3, <1>4 DEF cache
<1>5. CASE chunks = Prefix(f.cand, f.md, f.utxo)
  <2>1. metrics \notin Ready /\ Before(f.cand, f.md, f.utxo)
    BY <1>2 DEF Unready, Before
  <2>2. \/ f.md < NMint /\ chunks' = Prefix(f.cand, f.md + 1, f.utxo)
        \/ f.md = NMint /\ f.utxo < NUtxo /\ chunks' = Prefix(f.cand, f.md, f.utxo + 1)
        \/ f.md = NMint /\ f.utxo = NUtxo /\ chunks' = Whole(f.cand)
    BY <1>2, <1>3, SnapshotAssumption DEF Extended
  <2>3. Store
    BY <1>2, <1>5, <2>1, <2>2 DEF Store
  <2> QED
    BY <2>3 DEF CacheNext
<1> QED
  BY <1>2, <1>4, <1>5 DEF Reached

(* Every EXEC is a step of the cache, or leaves it alone.                  *)
LEMMA LandRefines ==
    ASSUME ~Recover, ImportInv, NEW p \in Proc, Land(p)
    PROVE  [CacheNext]_cache
<1>1. PICK f \in Frame : f = frame[p]
  BY DEF ImportInv, ImportTypeOK
<1>2. f.cand \in Snapshot \union {None} /\ f.md \in 0..NMint /\ f.utxo \in 0..NUtxo
  BY DEF Frame
<1>3. \A o \in Ops \ {"claim"} : Lands(p, o) =>
        /\ Position(f) /\ f.op = o
        /\ o # "unmark" => metrics \notin Ready
  BY <1>1, OwnerLands DEF Lands, Position, Unready
<1>4. CASE LandClaim(p)
  BY <1>4 DEF LandClaim, store
<1>5. CASE LandClear(p)
  <2>1. progress = None /\ metrics \notin Ready
    BY <1>3, <1>5 DEF LandClear, Position, Ops
  <2>2. Clear
    BY <1>5, <2>1 DEF LandClear, Clear
  <2> QED
    BY <2>2 DEF CacheNext
<1>6. CASE LandMark(p)
  <2>1. /\ metrics \notin Ready /\ f.cand \in Snapshot
        /\ chunks = Prefix(f.cand, f.md, f.utxo) /\ Before(f.cand, f.md, f.utxo)
    BY <1>2, <1>3, <1>6 DEF LandMark, Position, Before, Ops
  <2>2. /\ progress' = [snap |-> f.cand, md |-> f.md, utxo |-> f.utxo]
        /\ UNCHANGED <<metrics, chunks>>
    BY <1>1, <1>6 DEF LandMark
  <2>3. Mark
    BY <1>2, <2>1, <2>2 DEF Mark
  <2> QED
    BY <2>3 DEF CacheNext
<1>7. CASE LandMint(p)
  BY <1>7, ReplayRefines DEF LandMint
<1>8. CASE LandUtxo(p)
  BY <1>8, ReplayRefines DEF LandUtxo
<1>9. CASE LandBlocks(p)
  BY <1>9, ReplayRefines DEF LandBlocks
<1>10. CASE LandCommit(p)
  <2>1. /\ metrics \notin Ready
        /\ IF f.cand = None THEN chunks = {} /\ progress = None ELSE chunks = Whole(f.cand)
    BY <1>3, <1>10 DEF LandCommit, Position, Ops
  <2>2. /\ metrics' = IF f.cand = None THEN Genesis ELSE f.cand
        /\ UNCHANGED <<progress, chunks>>
    BY <1>1, <1>10 DEF LandCommit
  <2>3. Publish
    BY <1>2, <2>1, <2>2 DEF Publish
  <2> QED
    BY <2>3 DEF CacheNext
<1>11. CASE LandUnmark(p)
  BY <1>11 DEF LandUnmark, Forget, CacheNext
<1> QED
  BY <1>4, <1>5, <1>6, <1>7, <1>8, <1>9, <1>10, <1>11 DEF Land

(* Where no import replaces a valid starting point, any number of          *)
(* invocations that die, time out and lose their leases do to the cache    *)
(* what one careful importer would (CacheSpec).                            *)
THEOREM ImportImplementsCache ==
    ASSUME ~Recover
    PROVE  ImportSpec => CacheSpec
<1>1. ImportInit => CacheInit
  BY DEF ImportInit
<1>2. ImportInv /\ [ImportNext]_importVars => [CacheNext]_cache
  <2> SUFFICES ASSUME ImportInv, [ImportNext]_importVars PROVE [CacheNext]_cache
    OBVIOUS
  <2>1. CASE UNCHANGED importVars
    BY <2>1 DEF importVars, store
  <2>2. CASE \E p \in Proc : Land(p)
    BY <2>2, LandRefines
  <2>3. CASE ImportNext /\ ~ \E p \in Proc : Land(p)
    BY <2>3, QuietStep DEF cache, CacheNext, Reset, Forget
  <2> QED
    BY <2>1, <2>2, <2>3
<1> QED
  BY <1>1, <1>2, ImportInvariant, PTL DEF ImportSpec, CacheSpec

-----------------------------------------------------------------------------
(***************************************************************************)
(* The file built from two providers' answers.  What is asked of a         *)
(* provider is answered from a block no lower than the file's, so an       *)
(* output that is not the one of the file's block shows that the asset     *)
(* moved after it.                                                         *)
(***************************************************************************)
(* An output the asset had from the file's block on; that it moved since;   *)
(* that its output then is recorded, unless it has none or moved.           *)
Was(a, v) == \E k \in Blocks : TStart <= k /\ chain[k][a] = v
Changed(a) == \E k \in Blocks : TStart <= k /\ chain[k][a] # chain[TStart][a]
Known(a) == chain[TStart][a] = 0 \/ <<a, chain[TStart][a]>> \in records \/ Changed(a)

Workers == KoiosWorkers \union BlockfrostWorkers
(* The parts of the invariant: types; the tips are a past of what the       *)
(* providers answer with; nothing is recorded before it is asked for; what  *)
(* is recorded or held was the asset's; nothing listed is forgotten; and    *)
(* the file is what was recorded.                                           *)
ReplySteps == {"tips", "list", "outputs", "mints", "history", "written", "mismatch", "failed"}
ReplyTypes ==
    /\ chain \in Histories /\ height \in [Providers -> Blocks] /\ step \in ReplySteps
    /\ tip \in [Providers -> Nat] /\ rows \subseteq Assets /\ shared \subseteq Assets
    /\ koiosOnly \subseteq Assets /\ records \subseteq Assets \X Blocks
    /\ requests \subseteq [by : Workers, items : SUBSET Assets, held : Nat]
TipsRead ==
    /\ \A p \in Providers : p \in awaited \/ (tip[p] \in Blocks /\ tip[p] <= height[p])
    /\ step \notin {"tips", "failed"} \/ requests # {} => awaited = {}
InOrder ==
    /\ step = "tips" => records = {} /\ rows = {}
    /\ step \notin {"outputs", "failed"} => requests = {}
Truthful ==
    /\ \A o \in records : Was(o[1], o[2])
    /\ \A r \in requests :
          /\ r.by \in BlockfrostWorkers => \E a \in Assets : r.items = {a}
          /\ r.held # 0 => r.by \in BlockfrostWorkers /\ \A a \in r.items : Was(a, r.held)
AllAsked ==
    /\ step = "outputs" => \A a \in rows : \/ a \in shared \union koiosOnly
                                           \/ \E r \in requests : a \in r.items
                                           \/ Known(a)
    /\ step \in {"mints", "history", "written"} => \A a \in rows : Known(a)
Filed == \A f \in file : step = "written" /\ \E known : f = SnapshotFile(known)
BootstrapInv == ReplyTypes /\ TipsRead /\ InOrder /\ Truthful /\ AllAsked /\ Filed

(* A natural number and all after it, for a set. *)
LEMMA UpwardFrom ==
  ASSUME NEW S, NEW m \in Nat, m \in S, \A n \in Nat : m <= n /\ n \in S => n + 1 \in S
  PROVE  \A n \in Nat : m <= n => n \in S
<1> DEFINE T == {n \in Nat : m <= n /\ n \notin S}
           R == OpToRel(<, Nat)
<1> SUFFICES ASSUME T # {} PROVE FALSE  OBVIOUS
<1>1. IsWellFoundedOn(R, Nat)  BY NatLessThanWellFounded
<1>t. T \subseteq Nat  OBVIOUS
<1> HIDE DEF R, T
<1>2. PICK x \in T : \A y \in T : ~(<<y, x>> \in R)  BY <1>1, <1>t, WFMin
<1>3. x \in Nat /\ m <= x /\ x \notin S /\ x # m  BY <1>2 DEF T
<1>4. x - 1 \in Nat /\ m <= x - 1 /\ (x - 1) + 1 = x  BY <1>3
<1>5. x - 1 \notin S  BY <1>3, <1>4
<1>6. x - 1 \in T /\ <<x - 1, x>> \in R  BY <1>3, <1>4, <1>5 DEF T, R, OpToRel
<1> QED  BY <1>2, <1>6

(* What the chain is. *)
LEMMA History ==
  ASSUME NEW c \in Histories, NEW a \in Assets
  PROVE  /\ c[1][a] \in {0, 1}
         /\ \A k \in Nat : k + 1 \in Blocks /\ 1 <= k => c[k + 1][a] \in {0, c[k][a], k + 1}
<1>1. Follows(c, a)  BY BootstrapAssumption
<1>2. MaxBlocks \in Nat \ {0}  BY BootstrapAssumption
<1>3. ASSUME NEW k \in Nat, k + 1 \in Blocks, 1 <= k PROVE c[k + 1][a] \in {0, c[k][a], k + 1}
  <2>1. k + 1 \in 2 .. MaxBlocks /\ (k + 1) - 1 = k  BY <1>2, <1>3 DEF Blocks
  <2>2. c[k + 1][a] \in {0, c[(k + 1) - 1][a], k + 1}  BY <1>1, <2>1 DEF Follows
  <2> QED  BY <2>1, <2>2
<1> QED  BY <1>1, <1>3 DEF Follows

(* What it has of an asset. *)
LEMMA Values ==
  ASSUME NEW c \in Histories, NEW a \in Assets, NEW k \in Blocks
  PROVE  c[k][a] \in Blocks \union {0}
<1> DEFINE S == {n \in Nat : n \in Blocks => c[n][a] \in Blocks \union {0}}
<1>1. MaxBlocks \in Nat \ {0} /\ Blocks = 1 .. MaxBlocks  BY BootstrapAssumption DEF Blocks
<1>2. 1 \in S  BY <1>1, History
<1>3. ASSUME NEW n \in Nat, 1 <= n, n \in S PROVE n + 1 \in S
  <2> SUFFICES ASSUME n + 1 \in Blocks PROVE c[n + 1][a] \in Blocks \union {0}  OBVIOUS
  <2>1. n \in Blocks  BY <1>1, <1>3
  <2> QED  BY <1>3, <2>1, History
<1>4. \A n \in Nat : 1 <= n => n \in S
  <2> HIDE DEF S
  <2> QED  BY <1>2, <1>3, UpwardFrom
<1> QED  BY <1>1, <1>4

(* An output is there from its block on for as long as it is there at all. *)
LEMMA StoodBefore ==
  ASSUME NEW c \in Histories, NEW a \in Assets, NEW t \in Blocks, NEW k \in Blocks, t <= k,
         c[k][a] # 0, c[k][a] \in Nat, c[k][a] <= t
  PROVE  c[t][a] = c[k][a]
<1> DEFINE S == {n \in Nat : n \in Blocks =>
                    (c[n][a] # 0 /\ c[n][a] \in Nat /\ c[n][a] <= t => c[t][a] = c[n][a])}
<1>1. MaxBlocks \in Nat \ {0} /\ t \in Nat /\ 1 <= t /\ k \in Nat  BY BootstrapAssumption DEF Blocks
<1>2. t \in S  BY <1>1
<1>3. ASSUME NEW n \in Nat, t <= n, n \in S PROVE n + 1 \in S
  <2> SUFFICES ASSUME n + 1 \in Blocks, c[n + 1][a] # 0, c[n + 1][a] \in Nat, c[n + 1][a] <= t
               PROVE  c[t][a] = c[n + 1][a]
    OBVIOUS
  <2>1. n \in Blocks /\ 1 <= n  BY <1>1, <1>3 DEF Blocks
  <2>2. c[n + 1][a] \in {0, c[n][a], n + 1}  BY <2>1, History
  <2>3. c[n + 1][a] = c[n][a]  BY <1>1, <1>3, <2>2
  <2> QED  BY <1>3, <2>1, <2>3
<1>4. \A n \in Nat : t <= n => n \in S
  <2> HIDE DEF S
  <2> QED  BY <1>1, <1>2, <1>3, UpwardFrom
<1> QED  BY <1>1, <1>4

(* What a provider is asked once the tips are known. *)
LEMMA Tips ==
  ASSUME ReplyTypes, TipsRead, awaited = {}
  PROVE  /\ TStart \in Blocks
         /\ \A p \in Providers : height[p] \in Blocks /\ TStart <= height[p]
<1>1. \A p \in Providers : tip[p] \in Blocks /\ tip[p] <= height[p] /\ height[p] \in Blocks
  BY DEF ReplyTypes, TipsRead
<1>2. "koios" \in Providers /\ "blockfrost" \in Providers /\ Blocks \subseteq Int
  BY BootstrapAssumption DEF Providers, Blocks
<1>3. ASSUME NEW p \in Providers PROVE TStart <= height[p]
  <2>1. p = "koios" \/ p = "blockfrost"  BY DEF Providers
  <2>2. tip["koios"] \in Int /\ tip["blockfrost"] \in Int /\ height[p] \in Int /\ tip[p] <= height[p]
    BY <1>1, <1>2
  <2> QED  BY <2>1, <2>2 DEF TStart
<1> QED  BY <1>1, <1>2, <1>3 DEF TStart

-----------------------------------------------------------------------------
LEMMA BootstrapInitInv == ASSUME BootstrapInit PROVE BootstrapInv
<1>1. FirstTip \in Blocks /\ 0 \in Nat  BY BootstrapAssumption
<1>2. ReplyTypes  BY <1>1 DEF BootstrapInit, ReplyTypes, ReplySteps
<1>3. TipsRead /\ InOrder /\ Truthful /\ AllAsked /\ Filed
  BY <1>1 DEF BootstrapInit, TipsRead, InOrder, Truthful, AllAsked, Filed, Providers
<1> QED  BY <1>2, <1>3 DEF BootstrapInv

(* What a step that leaves the answers and the file's block leaves.         *)
LEMMA AnswersKept ==
  ASSUME UNCHANGED <<chain, tip>>
  PROVE  /\ \A a, v : Was(a, v)' <=> Was(a, v)
         /\ \A a : Changed(a)' <=> Changed(a)
         /\ records \subseteq records' => \A a : Known(a) => Known(a)'
<1>1. TStart' = TStart  BY DEF TStart
<1> QED  BY <1>1 DEF Was, Changed, Known

(* The steps that ask nothing: the chain, the tips, the pages, the mints.   *)
LEMMA OtherSteps ==
  ASSUME BootstrapInv,
         \/ \E p \in Providers : Follow(p) \/ ReadTip(p)
         \/ ProbeRoot \/ RootFromBlockfrost \/ StartListing \/ NextPages \/ Compare
         \/ \E o \in pending : ReadPage(o) \/ ReadMintPage(o)
         \/ StartMints \/ StartHistory \/ \E a \in multi : ReadHistory(a)
         \/ Write \/ Fails
  PROVE  BootstrapInv'
<1> USE DEF world, start, pages, queues, mints
<1>0. ReplyTypes /\ TipsRead /\ InOrder /\ Truthful /\ AllAsked /\ Filed  BY DEF BootstrapInv
<1>m. MaxBlocks \in Nat \ {0} /\ Blocks = 1 .. MaxBlocks  BY BootstrapAssumption DEF Blocks
<1>1. ASSUME NEW p \in Providers, Follow(p) PROVE BootstrapInv'
  <2>1. height[p] + 1 \in Blocks /\ height[p] \in Blocks  BY <1>0, <1>1, <1>m DEF Follow, ReplyTypes
  <2>2. height' \in [Providers -> Blocks] /\ \A q \in Providers : height[q] <= height'[q]
    BY <1>0, <1>1, <1>m, <2>1 DEF Follow, ReplyTypes
  <2>3. UNCHANGED <<chain, step, start, pages, queues, mints, file>>  BY <1>1 DEF Follow
  <2>4. ReplyTypes' /\ InOrder' /\ AllAsked' /\ Truthful' /\ Filed'
    BY <1>0, <2>2, <2>3 DEF ReplyTypes, InOrder, AllAsked, Truthful, Filed, Was, Known, Changed, TStart,
       SnapshotFile, Utxo, MintingData
  <2>5. TipsRead'
    <3> SUFFICES ASSUME NEW q \in Providers, q \notin awaited
                 PROVE  tip[q] \in Blocks /\ tip[q] <= height'[q]
      BY <1>0, <2>3 DEF TipsRead
    <3>1. tip[q] \in Nat /\ tip[q] <= height[q] /\ height[q] \in Nat /\ height'[q] \in Nat
          /\ height[q] <= height'[q] /\ tip[q] \in Blocks
      BY <1>0, <1>m, <2>2 DEF TipsRead, ReplyTypes
    <3> QED  BY <3>1
  <2> QED  BY <2>4, <2>5 DEF BootstrapInv
<1>2. ASSUME NEW p \in Providers, ReadTip(p) PROVE BootstrapInv'
  <2>1. step = "tips" /\ UNCHANGED <<world, step, root, rootAt, pages, queues, mints, file>>
        /\ awaited' = awaited \ {p} /\ tip' = [tip EXCEPT ![p] = height[p]]
    BY <1>2 DEF ReadTip
  <2>2. height[p] \in Blocks /\ height[p] \in Nat  BY <1>0, <1>m DEF ReplyTypes
  <2>3. ReplyTypes'  BY <1>0, <2>1, <2>2 DEF ReplyTypes
  <2>4. records = {} /\ requests = {} /\ rows = {} /\ file = {}
    BY <1>0, <2>1 DEF InOrder, Filed
  <2>5. TipsRead'  BY <1>0, <2>1, <2>2, <2>4 DEF TipsRead, ReplyTypes
  <2>6. InOrder' /\ Truthful' /\ AllAsked' /\ Filed'
    BY <2>1, <2>4 DEF InOrder, Truthful, AllAsked, Filed
  <2> QED  BY <2>3, <2>5, <2>6 DEF BootstrapInv
<1>3. ASSUME UNCHANGED <<chain, height, tip, records, requests, file>>,
             rows' \subseteq Assets /\ shared' \subseteq Assets /\ koiosOnly' \subseteq Assets,
             step' \in ReplySteps \ {"written"}, step # "written",
             step' \in {"tips", "failed"} \/ (step # "failed" /\ awaited' = {}) \/ (step' = step /\ awaited' = awaited),
             awaited' \subseteq awaited, "koios" \in awaited' <=> "koios" \in awaited,
             "blockfrost" \in awaited' <=> "blockfrost" \in awaited,
             InOrder', AllAsked'
      PROVE  BootstrapInv'
  <2>1. ReplyTypes' /\ Filed'  BY <1>0, <1>3 DEF ReplyTypes, Filed
  <2>2. Truthful'  BY <1>0, <1>3, AnswersKept DEF Truthful
  <2>3. TipsRead'  BY <1>0, <1>3 DEF TipsRead, Providers
  <2> QED  BY <1>3, <2>1, <2>2, <2>3 DEF BootstrapInv
<1>t. rows \subseteq Assets /\ shared \subseteq Assets /\ koiosOnly \subseteq Assets /\ step \in ReplySteps
  BY <1>0 DEF ReplyTypes
<1>4. CASE ProbeRoot \/ RootFromBlockfrost
  <2>1. UNCHANGED <<world, step, tip, pages, queues, mints, file>> /\ step = "tips"
        /\ (awaited' = awaited \/ awaited' = awaited \ {"root"})
    BY <1>4 DEF ProbeRoot, RootFromBlockfrost
  <2>2. InOrder' /\ AllAsked'  BY <1>0, <2>1 DEF InOrder, AllAsked
  <2> QED  BY <1>3, <1>t, <2>1, <2>2 DEF ReplySteps
<1>5. CASE StartListing \/ NextPages \/ \E o \in pending : ReadPage(o) \/ ReadMintPage(o)
  <2> DEFINE Reads ==
        /\ UNCHANGED <<world, start, queues, file>>
        /\ \/ step = "tips" /\ step' = "list" /\ awaited = {} /\ rows' = rows
           \/ step = "list" /\ step' = "list" /\ rows' \subseteq Assets
           \/ step = "mints" /\ step' = "mints" /\ rows' = rows
  <2>1. Reads
    <3>1. CASE StartListing  BY <3>1 DEF StartListing
    <3>2. CASE NextPages  BY <1>t, <3>2 DEF NextPages
    <3>3. ASSUME NEW o \in pending, ReadPage(o) PROVE Reads
      <4>1. Keep(Page(o)) \subseteq Assets  BY DEF Keep, Held
      <4> QED  BY <1>t, <3>3, <4>1 DEF ReadPage
    <3>4. ASSUME NEW o \in pending, ReadMintPage(o) PROVE Reads
      BY <1>t, <3>4 DEF ReadMintPage
    <3> QED  BY <1>5, <3>1, <3>2, <3>3, <3>4
  <2>2. InOrder'  BY <1>0, <2>1 DEF InOrder
  <2>3. AllAsked'  BY <1>0, <2>1, AnswersKept DEF AllAsked
  <2>4. awaited' = awaited /\ (awaited = {} \/ step' = step)  BY <2>1
  <2> QED  BY <1>3, <1>t, <2>1, <2>2, <2>3, <2>4 DEF ReplySteps
<1>6. CASE Compare
  <2>1. /\ UNCHANGED <<world, start, pages, requests, records, mints, file>> /\ step = "list"
        /\ \/ step' = "mismatch" /\ shared' = {} /\ koiosOnly' = {}
           \/ step' = "outputs" /\ shared' = rows \ KoiosOnly /\ koiosOnly' = rows \intersect KoiosOnly
    BY <1>6 DEF Compare
  <2>2. InOrder' /\ AllAsked'  BY <1>0, <2>1 DEF InOrder, AllAsked
  <2>3. awaited = {}  BY <1>0, <2>1 DEF TipsRead
  <2> QED  BY <1>3, <1>t, <2>1, <2>2, <2>3 DEF ReplySteps
<1>7. CASE StartMints \/ StartHistory \/ \E a \in multi : ReadHistory(a)
  <2>1. /\ UNCHANGED <<world, start, rows, queues, file>>
        /\ \/ step = "outputs" /\ step' = "mints" /\ shared = {} /\ koiosOnly = {} /\ requests = {}
           \/ step \in {"mints", "history"} /\ step' = "history"
    BY <1>7 DEF StartMints, StartHistory, ReadHistory
  <2>2. InOrder'  BY <1>0, <2>1 DEF InOrder
  <2>3. AllAsked'  BY <1>0, <2>1, AnswersKept DEF AllAsked
  <2>4. awaited = {}  BY <1>0, <2>1 DEF TipsRead
  <2> QED  BY <1>3, <1>t, <2>1, <2>2, <2>3, <2>4 DEF ReplySteps
<1>8. CASE Write
  <2>1. UNCHANGED <<world, start, pages, queues, mints>> /\ step = "history" /\ step' = "written"
        /\ \E known : file' = {SnapshotFile(known)}
    BY <1>8 DEF Write
  <2>2. ReplyTypes' /\ TipsRead' /\ InOrder'  BY <1>0, <2>1 DEF ReplyTypes, ReplySteps, TipsRead, InOrder
  <2>3. Truthful' /\ AllAsked'  BY <1>0, <2>1, AnswersKept DEF Truthful, AllAsked
  <2>4. \A known : SnapshotFile(known)' = SnapshotFile(known)
    BY <2>1 DEF SnapshotFile, Utxo, MintingData, TStart
  <2>5. Filed'  BY <2>1, <2>4 DEF Filed
  <2> QED  BY <2>2, <2>3, <2>5 DEF BootstrapInv
<1>9. CASE Fails
  <2>1. UNCHANGED <<world, start, pages, queues, mints, file>> /\ step' = "failed" /\ step # "written"
    BY <1>9 DEF Fails, Ended
  <2>2. InOrder' /\ AllAsked'  BY <1>0, <2>1 DEF InOrder, AllAsked
  <2> QED  BY <1>3, <1>t, <2>1, <2>2 DEF ReplySteps
<1> QED  BY <1>1, <1>2, <1>4, <1>5, <1>6, <1>7, <1>8, <1>9

(* The assets are finitely many, so that a batch of one has one.            *)
LEMMA OneTaken ==
  ASSUME NEW S, S \subseteq Assets, S # {}, NEW items \in Takes(S, 1)
  PROVE  \E a \in Assets : items = {a}
<1>1. Order \in Seq(Assets) /\ Assets = {Order[i] : i \in DOMAIN Order}
  BY BootstrapAssumption DEF Assets, Range
<1>2. DOMAIN Order = 1 .. Len(Order) /\ Len(Order) \in Nat  BY <1>1
<1>3. IsFiniteSet(DOMAIN Order)  BY <1>2, FS_Interval
<1>4. IsFiniteSet(Assets)
  <2>1. [i \in DOMAIN Order |-> Order[i]] \in Surjection(DOMAIN Order, Assets)
    BY <1>1 DEF Surjection
  <2> QED  BY <1>3, <2>1, FS_Surjection
<1>5. IsFiniteSet(S)  BY <1>4, FS_Subset
<1>6. Cardinality(S) \in Nat /\ Cardinality(S) # 0  BY <1>5, FS_CardinalityType, FS_EmptySet
<1>7. Min({1, Cardinality(S)}) = 1
  <2>1. 1 \in {1, Cardinality(S)} /\ \A y \in {1, Cardinality(S)} : 1 <= y  BY <1>6
  <2>2. \A x \in {1, Cardinality(S)} : (\A y \in {1, Cardinality(S)} : x <= y) => x = 1  BY <1>6
  <2>3. /\ Min({1, Cardinality(S)}) \in {1, Cardinality(S)}
        /\ \A y \in {1, Cardinality(S)} : Min({1, Cardinality(S)}) <= y
    BY <2>1 DEF Min
  <2> QED  BY <2>2, <2>3
<1>8. items \subseteq S /\ Cardinality(items) = 1  BY <1>7 DEF Takes
<1>9. IsFiniteSet(items)  BY <1>5, <1>8, FS_Subset
<1>10. PICK a : items = {a}  BY <1>8, <1>9, FS_Singleton
<1> QED  BY <1>8, <1>10

(* A worker takes assets from a queue.                                      *)
LEMMA AskSteps ==
  ASSUME BootstrapInv, NEW w \in Workers, TakeShared(w) \/ TakeKoiosOnly(w)
  PROVE  BootstrapInv'
<1> USE DEF world, start, pages, queues, mints
<1>0. ReplyTypes /\ TipsRead /\ InOrder /\ Truthful /\ AllAsked /\ Filed  BY DEF BootstrapInv
<1>1. PICK items \in SUBSET Assets :
         /\ Ask(w, items) /\ step = "outputs"
         /\ UNCHANGED <<world, step, start, pages, records, mints, file>>
         /\ shared \union koiosOnly \subseteq shared' \union koiosOnly' \union items
         /\ shared' \subseteq shared /\ koiosOnly' \subseteq koiosOnly
         /\ w \in BlockfrostWorkers => \E a \in Assets : items = {a}
  <2>1. shared \subseteq Assets /\ koiosOnly \subseteq Assets  BY <1>0 DEF ReplyTypes
  <2>2. CASE TakeShared(w)
    <3>1. PICK items \in Takes(shared, IF w \in KoiosWorkers THEN BatchSize ELSE 1) :
             Ask(w, items) /\ shared' = shared \ items
      BY <2>2 DEF TakeShared
    <3>2. items \subseteq shared  BY <3>1 DEF Takes
    <3>3. w \in BlockfrostWorkers => w \notin KoiosWorkers  BY BootstrapAssumption
    <3>4. w \in BlockfrostWorkers => \E a \in Assets : items = {a}
      BY <2>1, <2>2, <3>1, <3>3, OneTaken DEF TakeShared
    <3>5. step = "outputs" /\ UNCHANGED <<world, step, start, pages, koiosOnly, records, mints, file>>
      BY <2>2 DEF TakeShared
    <3> QED  BY <2>1, <3>1, <3>2, <3>4, <3>5
  <2>3. CASE TakeKoiosOnly(w)
    <3>1. PICK items \in Takes(koiosOnly, BatchSize) : Ask(w, items) /\ koiosOnly' = koiosOnly \ items
      BY <2>3 DEF TakeKoiosOnly
    <3>2. items \subseteq koiosOnly  BY <3>1 DEF Takes
    <3>3. w \notin BlockfrostWorkers  BY <2>3, BootstrapAssumption DEF TakeKoiosOnly
    <3>5. step = "outputs" /\ UNCHANGED <<world, step, start, pages, shared, records, mints, file>>
      BY <2>3 DEF TakeKoiosOnly
    <3> QED  BY <2>1, <3>1, <3>2, <3>3, <3>5
  <2> QED  BY <2>2, <2>3
<1> DEFINE r == [by |-> w, items |-> items, held |-> 0]
<1>2. requests' = requests \union {r} /\ r.by = w /\ r.items = items /\ r.held = 0
  BY <1>1 DEF Ask
<1>3. r \in [by : Workers, items : SUBSET Assets, held : Nat]  OBVIOUS
<1> HIDE DEF r
<1>4. ReplyTypes'  BY <1>0, <1>1, <1>2, <1>3 DEF ReplyTypes
<1>5. TipsRead' /\ InOrder' /\ Filed'
  <2>1. awaited = {}  BY <1>0, <1>1 DEF TipsRead
  <2> QED  BY <1>0, <1>1, <2>1 DEF TipsRead, InOrder, Filed
<1>6. Truthful'  BY <1>0, <1>1, <1>2, AnswersKept DEF Truthful
<1>7. AllAsked'
  <2> SUFFICES ASSUME NEW a \in rows
               PROVE  a \in shared' \union koiosOnly' \/ (\E q \in requests' : a \in q.items) \/ Known(a)'
    BY <1>1 DEF AllAsked
  <2>1. a \in shared \union koiosOnly \/ (\E q \in requests : a \in q.items) \/ Known(a)
    BY <1>0, <1>1 DEF AllAsked
  <2>2. Known(a) => Known(a)'  BY <1>1, AnswersKept
  <2> QED  BY <1>1, <1>2, <2>1, <2>2
<1> QED  BY <1>4, <1>5, <1>6, <1>7 DEF BootstrapInv

(* A request is answered, with outputs of one block not below the file's,   *)
(* or replaced by others that together ask for the same assets.             *)
LEMMA AnswerSteps ==
  ASSUME BootstrapInv, NEW r \in requests, KoiosAnswers(r) \/ Holder(r) \/ AtHolder(r) \/ TooLarge(r)
  PROVE  BootstrapInv'
<1> USE DEF world, start, pages, queues, mints
<1>0. ReplyTypes /\ TipsRead /\ InOrder /\ Truthful /\ AllAsked /\ Filed  BY DEF BootstrapInv
<1>a. r \in [by : Workers, items : SUBSET Assets, held : Nat] /\ step \in {"outputs", "failed"}
  BY <1>0 DEF ReplyTypes, InOrder
<1>b. awaited = {}  BY <1>0 DEF TipsRead
<1>c. TStart \in Blocks /\ \A p \in Providers : height[p] \in Blocks /\ TStart <= height[p]
  BY <1>0, <1>b, Tips
<1>d. UNCHANGED <<world, step, start, pages, shared, koiosOnly, mints, file>>
  BY DEF KoiosAnswers, Holder, AtHolder, TooLarge, Asking
<1>e. "koios" \in Providers /\ "blockfrost" \in Providers /\ 0 \notin Blocks
  BY BootstrapAssumption DEF Providers, Blocks
<1>f. KoiosWorkers \intersect BlockfrostWorkers = {}  BY BootstrapAssumption
(* What an answer from a provider's block says. *)
<1>g. ASSUME NEW p \in Providers, NEW a \in Assets
      PROVE  Was(a, chain[height[p]][a]) /\ (Changed(a) \/ chain[height[p]][a] = chain[TStart][a])
  BY <1>c DEF Was, Changed
(* A request that is answered. *)
<1>1. ASSUME NEW got \in SUBSET (Assets \X Blocks), Replied(r, got),
             \A o \in got : Was(o[1], o[2]),
             \A a \in r.items : chain[TStart][a] = 0 \/ <<a, chain[TStart][a]>> \in got \/ Changed(a)
      PROVE  BootstrapInv'
  <2>1. requests' = requests \ {r} /\ records' = records \union got  BY <1>1 DEF Replied
  <2>2. ReplyTypes' /\ TipsRead' /\ InOrder' /\ Filed'
    <3>1. file = {}  BY <1>0, <1>a DEF Filed
    <3> QED  BY <1>0, <1>a, <1>b, <1>d, <2>1, <3>1 DEF ReplyTypes, TipsRead, InOrder, Filed
  <2>3. Truthful'  BY <1>0, <1>1, <1>d, <2>1, AnswersKept DEF Truthful
  <2>4. \A a \in r.items : Known(a)'
    <3>1. TStart' = TStart /\ chain' = chain  BY <1>d DEF TStart
    <3> QED  BY <1>1, <1>d, <2>1, <3>1, AnswersKept DEF Known
  <2>5. \A a : Known(a) => Known(a)'  BY <1>d, <2>1, AnswersKept
  <2>6. AllAsked'  BY <1>0, <1>a, <1>d, <2>1, <2>4, <2>5 DEF AllAsked
  <2> QED  BY <2>2, <2>3, <2>6 DEF BootstrapInv
(* A request that is replaced. *)
<1>2. ASSUME NEW new \in SUBSET [by : Workers, items : SUBSET Assets, held : Nat],
             requests' = (requests \ {r}) \union new, UNCHANGED records,
             \A a \in r.items : \E q \in new : a \in q.items,
             \A q \in new : /\ q.by \in BlockfrostWorkers => \E a \in Assets : q.items = {a}
                            /\ q.held # 0 => q.by \in BlockfrostWorkers /\ \A a \in q.items : Was(a, q.held)
      PROVE  BootstrapInv'
  <2>1. ReplyTypes' /\ TipsRead' /\ InOrder' /\ Filed'
    <3>1. file = {}  BY <1>0, <1>a DEF Filed
    <3> QED  BY <1>0, <1>2, <1>a, <1>b, <1>d, <3>1 DEF ReplyTypes, TipsRead, InOrder, Filed
  <2>2. Truthful'  BY <1>0, <1>2, <1>d, AnswersKept DEF Truthful
  <2>3. \A a : Known(a) => Known(a)'  BY <1>2, <1>d, AnswersKept
  <2>4. AllAsked'  BY <1>0, <1>2, <1>a, <1>d, <2>3 DEF AllAsked
  <2> QED  BY <2>1, <2>2, <2>4 DEF BootstrapInv
<1>3. CASE KoiosAnswers(r)
  <2> DEFINE got == {o \in OutputsAt(height["koios"]) : o[1] \in r.items}
  <2>1. Replied(r, got)  BY <1>3 DEF KoiosAnswers
  <2>2. \A a, v : <<a, v>> \in got <=> /\ a \in Assets /\ a \in r.items /\ v = chain[height["koios"]][a]
                                       /\ v # 0
    BY DEF OutputsAt, Held
  <2>3. got \in SUBSET (Assets \X Blocks) /\ \A o \in got : Was(o[1], o[2])
    <3> SUFFICES ASSUME NEW a \in Assets, a \in r.items, chain[height["koios"]][a] # 0
                 PROVE  /\ chain[height["koios"]][a] \in Blocks
                        /\ Was(a, chain[height["koios"]][a])
      BY DEF OutputsAt, Held
    <3>1. chain[height["koios"]][a] \in Blocks \union {0}  BY <1>0, <1>c, <1>e, Values DEF ReplyTypes
    <3> QED  BY <1>e, <1>g, <3>1
  <2>4. \A a \in r.items : chain[TStart][a] = 0 \/ <<a, chain[TStart][a]>> \in got \/ Changed(a)
    BY <1>a, <1>e, <1>g, <2>2
  <2> HIDE DEF got
  <2> QED  BY <1>1, <2>1, <2>3, <2>4
<1>4. CASE Holder(r)
  <2>1. PICK a \in r.items :
          IF a \in Held(height["blockfrost"])
          THEN /\ requests' = (requests \ {r}) \union {[r EXCEPT !.held = chain[height["blockfrost"]][a]]}
               /\ UNCHANGED records
          ELSE Replied(r, {})
    BY <1>4 DEF Holder
  <2>2. r.by \in BlockfrostWorkers /\ r.items = {a} /\ a \in Assets
    BY <1>0, <1>4, <1>a, <2>1 DEF Holder, Truthful
  <2> DEFINE v == chain[height["blockfrost"]][a]
  <2>3. v \in Blocks \union {0}  BY <1>0, <1>c, <1>e, <2>2, Values DEF ReplyTypes
  <2>4. Was(a, v) /\ (Changed(a) \/ v = chain[TStart][a])  BY <1>e, <1>g, <2>2
  <2>5. CASE a \in Held(height["blockfrost"])
    <3> DEFINE q == [r EXCEPT !.held = v]
    <3>1. v \in Nat  BY <2>3 DEF Blocks
    <3>2. q \in [by : Workers, items : SUBSET Assets, held : Nat] /\ q.by = r.by /\ q.items = r.items
          /\ q.held = v
      BY <1>a, <3>1
    <3>3. requests' = (requests \ {r}) \union {q} /\ UNCHANGED records  BY <2>1, <2>5
    <3> HIDE DEF q, v
    <3>4. \A x \in {q} : /\ x.by \in BlockfrostWorkers => \E b \in Assets : x.items = {b}
                         /\ x.held # 0 => x.by \in BlockfrostWorkers /\ \A b \in x.items : Was(b, x.held)
      BY <2>2, <2>4, <3>2
    <3>5. {q} \in SUBSET [by : Workers, items : SUBSET Assets, held : Nat]
          /\ \A b \in r.items : \E x \in {q} : b \in x.items
      BY <3>2
    <3> QED  BY <1>2, <3>3, <3>4, <3>5
  <2>6. CASE a \notin Held(height["blockfrost"])
    <3>1. Replied(r, {}) /\ v = 0  BY <2>1, <2>2, <2>6 DEF Held
    <3>2. \A b \in r.items : chain[TStart][b] = 0 \/ Changed(b)  BY <2>2, <2>4, <3>1
    <3> QED  BY <1>1, <3>1, <3>2
  <2> QED  BY <2>5, <2>6
<1>5. CASE AtHolder(r)
  <2>1. r.by \in BlockfrostWorkers /\ r.held # 0  BY <1>5 DEF AtHolder
  <2>2. PICK a \in Assets : r.items = {a}  BY <1>0, <2>1 DEF Truthful
  <2> DEFINE v == chain[height["blockfrost"]][a]
             there == {o \in OutputsAt(height["blockfrost"]) : o[1] \in r.items}
  <2>3. v \in Blocks \union {0}  BY <1>0, <1>c, <1>e, <2>2, Values DEF ReplyTypes
  <2>4. Was(a, v) /\ (Changed(a) \/ v = chain[TStart][a])  BY <1>e, <1>g, <2>2
  <2>5. there = IF v = 0 THEN {} ELSE {<<a, v>>}  BY <2>2 DEF OutputsAt, Held
  <2>6. Was(a, r.held)  BY <1>0, <2>1, <2>2 DEF Truthful
  <2>7. Replied(r, there) \/ (r.held \notin {o[2] : o \in there} /\ Replied(r, {}))  BY <1>5 DEF AtHolder
  <2> HIDE DEF there, v
  <2>8. CASE Replied(r, there)
    <3>1. there \in SUBSET (Assets \X Blocks) /\ \A o \in there : Was(o[1], o[2])
      BY <2>3, <2>4, <2>5
    <3>2. \A b \in r.items : chain[TStart][b] = 0 \/ <<b, chain[TStart][b]>> \in there \/ Changed(b)
      BY <2>2, <2>4, <2>5
    <3> QED  BY <1>1, <2>8, <3>1, <3>2
  <2>9. CASE r.held \notin {o[2] : o \in there} /\ Replied(r, {})
    <3>1. r.held # v
      <4>1. CASE v = 0  BY <2>1, <4>1
      <4>2. CASE v # 0
        <5>1. <<a, v>> \in there  BY <2>5, <4>2
        <5> QED  BY <2>9, <5>1
      <4> QED  BY <4>1, <4>2
    <3>2. r.held # chain[TStart][a] => Changed(a)  BY <2>6 DEF Was, Changed
    <3>3. Changed(a)  BY <2>4, <3>1, <3>2
    <3>4. \A b \in r.items : Changed(b)  BY <2>2, <3>3
    <3> QED  BY <1>1, <2>9, <3>4
  <2> QED  BY <2>7, <2>8, <2>9
<1>6. CASE TooLarge(r)
  <2>1. PICK half \in Halves(r.items) : requests' = (requests \ {r}) \union Split(r, half)
    BY <1>6 DEF TooLarge
  <2>2. half \subseteq r.items /\ r.by \notin BlockfrostWorkers /\ UNCHANGED records
    BY <1>6, <1>f DEF TooLarge, Halves
  <2>3. r.held = 0  BY <1>0, <2>2 DEF Truthful
  <2> DEFINE q == [r EXCEPT !.items = half]
             s == [r EXCEPT !.items = r.items \ half]
  <2>4. q \in [by : Workers, items : SUBSET Assets, held : Nat] /\ q.by = r.by /\ q.items = half /\ q.held = 0
        /\ s \in [by : Workers, items : SUBSET Assets, held : Nat] /\ s.by = r.by
        /\ s.items = r.items \ half /\ s.held = 0
    BY <1>a, <2>2, <2>3
  <2>5. Split(r, half) = {q, s}  BY DEF Split
  <2> HIDE DEF q, s
  <2>6. \A a \in r.items : \E x \in {q, s} : a \in x.items  BY <2>2, <2>4
  <2>7. \A x \in {q, s} : x.by \notin BlockfrostWorkers /\ x.held = 0  BY <2>2, <2>4
  <2>8. {q, s} \in SUBSET [by : Workers, items : SUBSET Assets, held : Nat]  BY <2>4
  <2> QED  BY <1>2, <2>1, <2>2, <2>5, <2>6, <2>7, <2>8
<1> QED  BY <1>3, <1>4, <1>5, <1>6

LEMMA BootstrapStep == ASSUME BootstrapInv, [BootstrapNext]_bootstrapVars PROVE BootstrapInv'
<1>1. CASE UNCHANGED bootstrapVars
  <2>1. \A known : SnapshotFile(known)' = SnapshotFile(known)
    BY <1>1 DEF bootstrapVars, world, start, pages, queues, mints, SnapshotFile, Utxo, MintingData, TStart
  <2> QED
    BY <1>1, <2>1, AnswersKept
    DEF bootstrapVars, world, start, pages, queues, mints, BootstrapInv, ReplyTypes, TipsRead, InOrder,
        Truthful, AllAsked, Filed
<1>2. CASE \E w \in Workers : TakeShared(w) \/ TakeKoiosOnly(w)
  BY <1>2, AskSteps
<1>3. CASE \E r \in requests : KoiosAnswers(r) \/ Holder(r) \/ AtHolder(r) \/ TooLarge(r)
  BY <1>3, AnswerSteps
<1>4. CASE \/ \E p \in Providers : Follow(p)
           \/ Starts \/ Lists \/ Finishes \/ Fails
  BY <1>4, OtherSteps DEF Starts, Lists, Finishes
<1> QED
  BY <1>1, <1>2, <1>3, <1>4 DEF BootstrapNext, Script, Asks, Answers, Workers

(***************************************************************************)
(* The inductive invariant of the script: answers are of a block not below *)
(* the file's, and each asset listed is still to be asked for or known.    *)
(***************************************************************************)
THEOREM BootstrapInvariant == BootstrapSpec => []BootstrapInv
<1>1. BootstrapInit => BootstrapInv  BY BootstrapInitInv
<1>2. BootstrapInv /\ [BootstrapNext]_bootstrapVars => BootstrapInv'  BY BootstrapStep
<1> QED  BY <1>1, <1>2, PTL DEF BootstrapSpec

(***************************************************************************)
(* EnumeratedHeals: a file an importer accepts holds no output that its    *)
(* block does not have, and what it lacks of the assets listed is spent by *)
(* a block still to be scanned, whichever provider was behind and however  *)
(* the batches were shared and split.                                      *)
(***************************************************************************)
THEOREM BootstrapHeals == BootstrapSpec => []EnumeratedHeals
<1>1. BootstrapInv => EnumeratedHeals
  <2> SUFFICES ASSUME BootstrapInv, NEW f \in file, Accepted(f) PROVE Heals(f)  BY DEF EnumeratedHeals
  <2>1. ReplyTypes /\ TipsRead /\ Truthful /\ AllAsked /\ Filed  BY DEF BootstrapInv
  <2>2. step = "written" /\ \E known : f = SnapshotFile(known)  BY <2>1 DEF Filed
  <2>3. PICK known : f = SnapshotFile(known)  BY <2>2
  <2>4. f.slot = TStart /\ f.utxos = {Utxo(o, known) : o \in records}  BY <2>3 DEF SnapshotFile
  <2>5. awaited = {} /\ \A a \in rows : Known(a)  BY <2>1, <2>2 DEF TipsRead, AllAsked
  <2>6. TStart \in Blocks  BY <2>1, <2>5, Tips
  <2>7. records \subseteq Assets \X Blocks /\ chain \in Histories /\ rows \subseteq Assets
    BY <2>1 DEF ReplyTypes
  <2>8. MaxBlocks \in Nat \ {0} /\ Blocks = 1 .. MaxBlocks  BY BootstrapAssumption DEF Blocks
  <2> DEFINE listed == {<<u.asset, u.output>> : u \in f.utxos}
  <2>9. listed = records
    <3>1. \A o \in records : o = <<o[1], o[2]>>  BY <2>7
    <3>2. \A o \in records : Utxo(o, known).asset = o[1] /\ Utxo(o, known).output = o[2]  BY DEF Utxo
    <3> QED  BY <2>4, <3>1, <3>2
  <2>10. ASSUME NEW o \in records PROVE o \in OutputsAt(f.slot)
    <3>1. PICK a \in Assets, v \in Blocks : o = <<a, v>>  BY <2>7
    <3>2. Utxo(o, known).slot \in 1 .. TStart  BY <2>4 DEF Accepted
    <3>3. v <= TStart /\ v \in Nat /\ v # 0  BY <2>8, <3>1, <3>2 DEF Utxo
    <3>4. PICK k \in Blocks : TStart <= k /\ chain[k][a] = v  BY <2>1, <3>1 DEF Truthful, Was
    <3>5. chain[TStart][a] = v  BY <2>6, <2>7, <3>3, <3>4, StoodBefore
    <3> QED  BY <2>4, <3>1, <3>3, <3>5 DEF OutputsAt, Held
  <2>11. ASSUME NEW o \in OutputsAt(f.slot), o[1] \in rows PROVE o \in listed \/ Later(f, o[1])
    <3>1. PICK a \in Assets : a \in rows /\ o = <<a, chain[TStart][a]>> /\ chain[TStart][a] # 0
      BY <2>4, <2>11 DEF OutputsAt, Held
    <3>2. o \in records \/ Changed(a)  BY <2>5, <3>1 DEF Known
    <3>3. ASSUME Changed(a) PROVE Later(f, o[1])
      <4>1. PICK k \in Blocks : TStart <= k /\ chain[k][a] # chain[TStart][a]  BY <3>3 DEF Changed
      <4>2. k # TStart /\ k \in TStart + 1 .. MaxBlocks  BY <2>6, <2>8, <4>1
      <4> QED  BY <2>4, <3>1, <4>1, <4>2 DEF Later
    <3> QED  BY <2>9, <3>2, <3>3
  <2> HIDE DEF listed
  <2>12. listed \subseteq OutputsAt(f.slot)  BY <2>9, <2>10
  <2> QED  BY <2>11, <2>12 DEF Heals, listed
<1> QED  BY <1>1, BootstrapInvariant, PTL

-----------------------------------------------------------------------------
(***************************************************************************)
(* The pages.  While the provider stays at the block the listing began     *)
(* with, each asset listed up to the offset was read or is on a page that  *)
(* is still awaited; a page that was not full is the last one.             *)
(***************************************************************************)
OnPage(i, o) == Place(i, height["koios"]) \in o + 1 .. o + PageSize
PagesRead ==
    LET k == height["koios"] IN
    /\ rows \subseteq Held(k)
    /\ \A o \in pending : o + PageSize <= offset
    /\ \A i \in Listed(k) : Place(i, k) <= offset =>
          \/ Order[i] \in rows \/ Order[i] \notin Held(k)
          \/ \E o \in pending : OnPage(i, o)
    /\ short => Cardinality(Listed(k)) <= offset
ListTypes ==
    /\ chain \in Histories /\ height \in [Providers -> Blocks]
    /\ offset \in Nat /\ pending \subseteq Nat /\ rootAt \in Nat
    /\ rootAt # 0 => root = RootAt(rootAt)
    /\ step = "tips" => rows = {}
Begun == step \in {"list", "outputs", "mismatch"} => from \in Nat /\ from <= height["koios"]
Alike ==
    /\ step = "list" /\ from = height["koios"] => PagesRead
    /\ step \in {"outputs", "mismatch"} /\ rootAt = from /\ from = height["koios"] =>
          (step = "outputs" <=> Held(rootAt) \intersect Registry = {})
ListInv == ListTypes /\ Begun /\ Alike

(* The place of an asset in the list. *)
LEMMA Places ==
  ASSUME NEW k, NEW i \in Listed(k)
  PROVE  Place(i, k) \in Nat /\ 1 <= Place(i, k) /\ Place(i, k) <= Cardinality(Listed(k))
         /\ Cardinality(Listed(k)) \in Nat
<1>1. Order \in Seq(Assets)  BY BootstrapAssumption
<1>2. DOMAIN Order = 1 .. Len(Order) /\ Len(Order) \in Nat  BY <1>1
<1>3. IsFiniteSet(Listed(k)) /\ Listed(k) \subseteq DOMAIN Order
  <2>1. IsFiniteSet(DOMAIN Order)  BY <1>2, FS_Interval
  <2>2. Listed(k) \subseteq DOMAIN Order  BY DEF Listed
  <2> QED  BY <2>1, <2>2, FS_Subset
<1> DEFINE S == {j \in Listed(k) : j <= i}
<1>4. IsFiniteSet(S) /\ Cardinality(S) <= Cardinality(Listed(k))  BY <1>3, FS_Subset
<1>5. i \in S  BY <1>2, <1>3
<1>6. Cardinality(S) \in Nat /\ Cardinality(S) # 0 /\ Cardinality(Listed(k)) \in Nat
  BY <1>3, <1>4, <1>5, FS_CardinalityType, FS_EmptySet
<1> QED  BY <1>4, <1>6 DEF Place

(* What is held was minted. *)
LEMMA HeldIsListed ==
  ASSUME NEW k \in Blocks, chain \in Histories, NEW a \in Held(k)
  PROVE  \E i \in Listed(k) : Order[i] = a
<1> DEFINE S == {n \in Nat : n \in Blocks => (chain[n][a] # 0 => MintsOf(a, n) # {})}
<1>1. MaxBlocks \in Nat \ {0} /\ Blocks = 1 .. MaxBlocks  BY BootstrapAssumption DEF Blocks
<1>2. a \in Assets /\ chain[k][a] # 0  BY DEF Held
<1>3. 1 \in S
  <2>1. chain[1][a] # 0 => 1 \in MintsOf(a, 1)  BY <1>2, History DEF MintsOf
  <2> QED  BY <2>1
<1>4. ASSUME NEW n \in Nat, 1 <= n, n \in S PROVE n + 1 \in S
  <2> SUFFICES ASSUME n + 1 \in Blocks, chain[n + 1][a] # 0 PROVE MintsOf(a, n + 1) # {}  OBVIOUS
  <2>1. n \in Blocks  BY <1>1, <1>4
  <2>2. CASE chain[n][a] # 0
    <3>1. PICK j \in MintsOf(a, n) : TRUE  BY <1>4, <2>1, <2>2
    <3>2. j \in MintsOf(a, n + 1)  BY <1>4, <3>1 DEF MintsOf
    <3> QED  BY <3>2
  <2>3. CASE chain[n][a] = 0
    <3>1. chain[n + 1][a] = n + 1  BY <1>2, <1>4, <2>3, History
    <3>2. n + 1 \in 1 .. n + 1 /\ (n + 1) - 1 = n  BY <1>4
    <3>3. n + 1 \in MintsOf(a, n + 1)  BY <2>3, <3>1, <3>2 DEF MintsOf
    <3> QED  BY <3>3
  <2> QED  BY <2>2, <2>3
<1>5. \A n \in Nat : 1 <= n => n \in S
  <2> HIDE DEF S
  <2> QED  BY <1>3, <1>4, UpwardFrom
<1>6. MintsOf(a, k) # {}  BY <1>1, <1>2, <1>5
<1>7. PICK i \in DOMAIN Order : Order[i] = a  BY <1>2 DEF Assets, Range
<1> QED  BY <1>6, <1>7 DEF Listed

(* A place in a round of pages is on one of them.                           *)
LEMMA Rounds ==
  ASSUME NEW size \in Nat \ {0}
  PROVE  \A n \in Nat :
            /\ n * size \in Nat
            /\ \A m \in 1 .. n * size : \E j \in 0 .. n - 1 : m \in j * size + 1 .. j * size + size
            /\ \A j \in 0 .. n - 1 : j * size \in Nat /\ j * size + size <= n * size
<1> DEFINE S == {n \in Nat :
            /\ n * size \in Nat
            /\ \A m \in 1 .. n * size : \E j \in 0 .. n - 1 : m \in j * size + 1 .. j * size + size
            /\ \A j \in 0 .. n - 1 : j * size \in Nat /\ j * size + size <= n * size}
<1>1. 0 \in S
  <2>1. 0 * size = 0  OBVIOUS
  <2> QED  BY <2>1
<1>2. ASSUME NEW n \in Nat, 0 <= n, n \in S PROVE n + 1 \in S
  <2>1. (n + 1) * size = n * size + size  OBVIOUS
  <2>2. (n + 1) * size \in Nat /\ n * size \in Nat  BY <1>2, <2>1
  <2>3. ASSUME NEW m \in 1 .. (n + 1) * size
        PROVE  \E j \in 0 .. (n + 1) - 1 : m \in j * size + 1 .. j * size + size
    <3>1. CASE m <= n * size
      <4>1. m \in 1 .. n * size  BY <2>2, <3>1
      <4>2. PICK j \in 0 .. n - 1 : m \in j * size + 1 .. j * size + size  BY <1>2, <4>1
      <4>3. j \in 0 .. (n + 1) - 1  OBVIOUS
      <4> QED  BY <4>2, <4>3
    <3>2. CASE m > n * size
      <4>1. m \in n * size + 1 .. n * size + size  BY <2>1, <2>2, <3>2
      <4>2. n \in 0 .. (n + 1) - 1  OBVIOUS
      <4> QED  BY <4>1, <4>2
    <3> QED  BY <2>2, <3>1, <3>2
  <2>4. ASSUME NEW j \in 0 .. (n + 1) - 1 PROVE j * size \in Nat /\ j * size + size <= (n + 1) * size
    <3>1. CASE j = n  BY <2>1, <2>2, <3>1
    <3>2. CASE j # n
      <4>1. j \in 0 .. n - 1  BY <3>2
      <4>2. j * size \in Nat /\ j * size + size <= n * size  BY <1>2, <4>1
      <4> QED  BY <2>1, <2>2, <4>2
    <3> QED  BY <3>1, <3>2
  <2> QED  BY <2>2, <2>3, <2>4
<1>3. \A n \in Nat : 0 <= n => n \in S
  <2> HIDE DEF S
  <2> QED  BY <1>1, <1>2, UpwardFrom
<1>4. \A n \in Nat : n \in S
  <2> HIDE DEF S
  <2> QED  BY <1>3
<1> QED  BY <1>4, Zenon

LEMMA ListInit == ASSUME BootstrapInit PROVE ListInv
<1>1. FirstTip \in Blocks  BY BootstrapAssumption
<1> QED  BY <1>1 DEF BootstrapInit, ListInv, ListTypes, Begun, Alike

(* The first page is awaited. *)
LEMMA FirstPageAwaited ==
  ASSUME ListInv, StartListing
  PROVE  ListInv'
<1> USE DEF world, start, pages, queues, mints
<1>1. PageSize \in Nat \ {0} /\ Blocks \subseteq Nat /\ "koios" \in Providers
  BY BootstrapAssumption DEF Blocks, Providers
<1>2. /\ UNCHANGED <<world, start, rows>> /\ rows = {} /\ step' = "list" /\ from' = height["koios"]
      /\ pending' = {0} /\ offset' = PageSize /\ short' = FALSE /\ height["koios"] \in Nat
  BY <1>1 DEF StartListing, FirstPage, ListInv, ListTypes
<1>3. ListTypes'  BY <1>1, <1>2 DEF ListInv, ListTypes, RootAt, Held
<1>4. Begun'  BY <1>1, <1>2 DEF Begun
<1>5. PagesRead'
  <2> DEFINE k == height["koios"]
  <2>1. \A i \in Listed(k) : Place(i, k) \in Nat /\ 1 <= Place(i, k)  BY Places
  <2>2. \A i \in Listed(k) : Place(i, k) <= PageSize => OnPage(i, 0)  BY <1>1, <2>1 DEF OnPage
  <2>3. Listed(k)' = Listed(k) /\ \A i : Place(i, k)' = Place(i, k) /\ OnPage(i, 0)' = OnPage(i, 0)
    BY <1>2 DEF Listed, Place, OnPage, MintsOf
  <2> QED  BY <1>1, <1>2, <2>2, <2>3 DEF PagesRead
<1> QED  BY <1>2, <1>3, <1>4, <1>5 DEF ListInv, Alike

(* A page that is read is no longer awaited. *)
LEMMA PageRemoved ==
  ASSUME ListInv, NEW o \in pending, ReadPage(o)
  PROVE  ListInv'
<1> USE DEF world, start, pages, queues, mints
<1>0. ListTypes /\ Begun /\ Alike  BY DEF ListInv
<1>1. PageSize \in Nat \ {0} /\ Blocks \subseteq Nat /\ "koios" \in Providers
  BY BootstrapAssumption DEF Blocks, Providers
<1>2. /\ UNCHANGED <<world, step, start, offset, from>> /\ step = "list"
      /\ rows' = rows \union Keep(Page(o)) /\ pending' = pending \ {o}
      /\ short' = (short \/ LastPage(o))
  BY DEF ReadPage, PageRead
<1>3. ListTypes'  BY <1>0, <1>2 DEF ListTypes, RootAt, Held
<1>4. Begun'  BY <1>0, <1>2 DEF Begun
<1>5. ASSUME from = height["koios"] PROVE PagesRead'
  <2> DEFINE k == height["koios"]
  <2>1. PagesRead  BY <1>0, <1>2, <1>5 DEF Alike
  <2>2. Listed(k)' = Listed(k) /\ Held(k)' = Held(k)
        /\ \A i : Place(i, k)' = Place(i, k) /\ \A x : OnPage(i, x)' = OnPage(i, x)
    BY <1>2 DEF Listed, Place, OnPage, MintsOf, Held
  <2>3. o \in Nat /\ offset \in Nat /\ o + PageSize <= offset  BY <1>0, <2>1 DEF ListTypes, PagesRead
  <2>4. rows' \subseteq Held(k)  BY <1>2, <2>1 DEF PagesRead, Keep
  <2>5. ASSUME NEW i \in Listed(k), Place(i, k) <= offset
        PROVE  Order[i] \in rows' \/ Order[i] \notin Held(k) \/ \E x \in pending' : OnPage(i, x)
    <3>1. CASE Order[i] \in rows \/ Order[i] \notin Held(k)  BY <1>2, <3>1
    <3>2. CASE OnPage(i, o)  BY <1>2, <2>5, <3>2 DEF OnPage, Page, Keep
    <3>3. CASE ~OnPage(i, o) /\ \E x \in pending : OnPage(i, x)  BY <1>2, <3>3
    <3> QED  BY <2>1, <2>5, <3>1, <3>2, <3>3 DEF PagesRead
  <2>6. short' => Cardinality(Listed(k)) <= offset
    <3>1. ASSUME LastPage(o) PROVE Cardinality(Listed(k)) <= offset
      <4>1. CASE Listed(k) = {}
        <5>1. Cardinality(Listed(k)) = 0  BY <4>1, FS_EmptySet
        <5> QED  BY <2>3, <5>1
      <4>2. CASE Listed(k) # {}
        <5>1. Cardinality(Listed(k)) \in Nat  BY <4>2, Places
        <5> QED  BY <1>1, <2>3, <3>1, <5>1 DEF LastPage
      <4> QED  BY <4>1, <4>2
    <3> QED  BY <1>2, <2>1, <3>1 DEF PagesRead
  <2> HIDE DEF k
  <2>7. k' = k /\ k = height["koios"]  BY <1>2 DEF k
  <2>8. \A x \in pending' : x + PageSize <= offset'  BY <1>2, <2>1 DEF PagesRead
  <2> QED  BY <1>2, <2>2, <2>4, <2>5, <2>6, <2>7, <2>8 DEF PagesRead
<1> QED  BY <1>0, <1>2, <1>3, <1>4, <1>5 DEF ListInv, Alike

(* A round of pages goes on where the last one ended. *)
LEMMA PagesAdded ==
  ASSUME ListInv, NextPages
  PROVE  ListInv'
<1> USE DEF world, start, pages, queues, mints
<1>0. ListTypes /\ Begun /\ Alike  BY DEF ListInv
<1>1. PageSize \in Nat \ {0} /\ ParallelPages \in Nat \ {0} /\ Blocks \subseteq Nat
      /\ "koios" \in Providers
  BY BootstrapAssumption DEF Blocks, Providers
<1> DEFINE size == PageSize  n == ParallelPages
<1>2. /\ UNCHANGED <<world, step, start, short, from, rows>> /\ step \in {"list", "mints"}
      /\ pending = {} /\ ~short /\ pending' = {offset + j * size : j \in 0 .. n - 1} /\ offset' = offset + n * size
  BY DEF NextPages, Advanced
<1>3. /\ n * size \in Nat
      /\ \A m \in 1 .. n * size : \E j \in 0 .. n - 1 : m \in j * size + 1 .. j * size + size
      /\ \A j \in 0 .. n - 1 : j * size \in Nat /\ j * size + size <= n * size
  <2> HIDE DEF size, n
  <2>1. size \in Nat \ {0} /\ n \in Nat  BY <1>1 DEF size, n
  <2> QED  BY <2>1, Rounds
<1>4. offset \in Nat  BY <1>0 DEF ListTypes
<1>5. ListTypes'
  <2>1. offset' \in Nat /\ pending' \subseteq Nat  BY <1>2, <1>3, <1>4
  <2> QED  BY <1>0, <1>2, <2>1 DEF ListTypes, RootAt, Held
<1>6. Begun'  BY <1>0, <1>2 DEF Begun
<1>7. ASSUME step = "list", from = height["koios"] PROVE PagesRead'
  <2> DEFINE k == height["koios"]
  <2>1. PagesRead  BY <1>0, <1>7 DEF Alike
  <2>2. Listed(k)' = Listed(k) /\ Held(k)' = Held(k) /\ k' = k
        /\ \A i : Place(i, k)' = Place(i, k) /\ \A x : OnPage(i, x)' = OnPage(i, x)
    BY <1>2 DEF Listed, Place, OnPage, MintsOf, Held
  <2>3. \A x \in pending' : x + PageSize <= offset'
    <3> SUFFICES ASSUME NEW j \in 0 .. n - 1 PROVE (offset + j * size) + size <= offset + n * size
      BY <1>2
    <3>1. j * size \in Nat /\ j * size + size <= n * size  BY <1>3
    <3> HIDE DEF n
    <3> QED  BY <1>1, <1>3, <1>4, <3>1
  <2>4. ASSUME NEW i \in Listed(k), Place(i, k) <= offset'
        PROVE  Order[i] \in rows \/ Order[i] \notin Held(k) \/ \E x \in pending' : OnPage(i, x)
    <3>1. Place(i, k) \in Nat /\ 1 <= Place(i, k)  BY Places
    <3>2. CASE Place(i, k) <= offset  BY <1>2, <2>1, <3>2 DEF PagesRead
    <3>3. CASE Place(i, k) > offset
      <4> DEFINE m == Place(i, k) - offset
      <4>1. m \in 1 .. n * size  BY <1>2, <1>3, <1>4, <2>4, <3>1, <3>3
      <4>2. PICK j \in 0 .. n - 1 : m \in j * size + 1 .. j * size + size  BY <1>3, <4>1
      <4>3. j * size \in Nat  BY <1>3
      <4>4. Place(i, k) \in (offset + j * size) + 1 .. (offset + j * size) + size
        BY <1>1, <1>4, <3>1, <4>2, <4>3
      <4>5. OnPage(i, offset + j * size)  BY <4>4 DEF OnPage
      <4>6. offset + j * size \in pending'  BY <1>2
      <4> QED  BY <4>5, <4>6
    <3> QED  BY <1>4, <3>1, <3>2, <3>3
  <2>5. rows' \subseteq Held(k)  BY <1>2, <2>1 DEF PagesRead
  <2> HIDE DEF k
  <2>6. k = height["koios"]  BY DEF k
  <2> QED  BY <1>2, <2>2, <2>3, <2>4, <2>5, <2>6 DEF PagesRead
<1> QED  BY <1>0, <1>2, <1>5, <1>6, <1>7 DEF ListInv, Alike

(* The names of what is held are compared with those at the root. *)
LEMMA ComparedAlike ==
  ASSUME ListInv, Compare
  PROVE  ListInv'
<1> USE DEF world, start, pages, queues, mints
<1>0. ListTypes /\ Begun /\ Alike  BY DEF ListInv
<1>1. Blocks \subseteq Nat \ {0} /\ "koios" \in Providers  BY BootstrapAssumption DEF Blocks, Providers
<1>2. /\ UNCHANGED <<world, start, pages>> /\ step = "list" /\ pending = {} /\ short
      /\ step' = IF Matches THEN "outputs" ELSE "mismatch"
  BY DEF Compare
<1>3. ListTypes'  BY <1>0, <1>2 DEF ListTypes, RootAt, Held
<1>4. Begun'  BY <1>0, <1>2 DEF Begun
<1>5. ASSUME rootAt = from, from = height["koios"]
      PROVE  Matches <=> Held(rootAt) \intersect Registry = {}
  <2> DEFINE k == height["koios"]
  <2>1. PagesRead  BY <1>0, <1>2, <1>5 DEF Alike
  <2>2. k \in Blocks /\ chain \in Histories  BY <1>0, <1>1 DEF ListTypes
  <2>3. ASSUME NEW a \in Held(k) PROVE a \in rows
    <3>1. PICK i \in Listed(k) : Order[i] = a  BY <2>2, HeldIsListed
    <3>2. Place(i, k) \in Nat /\ Place(i, k) <= Cardinality(Listed(k)) /\ Cardinality(Listed(k)) \in Nat
      BY Places
    <3>3. Place(i, k) <= offset  BY <1>0, <1>2, <2>1, <3>2 DEF PagesRead, ListTypes
    <3> QED  BY <1>2, <2>1, <3>1, <3>3 DEF PagesRead
  <2>4. rows = Held(k)  BY <2>1, <2>3 DEF PagesRead
  <2>5. root = RootAt(k) /\ rootAt = k  BY <1>0, <1>1, <1>5, <2>2 DEF ListTypes
  <2> HIDE DEF k
  <2> DEFINE labels == Held(k) \intersect Registry
             labelled == {NameOf[a] : a \in labels}
  <2>6. labelled = {} <=> labels = {}  OBVIOUS
  <2>7. root.labelled = labelled /\ root.names = Names
    BY <2>4, <2>5 DEF Names, RootAt
  <2>8. Matches <=> labelled = {}
    BY <2>4, <2>5, <2>7 DEF Matches, ComputedRoot, RootAt, Names
  <2> QED  BY <2>5, <2>6, <2>8
<1>6. Held(rootAt)' = Held(rootAt)  BY <1>2 DEF Held
<1> QED  BY <1>2, <1>3, <1>4, <1>5, <1>6 DEF ListInv, Alike

LEMMA ListStep ==
  ASSUME ListInv, [BootstrapNext]_bootstrapVars
  PROVE  ListInv'
<1> USE DEF world, start, pages, queues, mints
<1>0. ListTypes /\ Begun /\ Alike  BY DEF ListInv
<1>1. MaxBlocks \in Nat \ {0} /\ Blocks = 1 .. MaxBlocks /\ "koios" \in Providers /\ "blockfrost" \in Providers
      /\ PageSize \in Nat
  BY BootstrapAssumption DEF Blocks, Providers
<1>2. ASSUME UNCHANGED <<chain, height, root, rootAt, offset, pending, short, from, rows>>,
             step' = step \/ step' \notin {"tips", "list", "outputs", "mismatch"}
      PROVE  ListInv'
  <2>1. ListTypes' /\ Begun'  BY <1>0, <1>2 DEF ListTypes, Begun, RootAt, Held
  <2>2. PagesRead' = PagesRead
    BY <1>2 DEF PagesRead, Listed, MintsOf, Held, OnPage, Place
  <2>3. Alike'  BY <1>0, <1>2, <2>2 DEF Alike, Held
  <2> QED  BY <2>1, <2>3 DEF ListInv
<1>3. CASE UNCHANGED bootstrapVars  BY <1>2, <1>3 DEF bootstrapVars
<1>4. ASSUME NEW p \in Providers, Follow(p) PROVE ListInv'
  <2>1. /\ height[p] < MaxBlocks /\ height' = [height EXCEPT ![p] = @ + 1]
        /\ UNCHANGED <<chain, step, start, pages, queues, mints, file>>
    BY <1>4 DEF Follow
  <2>2. height[p] + 1 \in Blocks  BY <1>0, <1>1, <2>1 DEF ListTypes
  <2>3. ListTypes'  BY <1>0, <2>1, <2>2 DEF ListTypes, RootAt, Held
  <2>4. height'["koios"] = height["koios"] \/ (height["koios"] < height'["koios"])
    BY <1>0, <1>1, <2>1 DEF ListTypes
  <2>5. height["koios"] \in Nat /\ height'["koios"] \in Nat  BY <1>0, <1>1, <2>3 DEF ListTypes
  <2>6. Begun'  BY <1>0, <2>1, <2>4, <2>5 DEF Begun
  <2>7. CASE height'["koios"] = height["koios"]
    <3>1. \A k : Listed(k)' = Listed(k) /\ Held(k)' = Held(k) /\ \A i : Place(i, k)' = Place(i, k)
      BY <2>1 DEF Listed, MintsOf, Held, Place
    <3>2. \A i, o : OnPage(i, o)' = OnPage(i, o)  BY <2>7, <3>1 DEF OnPage
    <3>3. PagesRead => PagesRead'  BY <2>1, <2>7, <3>1, <3>2 DEF PagesRead
    <3>4. Held(rootAt)' = Held(rootAt)  BY <2>1 DEF Held
    <3> QED  BY <1>0, <2>1, <2>3, <2>6, <2>7, <3>3, <3>4 DEF ListInv, Alike
  <2>8. CASE height["koios"] < height'["koios"]
    <3>1. step \in {"list", "outputs", "mismatch"} => from' # height'["koios"]
      BY <1>0, <2>1, <2>5, <2>8 DEF Begun
    <3> QED  BY <2>1, <2>3, <2>6, <3>1 DEF ListInv, Alike
  <2> QED  BY <2>4, <2>7, <2>8
<1>5. ASSUME NEW p \in Providers, ReadTip(p) PROVE ListInv'  BY <1>2, <1>5 DEF ReadTip
<1>6. CASE ProbeRoot \/ RootFromBlockfrost
  <2>1. /\ UNCHANGED <<world, step, pages>> /\ step = "tips"
        /\ (\E p \in Providers : TakeRoot(p)) \/ UNCHANGED <<root, rootAt>>
    BY <1>1, <1>6 DEF ProbeRoot, RootFromBlockfrost
  <2>2. ListTypes'
    <3>1. CASE UNCHANGED <<root, rootAt>>  BY <1>0, <2>1, <3>1 DEF ListTypes, RootAt, Held
    <3>2. CASE \E p \in Providers : TakeRoot(p)
      <4>1. PICK p \in Providers : TakeRoot(p)  BY <3>2
      <4>2. height[p] \in Nat  BY <1>0, <1>1 DEF ListTypes
      <4>3. root' = RootAt(rootAt') /\ rootAt' \in Nat  BY <4>1, <4>2 DEF TakeRoot
      <4> QED  BY <1>0, <2>1, <4>3 DEF ListTypes, RootAt, Held
    <3> QED  BY <2>1, <3>1, <3>2
  <2> QED  BY <2>1, <2>2 DEF ListInv, Begun, Alike
<1>7. ASSUME NEW o \in pending, ReadMintPage(o) PROVE ListInv'
  <2>1. /\ UNCHANGED <<world, step, start, offset, from, rows>> /\ step = "mints" /\ pending' \subseteq pending
    BY <1>7 DEF ReadMintPage, PageRead
  <2>2. ListTypes'  BY <1>0, <2>1 DEF ListTypes, RootAt, Held
  <2> QED  BY <2>1, <2>2 DEF ListInv, Begun, Alike
<1>8. CASE StartMints
  <2>1. UNCHANGED <<world, start, rows>> /\ step' = "mints" /\ pending' = {0} /\ offset' = PageSize
    BY <1>8 DEF StartMints, FirstPage
  <2>2. ListTypes'  BY <1>0, <1>1, <2>1 DEF ListTypes, RootAt, Held
  <2> QED  BY <2>1, <2>2 DEF ListInv, Begun, Alike
<1>9. CASE StartHistory \/ (\E a \in multi : ReadHistory(a)) \/ Write \/ Fails
  <2>1. /\ UNCHANGED <<world, start, pages>> /\ step' \in {"history", "written", "failed"}
    BY <1>9 DEF StartHistory, ReadHistory, Write, Fails
  <2> QED  BY <1>2, <2>1
<1>10. CASE Asks \/ \E r \in requests : KoiosAnswers(r) \/ Holder(r) \/ AtHolder(r) \/ TooLarge(r)
  <2>1. UNCHANGED <<world, step, start, pages>>
    BY <1>10 DEF Asks, TakeShared, TakeKoiosOnly, KoiosAnswers, Holder, AtHolder, TooLarge, Asking
  <2> QED  BY <1>2, <2>1
<1>11. CASE StartListing  BY <1>11, FirstPageAwaited
<1>12. CASE NextPages  BY <1>12, PagesAdded
<1>13. CASE \E o \in pending : ReadPage(o)  BY <1>13, PageRemoved
<1>14. CASE Compare  BY <1>14, ComparedAlike
<1> QED
  BY <1>3, <1>4, <1>5, <1>6, <1>7, <1>8, <1>9, <1>10, <1>11, <1>12, <1>13, <1>14
  DEF BootstrapNext, Script, Starts, Lists, Answers, Finishes

(***************************************************************************)
(* RootDecides: on a chain that stood still from the reading of the root   *)
(* to the last page, every page was read and the names read are those of   *)
(* the root, so the script gives up exactly if the value at one of them is *)
(* not the empty one it computes with.                                     *)
(***************************************************************************)
THEOREM BootstrapRoot == BootstrapSpec => []RootDecides
<1>1. BootstrapInit => ListInv  BY ListInit
<1>2. ListInv /\ [BootstrapNext]_bootstrapVars => ListInv'  BY ListStep
<1>3. ListInv => RootDecides  BY DEF ListInv, Alike, RootDecides
<1> QED  BY <1>1, <1>2, <1>3, PTL DEF BootstrapSpec
=============================================================================
