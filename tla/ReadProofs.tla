----------------------------- MODULE ReadProofs -----------------------------
(***************************************************************************)
(* What the two components that read promise.                              *)
(*                                                                         *)
(* KoiosFetch, for every number of hashes, batch and page size, pool,      *)
(* retry limit and set of waits: a read leaves no request behind, no       *)
(* request starts before what its provider stated is over, and a read that *)
(* returns has the rows of every hash that has any.  The actions are first *)
(* brought to a few kinds of step of one reader (ReaderKind); the          *)
(* invariants are then preserved kind by kind.                             *)
(*                                                                         *)
(* HandleQueries, for every set of handles, holders, requests and page     *)
(* size: whatever the scanner does between the calls of a request, every   *)
(* record sent is one the handle has had since the request came and        *)
(* matches it, a default handle was the holder's, and where nothing        *)
(* changed and every index was whole, the answer is exactly the handles    *)
(* and holders there are, in order and on the right page; a search that    *)
(* reads the slots range by range leaves no match out before another.      *)
(***************************************************************************)
EXTENDS KoiosFetch, HandleQueries, FiniteSetTheorems, SequenceTheorems,
        WellFoundedInduction, TLAPS

Failures == [of : {"none", "status", "transport", "fatal", "deadline"}, wait : Nat]

(* Integer division, and the two facts about it that batches need. *)
LEMMA Division ==
    ASSUME NEW n \in Nat, NEW d \in Nat \ {0}
    PROVE  n \div d \in Nat /\ (n \div d) * d <= n /\ n < (n \div d) * d + d
OBVIOUS

(* Two products of a divisor that lie less than one divisor apart are in   *)
(* order.                                                                  *)
LEMMA Quotient ==
    ASSUME NEW p \in Nat, NEW m \in Nat, NEW d \in Nat \ {0}, p * d < m * d + d
    PROVE  p <= m
<1>1. SUFFICES ASSUME p >= m + 1 PROVE FALSE  OBVIOUS
<1>2. p * d >= (m + 1) * d  BY <1>1
<1>3. (m + 1) * d = m * d + d  OBVIOUS
<1>4. p * d \in Nat /\ m * d \in Nat  OBVIOUS
<1>5. QED  BY <1>2, <1>3, <1>4

(* A function on 1 .. n is a sequence of length n. *)
LEMMA FunctionIsSeq ==
    ASSUME NEW S, NEW n \in Nat, NEW s \in [1 .. n -> S]
    PROVE  s \in Seq(S) /\ Len(s) = n
OBVIOUS

(* A list of two. *)
LEMMA Pair ==
    ASSUME NEW S, NEW a \in S, NEW b \in S
    PROVE  <<a, b>> \in Seq(S) /\ Len(<<a, b>>) = 2 /\ <<a, b>>[1] = a /\ <<a, b>>[2] = b
OBVIOUS

(* A list of one. *)
LEMMA Single ==
    ASSUME NEW S, NEW a \in S
    PROVE  <<a>> \in Seq(S) /\ Len(<<a>>) = 1 /\ <<a>>[1] = a /\ <<a>> # <<>>
OBVIOUS

(* The hashes of a batch are consecutive, and every hash is in its batch alone. *)
FirstOf(b) == (b - 1) * BatchSize + 1
LastOf(b) == IF b * BatchSize <= NHashes THEN b * BatchSize ELSE NHashes

(* The batches cover the hashes, and the last of them is not empty. *)
LEMMA BatchCountType == BatchCount \in Nat \ {0} /\ NHashes <= BatchCount * BatchSize
                        /\ (BatchCount - 1) * BatchSize < NHashes
<1>1. NHashes \in Nat \ {0} /\ BatchSize \in Nat \ {0}  BY FetchAssumption
<1> DEFINE n == NHashes + BatchSize - 1
<1>2. n \in Nat /\ BatchCount = n \div BatchSize  BY <1>1 DEF BatchCount
<1>3. BatchCount \in Nat /\ BatchCount * BatchSize <= n /\ n < BatchCount * BatchSize + BatchSize
  BY <1>1, <1>2, Division
<1>4. BatchCount # 0  BY <1>1, <1>3
<1>5. (BatchCount - 1) * BatchSize = BatchCount * BatchSize - BatchSize  BY <1>1, <1>3
<1>6. BatchCount * BatchSize \in Nat  BY <1>1, <1>3
<1>7. QED  BY <1>1, <1>3, <1>4, <1>5, <1>6

(* The hashes of a batch lie between its first and its last, which are     *)
(* hashes.                                                                 *)
LEMMA BatchBounds ==
    ASSUME NEW b \in 1 .. BatchCount
    PROVE  FirstOf(b) \in 1 .. NHashes /\ LastOf(b) \in FirstOf(b) .. NHashes
<1>1. NHashes \in Nat \ {0} /\ BatchSize \in Nat \ {0} /\ BatchCount \in Nat \ {0}
  BY FetchAssumption, BatchCountType
<1>2. (BatchCount - 1) * BatchSize < NHashes  BY BatchCountType
<1>3. (b - 1) * BatchSize <= (BatchCount - 1) * BatchSize  BY <1>1
<1>4. b * BatchSize = (b - 1) * BatchSize + BatchSize  BY <1>1
<1>5. (b - 1) * BatchSize \in Nat /\ (BatchCount - 1) * BatchSize \in Nat  BY <1>1
<1>6. QED  BY <1>1, <1>2, <1>3, <1>4, <1>5 DEF FirstOf, LastOf

(* A batch, as getKoiosBatches cuts it, is the run of hashes from its      *)
(* first to its last.                                                      *)
LEMMA BatchHashes ==
    ASSUME NEW b \in 1 .. BatchCount
    PROVE  /\ Batch(b) \in Seq(1 .. NHashes) /\ Batch(b) \in Seq(Nat)
           /\ Len(Batch(b)) = LastOf(b) - FirstOf(b) + 1
           /\ \A i \in 1 .. Len(Batch(b)) : Batch(b)[i] = FirstOf(b) + i - 1
<1>1. NHashes \in Nat \ {0} /\ BatchSize \in Nat \ {0} /\ BatchCount \in Nat \ {0}
  BY FetchAssumption, BatchCountType
<1>2. FirstOf(b) \in 1 .. NHashes /\ LastOf(b) \in FirstOf(b) .. NHashes  BY BatchBounds
<1>3. b * BatchSize = (b - 1) * BatchSize + BatchSize /\ (b - 1) * BatchSize \in Nat  BY <1>1
<1> DEFINE n == IF b * BatchSize <= NHashes THEN BatchSize ELSE NHashes - (b - 1) * BatchSize
<1>4. n \in Nat /\ n = LastOf(b) - FirstOf(b) + 1  BY <1>1, <1>2, <1>3 DEF FirstOf, LastOf
<1>5. Batch(b) = [i \in 1 .. n |-> FirstOf(b) + i - 1]
  <2>1. \A i \in 1 .. n : (b - 1) * BatchSize + i = FirstOf(b) + i - 1  BY <1>3, <1>4 DEF FirstOf
  <2>2. QED  BY <2>1 DEF Batch
<1> HIDE DEF n
<1>6. \A i \in 1 .. n : FirstOf(b) + i - 1 \in 1 .. NHashes /\ FirstOf(b) + i - 1 \in Nat
  BY <1>1, <1>2, <1>4
<1>7. Batch(b) \in [1 .. n -> 1 .. NHashes] /\ Batch(b) \in [1 .. n -> Nat]  BY <1>5, <1>6
<1>8. Batch(b) \in Seq(1 .. NHashes) /\ Batch(b) \in Seq(Nat) /\ Len(Batch(b)) = n
  <2>1. n \in Nat  BY <1>4
  <2>2. Batch(b) \in Seq(1 .. NHashes) /\ Len(Batch(b)) = n  BY <2>1, <1>7, FunctionIsSeq
  <2>3. Batch(b) \in Seq(Nat)  BY <2>1, <1>7, FunctionIsSeq
  <2>4. QED  BY <2>2, <2>3
<1>9. QED  BY <1>4, <1>5, <1>8

(* A hash is in the batch BatchOf names and in no other. *)
LEMMA BatchOfHash ==
    ASSUME NEW h \in 1 .. NHashes
    PROVE  /\ BatchOf(h) \in 1 .. BatchCount
           /\ \A b \in 1 .. BatchCount : (FirstOf(b) <= h /\ h <= LastOf(b)) <=> b = BatchOf(h)
<1>1. NHashes \in Nat \ {0} /\ BatchSize \in Nat \ {0} /\ BatchCount \in Nat \ {0}
  BY FetchAssumption, BatchCountType
<1> DEFINE m == (h - 1) \div BatchSize
<1>2. m \in Nat /\ m * BatchSize <= h - 1 /\ h - 1 < m * BatchSize + BatchSize  BY <1>1, Division
<1>3. BatchOf(h) = m + 1  BY DEF BatchOf
<1> HIDE DEF m
<1>4. m <= BatchCount - 1
  <2>1. NHashes <= (BatchCount - 1) * BatchSize + BatchSize  BY <1>1, BatchCountType
  <2>2. m * BatchSize < (BatchCount - 1) * BatchSize + BatchSize
    BY <1>1, <1>2, <2>1
  <2>3. QED  BY <1>1, <1>2, <2>2, Quotient
<1>5. ASSUME NEW b \in 1 .. BatchCount
      PROVE  (FirstOf(b) <= h /\ h <= LastOf(b)) <=> b = m + 1
  <2>1. b * BatchSize = (b - 1) * BatchSize + BatchSize /\ (b - 1) * BatchSize \in Nat  BY <1>1
  <2>2. ASSUME FirstOf(b) <= h, h <= LastOf(b) PROVE b = m + 1
    <3>1. (b - 1) * BatchSize < m * BatchSize + BatchSize
      BY <1>1, <1>2, <2>1, <2>2 DEF FirstOf
    <3>2. m * BatchSize < (b - 1) * BatchSize + BatchSize
      BY <1>1, <1>2, <2>1, <2>2 DEF LastOf
    <3>3. b - 1 <= m /\ m <= b - 1  BY <1>1, <1>2, <3>1, <3>2, Quotient
    <3>4. QED  BY <1>2, <3>3
  <2>3. ASSUME b = m + 1 PROVE FirstOf(b) <= h /\ h <= LastOf(b)
    BY <1>1, <1>2, <2>1, <2>3 DEF FirstOf, LastOf
  <2>4. QED  BY <2>2, <2>3
<1>6. QED  BY <1>1, <1>2, <1>3, <1>4, <1>5

-----------------------------------------------------------------------------
(* A reader that is off holds nothing, one with a request has a piece to read; *)
(* and nothing that a provider stated is forgotten by its limiter.             *)
Settled ==
    /\ next # 0
    /\ \A r \in Readers : reader[r].at = "off" => reader[r] = Off
    /\ \A r \in Readers : reader[r].at \in {"admit", "sent", "reply"} => reader[r].todo # <<>>
QuietKept ==
    \A p \in Providers : quiet[p] <= MaxOf(limiter[p].notBefore, limiter[p].nextStart)
FInv == FetchTypeOK /\ Settled /\ ReturnsDrained /\ QuietKept

(* What a reader's step makes of it, of the failure and of the batches taken. *)
Becomes(r, rd) == rd \in ReaderType /\ reader' = [reader EXCEPT ![r] = rd]
GivesUp(r) ==
    /\ Becomes(r, Off)
    /\ failure' \in Failures \ {NoError}
    /\ failure # NoError => failure' = failure
MayStart == Earliest = now /\ ~Late(now) /\ (Gated => failure = NoError)
Stays(r) ==
    \E rd \in ReaderType :
        /\ Becomes(r, rd) /\ failure' = failure
        /\ rd.at # "off" /\ rd.todo = reader[r].todo /\ rd.todo # <<>>
        /\ rd.rows \in {<<>>, reader[r].rows}
        /\ rd.at = "sent" => MayStart
Halved(r) ==
    LET size == Len(Piece(r))
        half == (size + 1) \div 2
    IN  <<SubSeq(Piece(r), 1, half), SubSeq(Piece(r), half + 1, size)>> \o Tail(reader[r].todo)
Halves(r) ==
    /\ stage = "koios" /\ Len(Piece(r)) > 1 /\ reader[r].todo # <<>>
    /\ Becomes(r, Asking(Halved(r))) /\ failure' = failure
TakesNext(r) ==
    /\ stage = "koios" /\ next \in 1 .. BatchCount /\ next' = next + 1
    /\ Becomes(r, Asking(<<Batch(next)>>)) /\ failure' = failure
Rests(r) ==
    /\ stage = "blockfrost" \/ next > BatchCount \/ failure # NoError
    /\ Becomes(r, Off) /\ next' = next /\ failure' = failure
GoesOn(r, rest) ==
    \E rd \in ReaderType :
        /\ Becomes(r, rd) /\ failure' = failure /\ next' = next
        /\ rd.todo = rest /\ rd.rows = <<>>
        /\ rd.at = "delay" \/ (rd.at = "admit" /\ rest # <<>>)
After(r, rest) ==
    \/ GivesUp(r) /\ next' \in {next, next + 1}
    \/ GoesOn(r, rest)
    \/ rest = <<>> /\ (TakesNext(r) \/ Rests(r))

(* A reader that is off is a reader. *)
LEMMA OffType == Off \in ReaderType
BY FetchAssumption DEF Off, ReaderType

(* A reader that asks for pieces has them to do, no rows and a first       *)
(* attempt.                                                                *)
LEMMA AskingType ==
    ASSUME NEW todo \in Seq(Seq(1 .. NHashes))
    PROVE  /\ Asking(todo) \in ReaderType
           /\ Asking(todo).at = "admit" /\ Asking(todo).todo = todo /\ Asking(todo).rows = <<>>
           /\ Asking(todo).attempt = 0
<1>1. Off \in ReaderType /\ Off.rows = <<>> /\ Off.attempt = 0  BY OffType DEF Off
<1>2. QED  BY <1>1 DEF Asking, ReaderType

(* A call that ends with an error turns its reader off and leaves a        *)
(* failure captured.                                                       *)
LEMMA ThrowKind ==
    ASSUME FetchTypeOK, NEW r \in Readers, NEW e \in Failures \ {NoError}, Throw(r, e)
    PROVE  GivesUp(r)
BY OffType DEF Throw, GivesUp, Becomes, Failures, FetchTypeOK

(* The deadline is an error like the others. *)
LEMMA DeadlineError == Error("deadline", 0) \in Failures \ {NoError}
BY DEF Error, NoError, Failures

(* A new attempt, half or batch is asked for, or the deadline ends the     *)
(* call.                                                                   *)
LEMMA AskKind ==
    ASSUME FetchTypeOK, NEW r \in Readers, NEW rd \in ReaderType, Ask(r, rd)
    PROVE  (Becomes(r, rd) /\ failure' = failure) \/ GivesUp(r)
BY ThrowKind, DeadlineError DEF Ask, Becomes

(* A wait is begun, or the deadline would come first and ends the call. *)
LEMMA DelayKind ==
    ASSUME FetchTypeOK, stage \in Providers, NEW r \in Readers,
           NEW d \in Nat, NEW rd \in ReaderType, Delay(r, d, rd)
    PROVE  \/ \E w \in Nat : Becomes(r, [rd EXCEPT !.at = "delay", !.wake = w]) /\ failure' = failure
           \/ GivesUp(r)
<1>1. CASE Late(WaitsUntil(d)) /\ Throw(r, Error("deadline", 0))
  BY <1>1, ThrowKind, DeadlineError
<1>2. CASE /\ ~Late(WaitsUntil(d))
           /\ reader' = [reader EXCEPT ![r] = [rd EXCEPT !.at = "delay", !.wake = WaitsUntil(d)]]
           /\ UNCHANGED failure
  <2>1. WaitsUntil(d) \in Nat
    BY DEF WaitsUntil, MaxOf, FetchTypeOK
  <2>2. [rd EXCEPT !.at = "delay", !.wake = WaitsUntil(d)] \in ReaderType
    BY <2>1 DEF ReaderType
  <2>3. QED  BY <1>2, <2>1, <2>2 DEF Becomes
<1>3. QED  BY <1>1, <1>2 DEF Delay

(* The halves of a piece, then the other pieces. *)
LEMMA HalvedType ==
    ASSUME FetchTypeOK, NEW r \in Readers, reader[r].todo # <<>>, Len(Piece(r)) > 1
    PROVE  LET half == (Len(Piece(r)) + 1) \div 2
               todo == reader[r].todo
           IN  /\ Halved(r) \in Seq(Seq(1 .. NHashes)) /\ Halved(r) # <<>>
               /\ half \in 1 .. Len(Piece(r)) /\ half < Len(Piece(r))
               /\ Len(Halved(r)) = Len(todo) + 1
               /\ Halved(r)[1] = SubSeq(Piece(r), 1, half)
               /\ Halved(r)[2] = SubSeq(Piece(r), half + 1, Len(Piece(r)))
               /\ \A i \in 3 .. Len(todo) + 1 : Halved(r)[i] = todo[i - 1]
<1> DEFINE todo == reader[r].todo
           size == Len(Piece(r))
           half == (size + 1) \div 2
<1>1. todo \in Seq(Seq(1 .. NHashes))  BY DEF FetchTypeOK, ReaderType
<1>2. Piece(r) \in Seq(1 .. NHashes) /\ size \in Nat  BY <1>1 DEF Piece
<1>3. half \in 1 .. size /\ half < size  BY <1>2
<1>4. todo # <<>> /\ \A i \in 1 .. size : Piece(r)[i] \in 1 .. NHashes
  BY <1>2, ElementOfSeq
<1> HIDE DEF half, size, todo
<1>5. half \in Int /\ half + 1 \in Int /\ size \in Int  BY <1>2, <1>3
<1>6. 1 .. half \subseteq 1 .. size /\ half + 1 .. size \subseteq 1 .. size  BY <1>2, <1>3
<1>7. SubSeq(Piece(r), 1, half) \in Seq(1 .. NHashes)  BY <1>4, <1>5, <1>6, SubSeqProperties
<1>8. SubSeq(Piece(r), half + 1, size) \in Seq(1 .. NHashes)
  BY <1>4, <1>5, <1>6, SubSeqProperties
<1>9. /\ Tail(todo) \in Seq(Seq(1 .. NHashes)) /\ Len(Tail(todo)) = Len(todo) - 1
      /\ \A i \in 1 .. Len(Tail(todo)) : Tail(todo)[i] = todo[i + 1]
  BY <1>1, <1>4, HeadTailProperties
<1> DEFINE halves == <<SubSeq(Piece(r), 1, half), SubSeq(Piece(r), half + 1, size)>>
<1>10. /\ halves \in Seq(Seq(1 .. NHashes)) /\ Len(halves) = 2
       /\ halves[1] = SubSeq(Piece(r), 1, half) /\ halves[2] = SubSeq(Piece(r), half + 1, size)
  BY <1>7, <1>8, Pair
<1>11. Halved(r) = halves \o Tail(todo)  BY DEF Halved, half, size, todo
<1> HIDE DEF halves
<1>12. /\ Halved(r) \in Seq(Seq(1 .. NHashes)) /\ Len(Halved(r)) = 2 + Len(Tail(todo))
       /\ \A i \in 1 .. 2 : Halved(r)[i] = halves[i]
       /\ \A i \in 3 .. 2 + Len(Tail(todo)) : Halved(r)[i] = Tail(todo)[i - 2]
  <2>1. Len(Tail(todo)) \in Nat  BY <1>9
  <2>2. /\ Halved(r) \in Seq(Seq(1 .. NHashes)) /\ Len(Halved(r)) = 2 + Len(Tail(todo))
        /\ \A i \in 1 .. 2 + Len(Tail(todo)) :
              Halved(r)[i] = IF i <= 2 THEN halves[i] ELSE Tail(todo)[i - 2]
    <3> DEFINE tail == Tail(todo)  S == Seq(1 .. NHashes)
    <3>1. halves \in Seq(S) /\ tail \in Seq(S) /\ Len(halves) = 2 /\ Halved(r) = halves \o tail
      BY <1>9, <1>10, <1>11
    <3> HIDE DEF tail, S
    <3>2. /\ halves \o tail \in Seq(S) /\ Len(halves \o tail) = Len(halves) + Len(tail)
          /\ \A i \in 1 .. Len(halves) + Len(tail) :
                (halves \o tail)[i] = IF i <= Len(halves) THEN halves[i] ELSE tail[i - Len(halves)]
      BY <3>1, ConcatProperties
    <3>3. QED  BY <3>1, <3>2 DEF tail, S
  <2>3. QED  BY <2>1, <2>2
<1>13. Len(todo) \in Nat \ {0} /\ Len(Halved(r)) = Len(todo) + 1
  BY <1>1, <1>4, <1>9, <1>12, EmptySeq
<1>14. Halved(r) # <<>>  BY <1>12, <1>13
<1>15. \A i \in 3 .. Len(todo) + 1 : Halved(r)[i] = todo[i - 1]
  <2>1. SUFFICES ASSUME NEW i \in 3 .. Len(todo) + 1 PROVE Halved(r)[i] = todo[i - 1]  OBVIOUS
  <2>2. i \in 3 .. 2 + Len(Tail(todo)) /\ i - 2 \in 1 .. Len(Tail(todo)) /\ (i - 2) + 1 = i - 1
    BY <1>9, <1>13
  <2>3. Halved(r)[i] = Tail(todo)[i - 2] /\ Tail(todo)[i - 2] = todo[(i - 2) + 1]
    BY <1>9, <1>12, <2>2
  <2>4. QED  BY <2>2, <2>3
<1>16. Halved(r)[1] = SubSeq(Piece(r), 1, half) /\ Halved(r)[2] = SubSeq(Piece(r), half + 1, size)
  BY <1>10, <1>12
<1>17. QED  BY <1>3, <1>12, <1>13, <1>14, <1>15, <1>16 DEF half, size, todo

(* A retry keeps the pieces and drops the rows of the attempt, or ends the *)
(* call.                                                                   *)
LEMMA RetryKind ==
    ASSUME FetchTypeOK, stage \in Providers, NEW r \in Readers, reader[r].todo # <<>>,
           NEW e \in Failures, TriesAgain(r, e), Retry(r, e)
    PROVE  Stays(r) \/ GivesUp(r)
<1> DEFINE rd == [Asking(reader[r].todo) EXCEPT !.attempt = reader[r].attempt + 1]
           d == MaxOf(Backoff, e.wait)
<1>1. reader[r].todo \in Seq(Seq(1 .. NHashes)) /\ reader[r].attempt \in 0 .. MaxRetries
  BY DEF FetchTypeOK, ReaderType
<1>2. d \in Nat  BY FetchAssumption DEF MaxOf, Failures
<1>3. reader[r].attempt + 1 \in 0 .. MaxRetries  BY <1>1, FetchAssumption DEF TriesAgain
<1>4. rd \in ReaderType /\ rd.todo = reader[r].todo /\ rd.rows = <<>>
  <2> DEFINE asking == Asking(reader[r].todo)
  <2>1. asking \in ReaderType /\ asking.todo = reader[r].todo /\ asking.rows = <<>>
    BY <1>1, AskingType
  <2> HIDE DEF asking
  <2>2. [asking EXCEPT !.attempt = reader[r].attempt + 1] \in ReaderType
    BY <1>3, <2>1 DEF ReaderType
  <2>3. QED  BY <2>1, <2>2 DEF asking, ReaderType
<1> HIDE DEF rd
<1>5. Delay(r, d, rd)  BY DEF Retry, rd
<1> HIDE DEF d
<1>6. \/ \E w \in Nat : Becomes(r, [rd EXCEPT !.at = "delay", !.wake = w]) /\ failure' = failure
      \/ GivesUp(r)
  BY <1>2, <1>4, <1>5, DelayKind
<1>7. ASSUME NEW w \in Nat, Becomes(r, [rd EXCEPT !.at = "delay", !.wake = w]), failure' = failure
      PROVE  Stays(r)
  <2> DEFINE to == [rd EXCEPT !.at = "delay", !.wake = w]
  <2>1. to \in ReaderType /\ to.at = "delay" /\ to.todo = reader[r].todo /\ to.rows = <<>>
    BY <1>4 DEF ReaderType
  <2>2. Becomes(r, to)  BY <1>7
  <2> HIDE DEF to
  <2>3. QED  BY <1>7, <2>1, <2>2 DEF Stays
<1>8. QED  BY <1>6, <1>7

(* A split leaves the halves to do, or ends the call. *)
LEMMA SplitKind ==
    ASSUME FetchTypeOK, stage = "koios", NEW r \in Readers, reader[r].todo # <<>>,
           Len(Piece(r)) > 1, Ask(r, Asking(Halved(r)))
    PROVE  Halves(r) \/ GivesUp(r)
BY HalvedType, AskingType, AskKind DEF Halves

(* Whatever the error: another attempt, two halves, or the end of this call. *)
LEMMA CaughtKind ==
    ASSUME FetchTypeOK, stage \in Providers, NEW r \in Readers, reader[r].todo # <<>>,
           NEW e \in Failures \ {NoError}, Caught(r, e)
    PROVE  Stays(r) \/ Halves(r) \/ GivesUp(r)
<1>1. ASSUME stage = "koios", CaughtSplitting(r, e)
      PROVE  Stays(r) \/ Halves(r) \/ GivesUp(r)
  BY <1>1, RetryKind, SplitKind, ThrowKind DEF CaughtSplitting, Halved
<1>2. ASSUME CaughtDatum(r, e) PROVE Stays(r) \/ GivesUp(r)
  BY <1>2, RetryKind, ThrowKind DEF CaughtDatum
<1>3. ASSUME CaughtAsset(r, e) PROVE Stays(r) \/ GivesUp(r)
  <2>1. failure \in Failures  BY DEF FetchTypeOK, Failures
  <2>2. QED  BY <1>3, <2>1, RetryKind, ThrowKind DEF CaughtAsset
<1>4. QED  BY <1>1, <1>2, <1>3 DEF Caught, CaughtFallback

(* The loops of the pools: the next batch is taken, or the reader rests. *)
LEMMA NextBatchKind ==
    ASSUME FetchTypeOK, Settled, stage \in Providers, NEW r \in Readers, NextBatch(r)
    PROVE  After(r, <<>>)
<1>1. ASSUME stage = "koios", next <= BatchCount, Ask(r, Asking(<<Batch(next)>>)), next' = next + 1
      PROVE  After(r, <<>>)
  <2>1. next \in 1 .. BatchCount  BY <1>1, BatchCountType DEF FetchTypeOK, Settled
  <2>2. <<Batch(next)>> \in Seq(Seq(1 .. NHashes))  BY <2>1, BatchHashes
  <2>3. Asking(<<Batch(next)>>) \in ReaderType  BY <2>2, AskingType
  <2>4. QED  BY <1>1, <2>1, <2>3, AskKind DEF After, TakesNext
<1>2. ASSUME stage = "blockfrost" \/ next > BatchCount \/ failure # NoError,
             reader' = [reader EXCEPT ![r] = Off], UNCHANGED <<failure, next>>
      PROVE  After(r, <<>>)
  BY <1>2, OffType DEF After, Rests, Becomes
<1>3. QED  BY <1>1, <1>2 DEF NextBatch

(* What a reply with rows comes to. *)
Pages(r) ==
    \E rd \in ReaderType :
        /\ Becomes(r, rd) /\ UNCHANGED <<failure, next, results, absent>>
        /\ rd.at = "admit" /\ rd.todo = reader[r].todo /\ rd.todo # <<>>
        /\ \/ rd.rows = reader[r].rows
           \/ Paced /\ stage = "koios" /\ rd.rows = reader[r].rows \o PageOf(r)
Finishes(r) ==
    /\ reader[r].todo # <<>>
    /\ \E page \in {PageOf(r), <<>>} :
        /\ Paced /\ stage = "koios" => Len(page) # PageRows
        /\ absent' = IF page = PageOf(r) THEN absent
                     ELSE absent \union {Piece(r)[i] : i \in Len(reader[r].rows) + 1 .. Len(Piece(r))}
        /\ results' = [results EXCEPT ![BatchOf(Piece(r)[1])] = @ \o (reader[r].rows \o page)]
    /\ After(r, Tail(reader[r].todo))

ReaderKind(r) ==
    \/ (Stays(r) \/ Halves(r) \/ GivesUp(r)) /\ UNCHANGED <<next, results, absent>>
    \/ Pages(r)
    \/ Finishes(r)
    \/ reader[r].todo = <<>> /\ After(r, <<>>) /\ UNCHANGED <<results, absent>>

(* The piece being read, the pieces after it and the next page are lists   *)
(* of hashes.                                                              *)
LEMMA PieceType ==
    ASSUME FetchTypeOK, NEW r \in Readers, reader[r].todo # <<>>
    PROVE  /\ Piece(r) \in Seq(1 .. NHashes)
           /\ Tail(reader[r].todo) \in Seq(Seq(1 .. NHashes))
           /\ PageOf(r) \in Seq(1 .. NHashes)
<1>1. reader[r].todo \in Seq(Seq(1 .. NHashes)) /\ reader[r].rows \in Seq(1 .. NHashes)
  BY DEF FetchTypeOK, ReaderType
<1>2. Piece(r) \in Seq(1 .. NHashes) /\ Tail(reader[r].todo) \in Seq(Seq(1 .. NHashes))
  BY <1>1, HeadTailProperties DEF Piece
<1>3. CASE ~(Paced /\ stage = "koios")  BY <1>2, <1>3 DEF PageOf
<1>4. CASE Paced /\ stage = "koios"
  <2> DEFINE from == Len(reader[r].rows)
             size == Len(Piece(r))
             left == size - from
             upto == from + (IF left < PageRows THEN left ELSE PageRows)
  <2>1. from \in Nat /\ size \in Nat /\ PageRows \in Nat  BY <1>1, <1>2, FetchAssumption
  <2>2. PageOf(r) = SubSeq(Piece(r), from + 1, upto)  BY <1>4 DEF PageOf
  <2>3. \A i \in 1 .. size : Piece(r)[i] \in 1 .. NHashes  BY <1>2, ElementOfSeq
  <2> HIDE DEF from, size
  <2>4. from + 1 \in Int /\ upto \in Int  BY <2>1
  <2>5. \A i \in from + 1 .. upto : i \in 1 .. size  BY <2>1
  <2> HIDE DEF left, upto
  <2>6. \A i \in from + 1 .. upto : Piece(r)[i] \in 1 .. NHashes  BY <2>3, <2>5
  <2>7. SubSeq(Piece(r), from + 1, upto) \in Seq(1 .. NHashes)  BY <2>4, <2>6, SubSeqProperties
  <2>8. QED  BY <1>2, <2>2, <2>7
<1>5. QED  BY <1>2, <1>3, <1>4

(* A question to the gate ends in a wait, a start, a retry or an error; no *)
(* row changes.                                                            *)
LEMMA AdmitKind ==
    ASSUME FInv, NEW r \in Readers, Admit(r)
    PROVE  (Stays(r) \/ Halves(r) \/ GivesUp(r)) /\ UNCHANGED <<next, results, absent>>
<1>1. FetchTypeOK /\ reader[r].at = "admit" /\ reader[r].todo # <<>> /\ reader[r] \in ReaderType
  BY DEF FInv, Settled, Admit, FetchTypeOK
<1>2. stage \in Providers  BY <1>1 DEF FInv, ReturnsDrained, Running
<1>3. UNCHANGED <<next, results, absent>>  BY DEF Admit
<1>4. ASSUME Gated, failure # NoError, Caught(r, failure) PROVE Stays(r) \/ Halves(r) \/ GivesUp(r)
  BY <1>1, <1>2, <1>4, CaughtKind DEF FetchTypeOK, Failures
<1>5. ASSUME Caught(r, Error("deadline", 0)) PROVE Stays(r) \/ Halves(r) \/ GivesUp(r)
  BY <1>1, <1>2, <1>5, CaughtKind, DeadlineError
<1>6. ASSUME Sleep(r) PROVE Stays(r)
  <2> DEFINE rd == [reader[r] EXCEPT !.wake = Earliest]
  <2>1. Earliest \in Nat  BY <1>1, <1>2 DEF Earliest, MaxOf, FetchTypeOK
  <2>2. rd \in ReaderType  BY <1>1, <2>1 DEF ReaderType
  <2>3. rd.at = "admit" /\ rd.todo = reader[r].todo /\ rd.rows = reader[r].rows
    BY <1>1 DEF ReaderType
  <2>4. reader' = [reader EXCEPT ![r] = rd] /\ failure' = failure  BY <1>6 DEF Sleep
  <2> HIDE DEF rd
  <2>5. QED  BY <1>1, <2>2, <2>3, <2>4 DEF Stays, Becomes
<1>7. ASSUME Start(r), MayStart PROVE Stays(r)
  <2> DEFINE rd == [reader[r] EXCEPT !.at = "sent"]
  <2>1. rd \in ReaderType  BY <1>1 DEF ReaderType
  <2>2. rd.at = "sent" /\ rd.todo = reader[r].todo /\ rd.rows = reader[r].rows
    BY <1>1 DEF ReaderType
  <2>3. reader' = [reader EXCEPT ![r] = rd] /\ failure' = failure  BY <1>7 DEF Start
  <2> HIDE DEF rd
  <2>4. QED  BY <1>1, <1>7, <2>1, <2>2, <2>3 DEF Stays, Becomes
<1>8. QED  BY <1>3, <1>4, <1>5, <1>6, <1>7 DEF Admit, MayStart

(* Headers that state a wait change nothing but the reader and the         *)
(* limiter.                                                                *)
LEMMA HeadersKind ==
    ASSUME FInv, NEW r \in Readers, Headers(r)
    PROVE  Stays(r) /\ UNCHANGED <<next, results, absent>>
<1>1. reader[r].at = "sent" /\ reader[r].todo # <<>> /\ reader[r] \in ReaderType
  BY DEF FInv, Settled, Headers, FetchTypeOK
<1>2. PICK h \in Holds \union {0} :
          Stated(h) /\ reader' = [reader EXCEPT ![r].at = "reply", ![r].hint = h]
  BY DEF Headers
<1> DEFINE rd == [reader[r] EXCEPT !.at = "reply", !.hint = h]
<1>3. h \in Nat  BY FetchAssumption
<1>4. rd \in ReaderType  BY <1>1, <1>3 DEF ReaderType
<1>5. rd.at = "reply" /\ rd.todo = reader[r].todo /\ rd.rows = reader[r].rows
  BY <1>1 DEF ReaderType
<1>6. reader' = [reader EXCEPT ![r] = rd]  BY <1>1, <1>2 DEF FInv, FetchTypeOK
<1> HIDE DEF rd
<1>7. QED  BY <1>1, <1>4, <1>5, <1>6 DEF Stays, Becomes, Headers

(* A request that breaks or is refused ends in a retry, halves or an       *)
(* error.                                                                  *)
LEMMA BrokenKind ==
    ASSUME FInv, NEW r \in Readers, Broken(r) \/ Refused(r)
    PROVE  (Stays(r) \/ Halves(r) \/ GivesUp(r)) /\ UNCHANGED <<next, results, absent>>
<1>1. FetchTypeOK /\ reader[r].at # "off" /\ reader[r].todo # <<>> /\ reader[r] \in ReaderType
  BY DEF FInv, Settled, Broken, Refused, FetchTypeOK
<1>2. stage \in Providers  BY <1>1 DEF FInv, ReturnsDrained, Running
<1>3. UNCHANGED <<next, results, absent>>  BY DEF Broken, Refused
<1>4. CASE Broken(r)
  <2>1. Error("transport", 0) \in Failures \ {NoError}  BY DEF Error, NoError, Failures
  <2>2. QED  BY <1>1, <1>2, <1>3, <1>4, <2>1, CaughtKind DEF Broken
<1>5. CASE Refused(r)
  <2>1. PICK h \in Holds \union {0}, e \in {"status", "fatal"} :
            Caught(r, Error(e, MaxOf(reader[r].hint, h)))
    BY <1>5 DEF Refused
  <2>2. MaxOf(reader[r].hint, h) \in Nat
    <3>1. h \in Nat  BY FetchAssumption
    <3>2. reader[r].hint \in Nat  BY <1>1 DEF ReaderType
    <3>3. QED  BY <3>1, <3>2 DEF MaxOf
  <2>3. Error(e, MaxOf(reader[r].hint, h)) \in Failures \ {NoError}
    BY <2>2 DEF Error, NoError, Failures
  <2>4. QED  BY <1>1, <1>2, <1>3, <2>1, <2>3, CaughtKind
<1>6. QED  BY <1>4, <1>5

(* A reader that wakes asks again, goes on to the next batch or throws. *)
LEMMA WakeKind ==
    ASSUME FInv, NEW r \in Readers, Wake(r)
    PROVE  /\ UNCHANGED <<results, absent>>
           /\ \/ (Stays(r) \/ GivesUp(r)) /\ next' = next
              \/ reader[r].todo = <<>> /\ After(r, <<>>)
<1>1. FetchTypeOK /\ Settled /\ reader[r].at = "delay" /\ reader[r] \in ReaderType
  BY DEF FInv, Wake, FetchTypeOK
<1>2. stage \in Providers  BY <1>1 DEF FInv, ReturnsDrained, Running
<1>3. UNCHANGED <<results, absent>>  BY DEF Wake
<1>4. CASE Throw(r, Error("deadline", 0)) /\ next' = next
  BY <1>1, <1>3, <1>4, ThrowKind, DeadlineError
<1>5. CASE reader[r].todo = <<>> /\ NextBatch(r)
  BY <1>1, <1>2, <1>3, <1>5, NextBatchKind
<1>6. CASE /\ reader[r].todo # <<>> /\ reader' = [reader EXCEPT ![r].at = "admit"]
           /\ UNCHANGED <<failure, next>>
  <2> DEFINE rd == [reader[r] EXCEPT !.at = "admit"]
  <2>1. rd \in ReaderType /\ reader' = [reader EXCEPT ![r] = rd]  BY <1>1, <1>6 DEF ReaderType
  <2>2. rd.at = "admit" /\ rd.todo = reader[r].todo /\ rd.rows = reader[r].rows
    BY <1>1 DEF ReaderType
  <2> HIDE DEF rd
  <2>3. QED  BY <1>3, <1>6, <2>1, <2>2 DEF Stays, Becomes
<1>7. QED  BY <1>4, <1>5, <1>6 DEF Wake

(* A reply without all its rows is the end of the piece: only then are the *)
(* hashes that have none counted as absent.                                *)
LEMMA MoreIsWhole ==
    ASSUME FInv, NEW r \in Readers, reader[r].todo # <<>>, NEW page \in {PageOf(r), <<>>},
           (page = <<>> /\ stage = "blockfrost") => kind \in {"datum_info", "block_txs"},
           reader[r].parts + 1 < RequestsPerHash \/ MorePages(page)
    PROVE  page = PageOf(r)
<1>1. CASE MorePages(page)
  <2>1. page # <<>>  BY <1>1, FetchAssumption DEF MorePages
  <2>2. QED  BY <2>1
<1>2. CASE reader[r].parts + 1 < RequestsPerHash
  <2>1. reader[r].parts \in Nat  BY DEF FInv, FetchTypeOK, ReaderType
  <2>2. kind = "tx_info" /\ stage = "blockfrost"  BY <1>2, <2>1 DEF RequestsPerHash
  <2>3. QED  BY <2>2
<1>3. QED  BY <1>1, <1>2

(* A reply with rows is one page of several, or the end of its piece. *)
LEMMA AnsweredKind ==
    ASSUME FInv, NEW r \in Readers, Answered(r)
    PROVE  Pages(r) \/ Finishes(r)
<1>1. /\ FetchTypeOK /\ Settled /\ reader[r].at = "reply" /\ reader[r].todo # <<>>
      /\ reader[r] \in ReaderType
  BY DEF FInv, Settled, Answered, FetchTypeOK
<1>2. stage \in Providers  BY <1>1 DEF FInv, ReturnsDrained, Running
<1> DEFINE me == reader[r]
           rest == Tail(me.todo)
           more(page) == me.parts + 1 < RequestsPerHash \/ MorePages(page)
<1>3. PICK h \in Holds \union {0}, page \in {PageOf(r), <<>>} :
        /\ (page = <<>> /\ stage = "blockfrost") => kind \in {"datum_info", "block_txs"}
        /\ absent' = IF page = PageOf(r) THEN absent
                     ELSE absent \union {Piece(r)[i] : i \in Len(me.rows) + 1 .. Len(Piece(r))}
        /\ IF more(page)
           THEN /\ reader' = [reader EXCEPT ![r] =
                        [me EXCEPT !.at = "admit", !.wake = 0, !.hint = 0, !.parts = @ + 1,
                                   !.rows = IF MorePages(page) THEN me.rows \o page ELSE @]]
                /\ UNCHANGED <<next, failure, results>>
           ELSE /\ results' = [results EXCEPT ![BatchOf(Piece(r)[1])] = @ \o (me.rows \o page)]
                /\ IF Paced /\ (rest = <<>> \/ stage = "blockfrost")
                   THEN Delay(r, 1, Asking(rest)) /\ UNCHANGED next
                   ELSE IF rest = <<>> THEN NextBatch(r)
                   ELSE Ask(r, Asking(rest)) /\ UNCHANGED next
  BY DEF Answered
<1>4. Piece(r) \in Seq(1 .. NHashes) /\ rest \in Seq(Seq(1 .. NHashes))
      /\ PageOf(r) \in Seq(1 .. NHashes)
  BY <1>1, PieceType
<1>5. CASE more(page)
  <2> DEFINE rows == IF MorePages(page) THEN me.rows \o page ELSE me.rows
             rd == [me EXCEPT !.at = "admit", !.wake = 0, !.hint = 0, !.parts = @ + 1, !.rows = rows]
  <2>1. page = PageOf(r) /\ absent' = absent  BY <1>1, <1>3, <1>5, MoreIsWhole
  <2>2. MorePages(page) => Paced /\ stage = "koios"  BY DEF MorePages
  <2>3. rows \in Seq(1 .. NHashes)
    <3>1. me.rows \in Seq(1 .. NHashes) /\ page \in Seq(1 .. NHashes)
      BY <1>1, <1>4, <2>1 DEF ReaderType
    <3> HIDE DEF me
    <3>2. me.rows \o page \in Seq(1 .. NHashes)  BY <3>1, ConcatProperties
    <3>3. QED  BY <3>1, <3>2
  <2>4. rows = me.rows \/ (Paced /\ stage = "koios" /\ rows = me.rows \o PageOf(r))
    BY <2>1, <2>2
  <2>5. reader' = [reader EXCEPT ![r] =
                     [me EXCEPT !.at = "admit", !.wake = 0, !.hint = 0, !.parts = @ + 1,
                                !.rows = IF MorePages(page) THEN me.rows \o page ELSE @]]
    BY <1>3, <1>5
  <2>6. reader' = [reader EXCEPT ![r] = rd]
    <3>1. (IF MorePages(page) THEN me.rows \o page ELSE me.rows) = rows  OBVIOUS
    <3> HIDE DEF rows
    <3>2. QED  BY <2>5, <3>1
  <2> HIDE DEF rows
  <2>7. rd \in ReaderType
    <3>1. me \in ReaderType /\ me.parts + 1 \in Nat  BY <1>1 DEF ReaderType
    <3> HIDE DEF me
    <3>2. QED  BY <2>3, <3>1 DEF ReaderType
  <2>8. rd.at = "admit" /\ rd.todo = me.todo /\ rd.rows = rows  BY <1>1 DEF ReaderType
  <2>9. UNCHANGED <<failure, next, results>>  BY <1>3, <1>5
  <2> HIDE DEF rd
  <2>10. QED  BY <1>1, <2>1, <2>4, <2>6, <2>7, <2>8, <2>9 DEF Pages, Becomes
<1>6. CASE ~more(page)
  <2>1. Paced /\ stage = "koios" => Len(page) # PageRows  BY <1>6 DEF MorePages
  <2>2. results' = [results EXCEPT ![BatchOf(Piece(r)[1])] = @ \o (me.rows \o page)]
    BY <1>3, <1>6
  <2>3. /\ Asking(rest) \in ReaderType
        /\ Asking(rest).at = "admit" /\ Asking(rest).todo = rest /\ Asking(rest).rows = <<>>
    BY <1>4, AskingType
  <2>4. After(r, rest)
    <3>1. CASE Delay(r, 1, Asking(rest)) /\ next' = next
      <4>1. \/ \E w \in Nat : Becomes(r, [Asking(rest) EXCEPT !.at = "delay", !.wake = w]) /\ failure' = failure
            \/ GivesUp(r)
        BY <1>1, <1>2, <2>3, <3>1, DelayKind
      <4>2. ASSUME NEW w \in Nat, Becomes(r, [Asking(rest) EXCEPT !.at = "delay", !.wake = w]),
                   failure' = failure
            PROVE  GoesOn(r, rest)
        <5> DEFINE rd == [Asking(rest) EXCEPT !.at = "delay", !.wake = w]
        <5>1. rd \in ReaderType /\ rd.at = "delay" /\ rd.todo = rest /\ rd.rows = <<>>
          BY <2>3 DEF ReaderType
        <5>2. Becomes(r, rd)  BY <4>2
        <5> HIDE DEF rd
        <5>3. QED  BY <3>1, <4>2, <5>1, <5>2 DEF GoesOn
      <4>3. QED  BY <3>1, <4>1, <4>2 DEF After
    <3>2. CASE rest = <<>> /\ NextBatch(r)
      BY <1>1, <1>2, <3>2, NextBatchKind
    <3>3. CASE rest # <<>> /\ Ask(r, Asking(rest)) /\ next' = next
      <4>1. (Becomes(r, Asking(rest)) /\ failure' = failure) \/ GivesUp(r)
        BY <1>1, <2>3, <3>3, AskKind
      <4> HIDE DEF rest
      <4>2. QED  BY <2>3, <3>3, <4>1 DEF After, GoesOn
    <3>4. QED  BY <1>3, <1>6, <3>1, <3>2, <3>3
  <2>5. QED  BY <1>1, <1>3, <2>1, <2>2, <2>4 DEF Finishes
<1>7. QED  BY <1>5, <1>6

(* Every step of a reader is of one of these kinds, while the read is      *)
(* running.                                                                *)
LEMMA ReaderKinds ==
    ASSUME FInv, NEW r \in Readers, ReaderStep(r)
    PROVE  ReaderKind(r) /\ stage \in Providers /\ UNCHANGED <<kind, stage, now>>
<1>1. reader[r].at # "off" /\ UNCHANGED <<kind, stage, now>>
  BY DEF ReaderStep, Admit, Headers, Broken, Refused, Answered, Wake
<1>2. stage \in Providers  BY <1>1 DEF FInv, ReturnsDrained, Running
<1>3. CASE Admit(r)  BY <1>1, <1>2, <1>3, AdmitKind DEF ReaderKind
<1>4. CASE Headers(r)  BY <1>1, <1>2, <1>4, HeadersKind DEF ReaderKind
<1>5. CASE Broken(r) \/ Refused(r)  BY <1>1, <1>2, <1>5, BrokenKind DEF ReaderKind
<1>6. CASE Answered(r)  BY <1>1, <1>2, <1>6, AnsweredKind DEF ReaderKind
<1>7. CASE Wake(r)  BY <1>1, <1>2, <1>7, WakeKind DEF ReaderKind
<1>8. QED  BY <1>3, <1>4, <1>5, <1>6, <1>7 DEF ReaderStep

-----------------------------------------------------------------------------
(* The limiter: left alone, told of a wait, or asked for a start that is due. *)
Claims(r) ==
    /\ Earliest = now
    /\ limiter' = [limiter EXCEPT ![stage] = Claim(@)]
    /\ quiet' = [quiet EXCEPT ![stage] = MaxOf(@, now + Interval)]

(* What a step of a reader does to the limiter of its provider. *)
LEMMA LimiterKinds ==
    ASSUME NEW r \in Readers, ReaderStep(r)
    PROVE  \/ UNCHANGED <<limiter, quiet>>
           \/ \E h \in Holds \union {0} : Stated(h)
           \/ Claims(r)
<1>1. CASE Admit(r)  BY <1>1 DEF Admit, Sleep, Start, Claims
<1>2. CASE Headers(r)  BY <1>2 DEF Headers
<1>3. CASE Broken(r)  BY <1>3 DEF Broken
<1>4. CASE Refused(r)  BY <1>4 DEF Refused
<1>5. CASE Answered(r)  BY <1>5 DEF Answered
<1>6. CASE Wake(r)  BY <1>6 DEF Wake
<1>7. QED  BY <1>1, <1>2, <1>3, <1>4, <1>5, <1>6 DEF ReaderStep

(* Nothing a provider stated is forgotten: remember only extends, a start  *)
(* claims.                                                                 *)
LEMMA LimiterStep ==
    ASSUME FetchTypeOK, QuietKept, stage \in Providers,
           NEW r \in Readers, ReaderStep(r)
    PROVE  /\ limiter' \in [Providers -> [notBefore : Nat, nextStart : Nat]]
           /\ quiet' \in [Providers -> Nat]
           /\ QuietKept'
<1> DEFINE Limiters == [Providers -> [notBefore : Nat, nextStart : Nat]]
<1>1. limiter \in Limiters /\ quiet \in [Providers -> Nat] /\ now \in Nat
  BY DEF FetchTypeOK
<1>2. CASE UNCHANGED <<limiter, quiet>>  BY <1>1, <1>2 DEF QuietKept
<1>3. ASSUME NEW h \in Holds \union {0}, Stated(h), h # 0
      PROVE  limiter' \in Limiters /\ quiet' \in [Providers -> Nat] /\ QuietKept'
  <2>1. h \in Nat  BY FetchAssumption
  <2>2. limiter' = [limiter EXCEPT ![stage].notBefore = MaxOf(@, now + h)]
    BY <1>1, <1>3 DEF Stated, Remember
  <2>3. quiet' = [quiet EXCEPT ![stage] = MaxOf(@, now + h)]  BY <1>3 DEF Stated
  <2>4. limiter' \in Limiters /\ quiet' \in [Providers -> Nat]
    BY <1>1, <2>1, <2>2, <2>3 DEF MaxOf
  <2>5. ASSUME NEW p \in Providers
        PROVE  quiet'[p] <= MaxOf(limiter'[p].notBefore, limiter'[p].nextStart)
    <3>1. CASE p # stage  BY <1>1, <2>2, <2>3, <3>1 DEF QuietKept
    <3>2. CASE p = stage
      <4>1. limiter'[p].notBefore = MaxOf(limiter[p].notBefore, now + h)
            /\ limiter'[p].nextStart = limiter[p].nextStart /\ quiet'[p] = MaxOf(quiet[p], now + h)
        BY <1>1, <2>2, <2>3, <3>2
      <4>2. quiet[p] <= MaxOf(limiter[p].notBefore, limiter[p].nextStart)  BY DEF QuietKept
      <4>3. limiter[p].notBefore \in Nat /\ limiter[p].nextStart \in Nat /\ quiet[p] \in Nat
        BY <1>1
      <4>4. QED  BY <1>1, <2>1, <4>1, <4>2, <4>3 DEF MaxOf
    <3>3. QED  BY <3>1, <3>2
  <2>6. QED  BY <2>4, <2>5 DEF QuietKept
<1>4. ASSUME NEW h \in Holds \union {0}, Stated(h), h = 0
      PROVE  UNCHANGED <<limiter, quiet>>
  BY <1>4 DEF Stated
<1>5. CASE Claims(r)
  <2>1. Interval \in {0, 1}  BY DEF Interval
  <2>2. limiter' = [limiter EXCEPT ![stage].nextStart = now + Interval]
    BY <1>1, <1>5 DEF Claims, Claim
  <2>3. quiet' = [quiet EXCEPT ![stage] = MaxOf(@, now + Interval)]  BY <1>5 DEF Claims
  <2>4. limiter' \in Limiters /\ quiet' \in [Providers -> Nat]
    BY <1>1, <2>1, <2>2, <2>3 DEF MaxOf
  <2>5. ASSUME NEW p \in Providers
        PROVE  quiet'[p] <= MaxOf(limiter'[p].notBefore, limiter'[p].nextStart)
    <3>1. CASE p # stage  BY <1>1, <2>2, <2>3, <3>1 DEF QuietKept
    <3>2. CASE p = stage
      <4>1. limiter'[p].notBefore = limiter[p].notBefore
            /\ limiter'[p].nextStart = now + Interval /\ quiet'[p] = MaxOf(quiet[p], now + Interval)
        BY <1>1, <2>2, <2>3, <3>2
      <4>2. quiet[p] <= MaxOf(limiter[p].notBefore, limiter[p].nextStart)  BY DEF QuietKept
      <4>3. limiter[p].notBefore \in Nat /\ limiter[p].nextStart \in Nat /\ quiet[p] \in Nat
        BY <1>1
      <4>4. MaxOf(now, MaxOf(limiter[p].notBefore, limiter[p].nextStart)) = now
        BY <1>5, <3>2 DEF Claims, Earliest
      <4>5. QED  BY <1>1, <2>1, <4>1, <4>2, <4>3, <4>4 DEF MaxOf
    <3>3. QED  BY <3>1, <3>2
  <2>6. QED  BY <2>4, <2>5 DEF QuietKept
<1>6. QED  BY <1>2, <1>3, <1>4, <1>5, LimiterKinds

(* The batches, the readers and the rows keep their types. *)
LEMMA BecomesType ==
    ASSUME FetchTypeOK, Settled, NEW r \in Readers, NEW rd, Becomes(r, rd),
           rd.at = "off" => rd = Off,
           rd.at \in {"admit", "sent", "reply"} => rd.todo # <<>>
    PROVE  /\ reader' \in [Readers -> ReaderType]
           /\ \A s \in Readers : reader'[s].at = "off" => reader'[s] = Off
           /\ \A s \in Readers : reader'[s].at \in {"admit", "sent", "reply"} => reader'[s].todo # <<>>
BY DEF Becomes, FetchTypeOK, Settled

Sound(r) ==
    /\ reader' \in [Readers -> ReaderType]
    /\ next' \in Nat \ {0}
    /\ failure' \in Failures
    /\ \A s \in Readers : reader'[s].at = "off" => reader'[s] = Off
    /\ \A s \in Readers : reader'[s].at \in {"admit", "sent", "reply"} => reader'[s].todo # <<>>

(* After a piece the reader is still sound. *)
LEMMA AfterSound ==
    ASSUME FetchTypeOK, Settled, NEW r \in Readers, NEW rest, After(r, rest)
    PROVE  Sound(r)
<1>1. next \in Nat \ {0} /\ next + 1 \in Nat \ {0} /\ failure \in Failures
  BY DEF FetchTypeOK, Settled, Failures
<1>2. Off.at = "off"  BY DEF Off
<1>3. CASE GivesUp(r) /\ next' \in {next, next + 1}
  BY <1>1, <1>2, <1>3, BecomesType DEF GivesUp, Sound
<1>4. CASE GoesOn(r, rest)
  BY <1>1, <1>4, BecomesType DEF GoesOn, Sound
<1>5. CASE TakesNext(r)
  <2>1. <<Batch(next)>> \in Seq(Seq(1 .. NHashes)) /\ <<Batch(next)>> # <<>>
    BY <1>5, BatchHashes, Single DEF TakesNext
  <2>2. Asking(<<Batch(next)>>).at = "admit" /\ Asking(<<Batch(next)>>).todo # <<>>
    BY <2>1, AskingType
  <2>3. QED  BY <1>1, <1>5, <2>2, BecomesType DEF TakesNext, Sound
<1>6. CASE Rests(r)
  BY <1>1, <1>2, <1>6, BecomesType DEF Rests, Sound
<1>7. QED  BY <1>3, <1>4, <1>5, <1>6 DEF After

(* After a step of any kind the reader is sound. *)
LEMMA KindSound ==
    ASSUME FetchTypeOK, Settled, NEW r \in Readers, ReaderKind(r)
    PROVE  Sound(r)
<1>1. next \in Nat \ {0} /\ failure \in Failures  BY DEF FetchTypeOK, Settled, Failures
<1>2. Off.at = "off"  BY DEF Off
<1>3. CASE Stays(r) /\ next' = next  BY <1>1, <1>3, BecomesType DEF Stays, Sound
<1>4. CASE Halves(r) /\ next' = next
  <2>1. Halved(r) \in Seq(Seq(1 .. NHashes)) /\ Halved(r) # <<>>
    BY <1>4, HalvedType DEF Halves
  <2>2. Asking(Halved(r)).at = "admit" /\ Asking(Halved(r)).todo # <<>>  BY <2>1, AskingType
  <2>3. QED  BY <1>1, <1>4, <2>2, BecomesType DEF Halves, Sound
<1>5. CASE GivesUp(r) /\ next' = next  BY <1>1, <1>2, <1>5, BecomesType DEF GivesUp, Sound
<1>6. CASE Pages(r)  BY <1>1, <1>6, BecomesType DEF Pages, Sound
<1>7. CASE Finishes(r)  BY <1>7, AfterSound DEF Finishes
<1>8. CASE After(r, <<>>)  BY <1>8, AfterSound
<1>9. QED  BY <1>3, <1>4, <1>5, <1>6, <1>7, <1>8 DEF ReaderKind

(* The rows and the hashes that have none stay of their types. *)
LEMMA KindRows ==
    ASSUME FetchTypeOK, NEW r \in Readers, ReaderKind(r)
    PROVE  results' \in [1 .. BatchCount -> Seq(1 .. NHashes)] /\ absent' \subseteq 1 .. NHashes
<1>1. results \in [1 .. BatchCount -> Seq(1 .. NHashes)] /\ absent \subseteq 1 .. NHashes
      /\ reader[r].rows \in Seq(1 .. NHashes)
  BY DEF FetchTypeOK, ReaderType
<1>2. CASE Finishes(r)
  <2>1. reader[r].todo # <<>>  BY <1>2 DEF Finishes
  <2>2. PICK page \in {PageOf(r), <<>>} :
          /\ absent' = IF page = PageOf(r) THEN absent
                       ELSE absent \union {Piece(r)[i] : i \in Len(reader[r].rows) + 1 .. Len(Piece(r))}
          /\ results' = [results EXCEPT ![BatchOf(Piece(r)[1])] = @ \o (reader[r].rows \o page)]
    BY <1>2 DEF Finishes
  <2>3. page \in Seq(1 .. NHashes) /\ Piece(r) \in Seq(1 .. NHashes)
    <3>1. Piece(r) \in Seq(1 .. NHashes) /\ PageOf(r) \in Seq(1 .. NHashes)  BY <2>1, PieceType
    <3>2. <<>> \in Seq(1 .. NHashes)  OBVIOUS
    <3>3. QED  BY <3>1, <3>2
  <2>4. reader[r].rows \o page \in Seq(1 .. NHashes)
    <3> DEFINE S == 1 .. NHashes  t == reader[r].rows
    <3>1. t \in Seq(S) /\ page \in Seq(S)  BY <1>1, <2>3
    <3> HIDE DEF S, t
    <3>2. t \o page \in Seq(S)  BY <3>1, ConcatProperties
    <3>3. QED  BY <3>2 DEF S, t
  <2>5. ASSUME NEW s \in Seq(1 .. NHashes)
        PROVE  s \o (reader[r].rows \o page) \in Seq(1 .. NHashes)
    <3> DEFINE S == 1 .. NHashes  t == reader[r].rows \o page
    <3>1. s \in Seq(S) /\ t \in Seq(S)  BY <2>4
    <3> HIDE DEF S, t
    <3>2. s \o t \in Seq(S)  BY <3>1, ConcatProperties
    <3>3. QED  BY <3>2 DEF S, t
  <2>6. results' \in [1 .. BatchCount -> Seq(1 .. NHashes)]  BY <1>1, <2>2, <2>5
  <2>7. Len(reader[r].rows) \in Nat /\ Len(Piece(r)) \in Nat  BY <1>1, <2>3
  <2>8. \A i \in 1 .. Len(Piece(r)) : Piece(r)[i] \in 1 .. NHashes  BY <2>3, ElementOfSeq
  <2>9. \A i \in Len(reader[r].rows) + 1 .. Len(Piece(r)) : Piece(r)[i] \in 1 .. NHashes
    BY <2>7, <2>8
  <2>10. QED  BY <1>1, <2>2, <2>6, <2>9
<1>3. CASE UNCHANGED <<results, absent>>  BY <1>1, <1>3
<1>4. QED  BY <1>2, <1>3 DEF ReaderKind, Pages

(* The readers started at first: at least one, and at most one for each    *)
(* batch.                                                                  *)
LEMMA ConcurrencyType ==
    ASSUME NEW k \in Kinds
    PROVE  Concurrency(k) \in 1 .. BatchCount /\ 1 \in Readers /\ Readers \subseteq Nat \ {0}
BY FetchAssumption, BatchCountType DEF Concurrency, Readers, MaxOf

(* The invariant holds when the read begins. *)
LEMMA InitFInv == Init => FInv
<1> SUFFICES ASSUME Init PROVE FInv  OBVIOUS
<1>1. Concurrency(kind) \in 1 .. BatchCount /\ Readers \subseteq Nat \ {0}
  BY ConcurrencyType DEF Init
<1>2. ASSUME NEW r \in Readers
      PROVE  /\ reader[r] \in ReaderType
             /\ reader[r].at = "off" => reader[r] = Off
             /\ reader[r].at \in {"admit", "sent", "reply"} => reader[r].todo # <<>>
  <2>1. CASE r <= Concurrency(kind)
    <3>1. r \in 1 .. BatchCount  BY <1>1, <2>1, BatchCountType
    <3>2. <<Batch(r)>> \in Seq(Seq(1 .. NHashes)) /\ <<Batch(r)>> # <<>>
      BY <3>1, BatchHashes, Single
    <3>3. reader[r] = Asking(<<Batch(r)>>)  BY <2>1 DEF Init
    <3>4. QED  BY <3>2, <3>3, AskingType
  <2>2. CASE ~(r <= Concurrency(kind))
    <3>1. reader[r] = Off  BY <2>2 DEF Init
    <3>2. QED  BY <3>1, OffType DEF Off
  <2>3. QED  BY <2>1, <2>2
<1>3. FetchTypeOK
  <2>1. reader \in [Readers -> ReaderType]  BY <1>2 DEF Init
  <2>2. next \in Nat  BY <1>1 DEF Init
  <2>3. results \in [1 .. BatchCount -> Seq(1 .. NHashes)]  BY DEF Init
  <2>4. limiter \in [Providers -> [notBefore : Nat, nextStart : Nat]] /\ quiet \in [Providers -> Nat]
    BY DEF Init
  <2>5. QED  BY <2>1, <2>2, <2>3, <2>4 DEF Init, FetchTypeOK, Providers, NoError, Error
<1>4. next # 0  BY <1>1 DEF Init
<1>5. QuietKept  BY DEF Init, QuietKept, MaxOf
<1>6. QED  BY <1>2, <1>3, <1>4, <1>5 DEF FInv, Settled, ReturnsDrained, Running, Providers, Init

(* Every step keeps it. *)
LEMMA NextFInv == FInv /\ [Next]_vars => FInv'
<1> SUFFICES ASSUME FInv, [Next]_vars PROVE FInv'  OBVIOUS
<1>1. FetchTypeOK /\ Settled /\ ReturnsDrained /\ QuietKept  BY DEF FInv
<1>2. ASSUME NEW r \in Readers, ReaderStep(r) PROVE FInv'
  <2>1. ReaderKind(r) /\ stage \in Providers /\ UNCHANGED <<kind, stage, now>>
    BY <1>2, ReaderKinds
  <2>2. Sound(r)  BY <1>1, <2>1, KindSound
  <2>3. results' \in [1 .. BatchCount -> Seq(1 .. NHashes)] /\ absent' \subseteq 1 .. NHashes
    BY <1>1, <2>1, KindRows
  <2>4. /\ limiter' \in [Providers -> [notBefore : Nat, nextStart : Nat]]
        /\ quiet' \in [Providers -> Nat] /\ QuietKept'
    BY <1>1, <1>2, <2>1, LimiterStep
  <2>5. FetchTypeOK'  BY <1>1, <2>1, <2>2, <2>3, <2>4 DEF FetchTypeOK, Sound, Failures
  <2>6. QED  BY <2>1, <2>2, <2>4, <2>5 DEF FInv, Settled, Sound, ReturnsDrained, Running
<1>3. CASE Return \/ Fail
  <2>1. stage' \in {"ok", "failed"} /\ \A r \in Readers : reader[r].at = "off"
    BY <1>3 DEF Return, Fail, Drained
  <2>2. UNCHANGED <<kind, now, limiter, reader, next, failure, results, absent, quiet>>
    BY <1>3 DEF Return, Fail
  <2>3. QED  BY <1>1, <2>1, <2>2 DEF FInv, FetchTypeOK, Settled, ReturnsDrained, QuietKept
<1>4. CASE FallBack
  <2> DEFINE todo == [h \in 1 .. NHashes |-> <<h>>]
  <2>1. 1 \in Readers /\ NHashes \in Nat \ {0}  BY <1>1, ConcurrencyType, FetchAssumption DEF FetchTypeOK
  <2>2. \A h \in 1 .. NHashes : <<h>> \in Seq(1 .. NHashes)  BY Single
  <2>3. todo \in [1 .. NHashes -> Seq(1 .. NHashes)]  BY <2>2
  <2>4. todo \in Seq(Seq(1 .. NHashes)) /\ Len(todo) = NHashes
    <3> HIDE DEF todo
    <3>1. QED  BY <2>1, <2>3, FunctionIsSeq
  <2>5. todo # <<>>  BY <2>1, <2>4
  <2>6. reader' = [reader EXCEPT ![1] = Asking(todo)]  BY <1>4 DEF FallBack
  <2> HIDE DEF todo
  <2>7. /\ Asking(todo) \in ReaderType /\ Asking(todo).at = "admit" /\ Asking(todo).todo # <<>>
    BY <2>4, <2>5, AskingType
  <2>8. /\ reader' \in [Readers -> ReaderType]
        /\ \A s \in Readers : reader'[s].at = "off" => reader'[s] = Off
        /\ \A s \in Readers : reader'[s].at \in {"admit", "sent", "reply"} => reader'[s].todo # <<>>
    BY <1>1, <2>1, <2>6, <2>7, BecomesType DEF Becomes
  <2>9. failure' \in Failures  BY <1>4 DEF FallBack, NoError, Error, Failures
  <2>10. results' \in [1 .. BatchCount -> Seq(1 .. NHashes)]  BY <1>4 DEF FallBack
  <2>11. FetchTypeOK'
    BY <1>1, <1>4, <2>8, <2>9, <2>10 DEF FetchTypeOK, FallBack, Failures, Providers
  <2>12. QED  BY <1>1, <1>4, <2>8, <2>11 DEF FInv, FallBack, Settled, ReturnsDrained, Running, Providers, QuietKept
<1>5. CASE Tick
  BY <1>1, <1>5 DEF Tick, FInv, FetchTypeOK, Settled, ReturnsDrained, Running, QuietKept
<1>6. CASE UNCHANGED vars
  BY <1>1, <1>6 DEF vars, FInv, FetchTypeOK, Settled, ReturnsDrained, Running, QuietKept
<1>7. QED  BY <1>2, <1>3, <1>4, <1>5, <1>6 DEF Next, Ended

(* The types of a read, and the invariant: readers that are off hold       *)
(* nothing, a read that ended left none on, and the limiter keeps every    *)
(* wait stated.                                                            *)
THEOREM FetchInvariant == Spec => []FInv
<1>1. Init => FInv  BY InitFInv
<1>2. FInv /\ [Next]_vars => FInv'  BY NextFInv
<1>3. QED  BY <1>1, <1>2, PTL DEF Spec

(***************************************************************************)
(* However many readers, batches and hashes: a read that has returned or   *)
(* thrown left no request on its way and no timer set.                     *)
(***************************************************************************)
THEOREM DrainedReturns == Spec => []ReturnsDrained
<1>1. FInv => ReturnsDrained  BY DEF FInv
<1>2. QED  BY <1>1, FetchInvariant, PTL

(* A request is sent by admit alone, when it may start. *)
LEMMA OnlyAdmitStarts ==
    ASSUME FInv, NEW r \in Readers, NEW s \in Readers, ReaderStep(s), Starts(r)
    PROVE  MayStart
<1>1. FetchTypeOK /\ Settled  BY DEF FInv
<1>2. ReaderKind(s)  BY ReaderKinds
<1>3. reader'[r].at = "sent" /\ reader[r].at # "sent"  BY DEF Starts
<1>4. ASSUME NEW rd, Becomes(s, rd), rd.at # "sent" PROVE FALSE
  BY <1>1, <1>3, <1>4 DEF Becomes, FetchTypeOK
<1>5. Off.at = "off" /\ \A todo \in Seq(Seq(1 .. NHashes)) : Asking(todo).at = "admit"
  BY AskingType DEF Off
<1>6. ~GivesUp(s)  BY <1>4, <1>5 DEF GivesUp
<1>7. ~Halves(s)  BY <1>1, <1>4, <1>5, HalvedType DEF Halves
<1>8. ~Pages(s)  BY <1>4 DEF Pages
<1>9. ASSUME NEW rest, After(s, rest) PROVE FALSE
  <2>1. ~GoesOn(s, rest)  BY <1>4 DEF GoesOn
  <2>2. ~Rests(s)  BY <1>4, <1>5 DEF Rests
  <2>3. ~TakesNext(s)
    <3> SUFFICES ASSUME TakesNext(s) PROVE FALSE  OBVIOUS
    <3>1. <<Batch(next)>> \in Seq(Seq(1 .. NHashes))  BY BatchHashes, Single DEF TakesNext
    <3>2. QED  BY <1>4, <1>5, <3>1 DEF TakesNext
  <2>4. QED  BY <1>6, <1>9, <2>1, <2>2, <2>3 DEF After
<1>10. Stays(s)  BY <1>2, <1>6, <1>7, <1>8, <1>9 DEF ReaderKind, Finishes
<1>11. QED  BY <1>4, <1>10 DEF Stays

(* A start comes after every wait stated, before the deadline and, in a    *)
(* pool, without a failure.                                                *)
LEMMA StartAdmitted ==
    ASSUME FInv, Next, NEW r \in Readers, Starts(r)
    PROVE  now >= quiet[stage] /\ ~Late(now) /\ (Gated => failure = NoError)
<1>1. FetchTypeOK /\ QuietKept  BY DEF FInv
<1>2. reader'[r].at = "sent" /\ reader[r].at # "sent"  BY DEF Starts
<1>3. ~(Return \/ Fail \/ Tick \/ Ended)
  BY <1>2 DEF Return, Fail, Tick, Ended, vars
<1>4. ~FallBack
  <2> SUFFICES ASSUME FallBack PROVE FALSE  OBVIOUS
  <2> DEFINE todo == [h \in 1 .. NHashes |-> <<h>>]
  <2>1. \A h \in 1 .. NHashes : <<h>> \in Seq(1 .. NHashes)  BY Single
  <2>2. NHashes \in Nat /\ todo \in [1 .. NHashes -> Seq(1 .. NHashes)]  BY <2>1, FetchAssumption
  <2>3. reader' = [reader EXCEPT ![1] = Asking(todo)]  BY DEF FallBack
  <2> HIDE DEF todo
  <2>4. Asking(todo).at = "admit"  BY <2>2, FunctionIsSeq, AskingType
  <2>5. QED  BY <1>1, <1>2, <2>3, <2>4 DEF FetchTypeOK
<1>5. PICK s \in Readers : ReaderStep(s)  BY <1>3, <1>4 DEF Next
<1>6. stage \in Providers  BY <1>5, ReaderKinds
<1>7. MayStart  BY <1>5, OnlyAdmitStarts
<1>8. quiet[stage] <= MaxOf(limiter[stage].notBefore, limiter[stage].nextStart)
  BY <1>6 DEF QuietKept, FInv
<1>9. /\ quiet[stage] \in Nat /\ limiter[stage].notBefore \in Nat
      /\ limiter[stage].nextStart \in Nat /\ now \in Nat
  BY <1>1, <1>6 DEF FetchTypeOK
<1>10. now >= quiet[stage]  BY <1>7, <1>8, <1>9 DEF MayStart, Earliest, MaxOf
<1>11. QED  BY <1>7, <1>10 DEF MayStart

(***************************************************************************)
(* A request goes out only when everything its provider has stated so far  *)
(* is over, the spacing is kept, the deadline has not come and no failure  *)
(* was captured by the pool: for every number of readers that sleep and    *)
(* wake between each other's starts and replies.                           *)
(***************************************************************************)
THEOREM AdmittedStarts == Spec => StartsAreAdmitted
<1>1. FInv /\ [Next]_vars =>
        [\A r \in Readers : Starts(r) =>
            /\ now >= quiet[stage] /\ ~Late(now)
            /\ Gated => failure = NoError]_vars
  BY StartAdmitted
<1>2. QED  BY <1>1, FetchInvariant, PTL DEF Spec, StartsAreAdmitted

-----------------------------------------------------------------------------
(***************************************************************************)
(* The rows.  A piece is a run of consecutive hashes, the pieces a reader  *)
(* still has follow each other up to the last hash it is to read, and the  *)
(* rows it holds are a beginning of the piece being read.                  *)
(***************************************************************************)
Run(s) == Len(s) >= 1 /\ \A j \in 1 .. Len(s) : s[j] = s[1] + j - 1
Tiles(todo, last) ==
    \A i \in 1 .. Len(todo) :
        /\ Run(todo[i]) /\ todo[i][1] + Len(todo[i]) <= last + 1
        /\ todo[i][1] + Len(todo[i]) = IF i = Len(todo) THEN last + 1 ELSE todo[i + 1][1]
Begins(rows, piece) ==
    Len(rows) <= Len(piece) /\ \A i \in 1 .. Len(rows) : rows[i] = piece[i]
LastFor(todo, st) == IF st = "koios" THEN LastOf(BatchOf(Head(todo)[1])) ELSE NHashes
Fits(rd, st, k) ==
    rd.todo # <<>> =>
        /\ Tiles(rd.todo, LastFor(rd.todo, st))
        /\ Begins(rd.rows, Head(rd.todo))
        /\ ~(k = "block_txs" /\ st = "koios") => rd.rows = <<>>
        /\ st = "blockfrost" => \A i \in 1 .. Len(rd.todo) : Len(rd.todo[i]) = 1

(* How far each batch is read: its rows are those of its hashes before      *)
(* done[b], in order, but for those that have none; the others are to come. *)
HasRows(s, from, upto, gone) ==
    /\ Ascending(s)
    /\ \A h \in 1 .. NHashes : h \in HashesOf(s) <=> (from <= h /\ h < upto /\ h \notin gone)
Read(done, res, gone) ==
    \A b \in 1 .. BatchCount :
        /\ FirstOf(b) <= done[b] /\ done[b] <= LastOf(b) + 1
        /\ HasRows(res[b], FirstOf(b), done[b], gone)
        /\ \A h \in 1 .. NHashes : done[b] <= h /\ h <= LastOf(b) => h \notin gone

(* With Koios each batch is untouched, one reader's, complete, or dropped by *)
(* a reader that failed.                                                     *)
Covered(pos, nxt, err, done) ==
    /\ \A r \in Readers : pos[r] # 0 =>
          BatchOf(pos[r]) < nxt /\ done[BatchOf(pos[r])] = pos[r]
    /\ \A r, s \in Readers : pos[r] # 0 /\ pos[s] # 0 /\ r # s =>
          BatchOf(pos[r]) # BatchOf(pos[s])
    /\ \A b \in 1 .. BatchCount : b >= nxt => done[b] = FirstOf(b)
    /\ ~err => \A b \in 1 .. BatchCount : b < nxt =>
          (\E r \in Readers : pos[r] # 0 /\ BatchOf(pos[r]) = b) \/ done[b] = LastOf(b) + 1

(* With Blockfrost the hashes before p are read, batch after batch. *)
Swept(p) == [b \in 1 .. BatchCount |->
                IF p < FirstOf(b) THEN FirstOf(b)
                ELSE IF p <= LastOf(b) THEN p ELSE LastOf(b) + 1]

AtOf(rd) == IF rd.todo # <<>> THEN Head(rd.todo)[1] ELSE 0
Pos == [r \in Readers |-> AtOf(reader[r])]
KoiosRows(done) ==
    /\ Covered(Pos, next, failure # NoError, done)
    /\ failure = NoError /\ reader[1].at = "off" => next > BatchCount
FallbackRows(done) ==
    /\ \A r \in Readers : r # 1 => reader[r] = Off
    /\ \E p \in 1 .. NHashes + 1 :
          /\ done = Swept(p)
          /\ AtOf(reader[1]) # 0 => p = AtOf(reader[1])
          /\ AtOf(reader[1]) = 0 /\ failure = NoError => p = NHashes + 1

PiecesFit == \A r \in Readers : Fits(reader[r], stage, kind)
RowsRead ==
    \E done \in [1 .. BatchCount -> Nat] :
        /\ Read(done, results, absent)
        /\ stage = "koios" => KoiosRows(done)
        /\ stage = "blockfrost" => FallbackRows(done)
Delivered ==
    stage = "ok" =>
        \A b \in 1 .. BatchCount : HasRows(results[b], FirstOf(b), LastOf(b) + 1, absent)
RowsInv == (stage \in Providers => PiecesFit /\ RowsRead) /\ Delivered

(* A list that is not empty, its first element and the rest. *)
LEMMA NonEmpty ==
    ASSUME NEW S, NEW s \in Seq(S), s # <<>>
    PROVE  /\ Len(s) \in Nat \ {0} /\ Head(s) = s[1] /\ s[1] \in S
           /\ Tail(s) \in Seq(S) /\ Len(Tail(s)) = Len(s) - 1
           /\ \A i \in 1 .. Len(s) - 1 : Tail(s)[i] = s[i + 1]
           /\ \A i \in 1 .. Len(s) : s[i] \in S
<1>1. Len(s) \in Nat \ {0}  BY EmptySeq
<1>2. Head(s) = s[1] /\ s[1] \in S  BY <1>1, ElementOfSeq
<1>3. Tail(s) \in Seq(S) /\ Len(Tail(s)) = Len(s) - 1  BY <1>1, HeadTailProperties
<1>4. \A i \in 1 .. Len(s) - 1 : Tail(s)[i] = s[i + 1]  BY <1>1, <1>3, HeadTailProperties
<1>5. \A i \in 1 .. Len(s) : s[i] \in S  BY ElementOfSeq
<1>6. QED  BY <1>1, <1>2, <1>3, <1>4, <1>5

(* A part of a sequence. *)
LEMMA Part ==
    ASSUME NEW S, NEW s \in Seq(S), NEW m \in 1 .. Len(s), NEW n \in m - 1 .. Len(s)
    PROVE  /\ SubSeq(s, m, n) \in Seq(S) /\ Len(SubSeq(s, m, n)) = n - m + 1
           /\ \A i \in 1 .. n - m + 1 : SubSeq(s, m, n)[i] = s[m + i - 1]
<1>1. Len(s) \in Nat /\ \A i \in 1 .. Len(s) : s[i] \in S  BY ElementOfSeq
<1>2. m \in Int /\ n \in Int /\ \A i \in m .. n : s[i] \in S  BY <1>1
<1> DEFINE t == SubSeq(s, m, n)
<1>3. t \in Seq(S) /\ Len(t) = IF m <= n THEN n - m + 1 ELSE 0  BY <1>2, SubSeqProperties
<1>4. \A i \in 1 .. n - m + 1 : t[i] = s[m + i - 1]  BY <1>2, SubSeqProperties
<1> HIDE DEF t
<1>5. Len(t) = n - m + 1  BY <1>1, <1>3
<1>6. QED  BY <1>3, <1>4, <1>5 DEF t

(* A run of hashes: its elements, its halves. *)
LEMMA RunElements ==
    ASSUME NEW s \in Seq(1 .. NHashes), Run(s)
    PROVE  /\ Len(s) \in Nat \ {0} /\ s[1] \in 1 .. NHashes
           /\ s[1] + Len(s) - 1 \in 1 .. NHashes
           /\ \A i \in 1 .. Len(s) : s[i] = s[1] + i - 1 /\ s[i] \in 1 .. NHashes
<1>1. Len(s) \in Nat /\ Len(s) >= 1 /\ \A i \in 1 .. Len(s) : s[i] = s[1] + i - 1  BY DEF Run
<1>2. \A i \in 1 .. Len(s) : s[i] \in 1 .. NHashes  BY ElementOfSeq
<1>3. 1 \in 1 .. Len(s) /\ Len(s) \in 1 .. Len(s)  BY <1>1
<1>4. s[1] \in 1 .. NHashes /\ s[Len(s)] \in 1 .. NHashes /\ s[Len(s)] = s[1] + Len(s) - 1
  BY <1>1, <1>2, <1>3
<1>5. QED  BY <1>1, <1>2, <1>4

(* A part of a run is a run. *)
LEMMA RunPart ==
    ASSUME NEW s \in Seq(1 .. NHashes), Run(s), NEW m \in 1 .. Len(s), NEW n \in m .. Len(s)
    PROVE  /\ Run(SubSeq(s, m, n)) /\ SubSeq(s, m, n)[1] = s[1] + m - 1
           /\ Len(SubSeq(s, m, n)) = n - m + 1
<1>1. /\ Len(s) \in Nat \ {0} /\ s[1] \in 1 .. NHashes
      /\ \A i \in 1 .. Len(s) : s[i] = s[1] + i - 1
  BY RunElements
<1> DEFINE t == SubSeq(s, m, n)
<1>2. n \in m - 1 .. Len(s)  BY <1>1
<1>3. Len(t) = n - m + 1 /\ \A i \in 1 .. n - m + 1 : t[i] = s[m + i - 1]
  BY <1>2, Part
<1> HIDE DEF t
<1>4. \A i \in 1 .. n - m + 1 : m + i - 1 \in 1 .. Len(s)  BY <1>1
<1>5. \A i \in 1 .. n - m + 1 : t[i] = s[1] + (m + i - 1) - 1  BY <1>1, <1>3, <1>4
<1>6. 1 \in 1 .. n - m + 1 /\ t[1] = s[1] + m - 1
  <2>1. 1 \in 1 .. n - m + 1  BY <1>1
  <2>2. t[1] = s[1] + (m + 1 - 1) - 1  BY <1>5, <2>1
  <2>3. QED  BY <1>1, <2>1, <2>2
<1>7. \A i \in 1 .. Len(t) : t[i] = t[1] + i - 1
  <2>1. SUFFICES ASSUME NEW i \in 1 .. Len(t) PROVE t[i] = t[1] + i - 1  OBVIOUS
  <2>2. i \in 1 .. n - m + 1  BY <1>3
  <2>3. t[i] = s[1] + (m + i - 1) - 1  BY <1>5, <2>2
  <2>4. QED  BY <1>1, <1>6, <2>2, <2>3
<1>8. Len(t) >= 1  BY <1>3
<1>9. QED  BY <1>3, <1>6, <1>7, <1>8 DEF Run, t

(* The first piece to do, and where the pieces after it begin. *)
LEMMA TilesHead ==
    ASSUME NEW todo \in Seq(Seq(1 .. NHashes)), todo # <<>>, NEW last \in Nat, Tiles(todo, last)
    PROVE  LET piece == Head(todo) IN
           /\ piece \in Seq(1 .. NHashes) /\ Run(piece) /\ piece[1] \in 1 .. NHashes
           /\ piece[1] + Len(piece) <= last + 1
           /\ Tail(todo) = <<>> => piece[1] + Len(piece) = last + 1
           /\ Tail(todo) # <<>> => /\ Head(Tail(todo))[1] = piece[1] + Len(piece)
                                   /\ Head(Tail(todo))[1] <= last
                                   /\ Tiles(Tail(todo), last)
<1> DEFINE S == Seq(1 .. NHashes)
           tail == Tail(todo)
<1> HIDE DEF S
<1>1. todo \in Seq(S)  BY DEF S
<1>2. /\ Len(todo) \in Nat \ {0} /\ Head(todo) = todo[1] /\ todo[1] \in S
      /\ tail \in Seq(S) /\ Len(tail) = Len(todo) - 1
      /\ \A i \in 1 .. Len(todo) - 1 : tail[i] = todo[i + 1]
      /\ \A i \in 1 .. Len(todo) : todo[i] \in S
  BY <1>1, NonEmpty
<1> HIDE DEF tail
<1>3. 1 \in 1 .. Len(todo)  BY <1>2
<1>4. /\ Run(todo[1]) /\ todo[1][1] + Len(todo[1]) <= last + 1
      /\ todo[1][1] + Len(todo[1]) = IF 1 = Len(todo) THEN last + 1 ELSE todo[1 + 1][1]
  BY <1>3 DEF Tiles
<1>5. todo[1][1] \in 1 .. NHashes  BY <1>2, <1>4, RunElements DEF S
<1>6. ASSUME tail = <<>> PROVE todo[1][1] + Len(todo[1]) = last + 1
  <2>1. Len(tail) = 0  BY <1>6
  <2>2. Len(todo) = 1  BY <1>2, <2>1
  <2>3. QED  BY <1>4, <2>2
<1>7. ASSUME tail # <<>>
      PROVE  Head(tail)[1] = todo[1][1] + Len(todo[1]) /\ Head(tail)[1] <= last /\ Tiles(tail, last)
  <2>1. Len(tail) \in Nat \ {0} /\ Head(tail) = tail[1]  BY <1>2, <1>7, NonEmpty
  <2>2. tail[1] = todo[2] /\ 2 \in 1 .. Len(todo) /\ 1 # Len(todo)  BY <1>2, <2>1
  <2>3. Head(tail)[1] = todo[1][1] + Len(todo[1])  BY <1>4, <2>1, <2>2
  <2>4. Run(todo[2]) /\ todo[2][1] + Len(todo[2]) <= last + 1  BY <2>2 DEF Tiles
  <2>5. todo[2] \in Seq(1 .. NHashes)  BY <1>2, <2>2 DEF S
  <2>6. todo[2][1] \in 1 .. NHashes /\ Len(todo[2]) \in Nat \ {0}  BY <2>4, <2>5, RunElements
  <2>7. Head(tail)[1] <= last  BY <2>1, <2>2, <2>4, <2>6
  <2>8. ASSUME NEW i \in 1 .. Len(tail)
        PROVE  /\ Run(tail[i]) /\ tail[i][1] + Len(tail[i]) <= last + 1
               /\ tail[i][1] + Len(tail[i]) = IF i = Len(tail) THEN last + 1 ELSE tail[i + 1][1]
    <3>1. i + 1 \in 1 .. Len(todo) /\ tail[i] = todo[i + 1]  BY <1>2
    <3>2. /\ Run(todo[i + 1]) /\ todo[i + 1][1] + Len(todo[i + 1]) <= last + 1
          /\ todo[i + 1][1] + Len(todo[i + 1])
                = IF i + 1 = Len(todo) THEN last + 1 ELSE todo[(i + 1) + 1][1]
      BY <3>1 DEF Tiles
    <3>3. CASE i = Len(tail)
      <4>1. i + 1 = Len(todo)  BY <1>2, <3>3
      <4>2. QED  BY <3>1, <3>2, <3>3, <4>1
    <3>4. CASE i # Len(tail)
      <4>1. i + 1 # Len(todo) /\ i + 1 \in 1 .. Len(todo) - 1  BY <1>2, <3>4
      <4>2. tail[i + 1] = todo[(i + 1) + 1]  BY <1>2, <4>1
      <4>3. QED  BY <3>1, <3>2, <3>4, <4>1, <4>2
    <3>5. QED  BY <3>3, <3>4
  <2>9. QED  BY <2>3, <2>7, <2>8 DEF Tiles
<1>8. QED  BY <1>2, <1>4, <1>5, <1>6, <1>7 DEF tail, S

(* A whole batch is one piece that ends with the batch. *)
LEMMA TilesBatch ==
    ASSUME NEW b \in 1 .. BatchCount
    PROVE  /\ <<Batch(b)>> \in Seq(Seq(1 .. NHashes)) /\ <<Batch(b)>> # <<>>
           /\ Head(<<Batch(b)>>)[1] = FirstOf(b) /\ Tiles(<<Batch(b)>>, LastOf(b))
<1>1. /\ Batch(b) \in Seq(1 .. NHashes) /\ Len(Batch(b)) = LastOf(b) - FirstOf(b) + 1
      /\ \A i \in 1 .. Len(Batch(b)) : Batch(b)[i] = FirstOf(b) + i - 1
  BY BatchHashes
<1>2. FirstOf(b) \in 1 .. NHashes /\ LastOf(b) \in FirstOf(b) .. NHashes /\ NHashes \in Nat
  BY BatchBounds, FetchAssumption
<1>3. Len(Batch(b)) \in Nat \ {0} /\ Batch(b)[1] = FirstOf(b)  BY <1>1, <1>2
<1>4. Run(Batch(b)) /\ Batch(b)[1] + Len(Batch(b)) = LastOf(b) + 1  BY <1>1, <1>2, <1>3 DEF Run
<1> DEFINE batch == Batch(b)
<1>5. <<batch>> \in Seq(Seq(1 .. NHashes)) /\ <<batch>> # <<>> /\ Len(<<batch>>) = 1
      /\ <<batch>>[1] = batch /\ Head(<<batch>>) = batch
  BY <1>1, Single
<1>6. QED  BY <1>2, <1>3, <1>4, <1>5 DEF Tiles

(* Halving the first piece leaves the same hashes to do, from the same one *)
(* on.                                                                     *)
LEMMA TilesHalved ==
    ASSUME NEW todo \in Seq(Seq(1 .. NHashes)), todo # <<>>, NEW last \in Nat, Tiles(todo, last),
           NEW new \in Seq(Seq(1 .. NHashes)), Len(new) = Len(todo) + 1,
           NEW half \in 1 .. Len(todo[1]), half < Len(todo[1]),
           new[1] = SubSeq(todo[1], 1, half), new[2] = SubSeq(todo[1], half + 1, Len(todo[1])),
           \A i \in 3 .. Len(todo) + 1 : new[i] = todo[i - 1]
    PROVE  Tiles(new, last) /\ new[1][1] = todo[1][1]
<1> DEFINE piece == todo[1]  size == Len(piece)  left == new[1]  right == new[2]
<1>1. Len(todo) \in Nat \ {0} /\ piece \in Seq(1 .. NHashes)  BY NonEmpty
<1>2. /\ Run(piece) /\ piece[1] + size <= last + 1
      /\ piece[1] + size = IF 1 = Len(todo) THEN last + 1 ELSE todo[1 + 1][1]
  <2>1. 1 \in 1 .. Len(todo)  BY <1>1
  <2>2. /\ Run(todo[1]) /\ todo[1][1] + Len(todo[1]) <= last + 1
        /\ todo[1][1] + Len(todo[1]) = IF 1 = Len(todo) THEN last + 1 ELSE todo[1 + 1][1]
    BY <2>1 DEF Tiles
  <2>3. QED  BY <2>2
<1>3. size \in Nat \ {0} /\ piece[1] \in 1 .. NHashes  BY <1>1, <1>2, RunElements
<1> HIDE DEF piece
<1>4. half + 1 \in 1 .. size /\ half \in 1 .. size /\ size \in half + 1 .. size /\ half \in Nat
      /\ 1 \in 1 .. size
  BY <1>3 DEF piece
<1>5. left = SubSeq(piece, 1, half) /\ right = SubSeq(piece, half + 1, size)  BY DEF piece
<1>6. Run(left) /\ left[1] = piece[1] + 1 - 1 /\ Len(left) = half - 1 + 1
  BY <1>1, <1>2, <1>4, <1>5, RunPart
<1>7. Run(right) /\ right[1] = piece[1] + (half + 1) - 1 /\ Len(right) = size - (half + 1) + 1
  BY <1>1, <1>2, <1>4, <1>5, RunPart
<1> HIDE DEF size, left, right
<1>8. left[1] = piece[1] /\ right[1] = piece[1] + half /\ Len(left) = half /\ Len(right) = size - half
  BY <1>3, <1>4, <1>6, <1>7
<1> DEFINE from == piece[1]  upto == todo[1 + 1][1]
<1>9. from \in Int /\ size \in Int /\ half \in Int /\ half < size /\ from + size <= last + 1
      /\ last \in Int
  BY <1>2, <1>3, <1>4, FetchAssumption
<1> HIDE DEF from
<1>10. from + half <= last + 1 /\ from + half + (size - half) = from + size  BY <1>9
<1>11. left[1] = from /\ right[1] = from + half /\ Len(left) = half /\ Len(right) = size - half
  BY <1>8 DEF from
<1>12. left[1] + Len(left) = right[1] /\ left[1] + Len(left) <= last + 1  BY <1>10, <1>11
<1>13. right[1] + Len(right) = piece[1] + size  BY <1>10, <1>11 DEF from
<1>14. ASSUME NEW i \in 1 .. Len(new)
       PROVE  /\ Run(new[i]) /\ new[i][1] + Len(new[i]) <= last + 1
              /\ new[i][1] + Len(new[i]) = IF i = Len(new) THEN last + 1 ELSE new[i + 1][1]
  <2>1. CASE i = 1
    <3>1. new[i] = left /\ new[i + 1] = right /\ i # Len(new)  BY <1>1, <2>1 DEF left, right
    <3>2. QED  BY <1>6, <1>12, <3>1
  <2>2. CASE i = 2
    <3>1. new[i] = right  BY <2>2 DEF right
    <3>2. right[1] + Len(right) = piece[1] + size  BY <1>13
    <3>3. CASE Len(todo) = 1
      <4>1. i = Len(new)  BY <2>2, <3>3
      <4>2. QED  BY <1>2, <1>7, <3>1, <3>2, <3>3, <4>1
    <3>4. CASE Len(todo) # 1
      <4> DEFINE n == Len(todo)
      <4>0. n \in Nat \ {0} /\ n # 1 /\ Len(new) = n + 1  BY <1>1, <3>4
      <4> HIDE DEF n
      <4>1. i # Len(new) /\ 3 \in 3 .. n + 1  BY <2>2, <4>0
      <4>2. new[3] = todo[3 - 1]  BY <4>1 DEF n
      <4>3. new[i + 1] = todo[1 + 1]  BY <2>2, <4>2
      <4>4. QED  BY <1>2, <1>7, <3>1, <3>2, <3>4, <4>1, <4>3
    <3>5. QED  BY <3>3, <3>4
  <2>3. CASE i >= 3
    <3>1. i \in 3 .. Len(todo) + 1 /\ i - 1 \in 1 .. Len(todo) /\ i \in Int  BY <1>1, <2>3
    <3>2. new[i] = todo[i - 1]  BY <3>1
    <3>3. /\ Run(todo[i - 1]) /\ todo[i - 1][1] + Len(todo[i - 1]) <= last + 1
          /\ todo[i - 1][1] + Len(todo[i - 1])
                = IF i - 1 = Len(todo) THEN last + 1 ELSE todo[(i - 1) + 1][1]
      BY <3>1 DEF Tiles
    <3>4. CASE i = Len(new)
      <4>1. i - 1 = Len(todo)  BY <1>1, <3>4
      <4>2. QED  BY <3>2, <3>3, <3>4, <4>1
    <3>5. CASE i # Len(new)
      <4>1. i - 1 # Len(todo) /\ i + 1 \in 3 .. Len(todo) + 1 /\ (i + 1) - 1 = (i - 1) + 1
        BY <1>1, <3>1, <3>5
      <4>2. new[i + 1] = todo[(i - 1) + 1]
        <5>1. new[i + 1] = todo[(i + 1) - 1]  BY <4>1
        <5>2. QED  BY <4>1, <5>1
      <4>3. QED  BY <3>2, <3>3, <3>5, <4>1, <4>2
    <3>6. QED  BY <3>4, <3>5
  <2>4. QED  BY <1>1, <2>1, <2>2, <2>3
<1>15. QED  BY <1>8, <1>14 DEF Tiles, left, piece
-----------------------------------------------------------------------------
(* Rows appended to the rows of the hashes before them. *)
LEMMA Joined ==
    ASSUME NEW s \in Seq(1 .. NHashes), NEW t \in Seq(1 .. NHashes),
           Ascending(s), Ascending(t), \A g \in HashesOf(s), h \in HashesOf(t) : g < h
    PROVE  /\ s \o t \in Seq(1 .. NHashes) /\ Ascending(s \o t)
           /\ HashesOf(s \o t) = HashesOf(s) \union HashesOf(t)
<1> DEFINE S == 1 .. NHashes  j == s \o t  m == Len(s)  n == Len(t)
<1>1. /\ j \in Seq(S) /\ Len(j) = m + n
      /\ \A i \in 1 .. m + n : j[i] = IF i <= m THEN s[i] ELSE t[i - m]
  BY ConcatProperties
<1>2. m \in Nat /\ n \in Nat /\ DOMAIN s = 1 .. m /\ DOMAIN t = 1 .. n  OBVIOUS
<1>3. DOMAIN j = 1 .. m + n  BY <1>1
<1> HIDE DEF j, m, n
<1>4. \A i \in 1 .. m : i \in DOMAIN j /\ j[i] = s[i] /\ s[i] \in HashesOf(s)
  <2>1. SUFFICES ASSUME NEW i \in 1 .. m
                 PROVE  i \in DOMAIN j /\ j[i] = s[i] /\ s[i] \in HashesOf(s)
    OBVIOUS
  <2>2. i \in 1 .. m + n /\ i <= m  BY <1>2
  <2>3. i \in DOMAIN j /\ j[i] = s[i]  BY <1>1, <1>3, <2>2
  <2>4. s[i] \in HashesOf(s)  BY <1>2 DEF HashesOf
  <2>5. QED  BY <2>3, <2>4
<1>5. \A i \in 1 .. n : m + i \in DOMAIN j /\ j[m + i] = t[i]
  <2>1. SUFFICES ASSUME NEW i \in 1 .. n PROVE m + i \in DOMAIN j /\ j[m + i] = t[i]  OBVIOUS
  <2>2. m + i \in 1 .. m + n /\ ~(m + i <= m) /\ (m + i) - m = i  BY <1>2
  <2>3. QED  BY <1>1, <1>3, <2>2
<1>6. \A i \in DOMAIN j : i \in 1 .. m \/ (i - m \in 1 .. n /\ i = m + (i - m) /\ j[i] = t[i - m])
  BY <1>1, <1>2, <1>3
<1>7. HashesOf(j) = HashesOf(s) \union HashesOf(t)
  <2>1. ASSUME NEW h \in HashesOf(j) PROVE h \in HashesOf(s) \union HashesOf(t)
    <3>1. PICK i \in DOMAIN j : h = j[i]  BY DEF HashesOf
    <3>2. CASE i \in 1 .. m
      <4>1. h = s[i] /\ s[i] \in HashesOf(s)  BY <1>4, <3>1, <3>2
      <4>2. QED  BY <4>1
    <3>3. CASE i - m \in 1 .. n /\ j[i] = t[i - m]  BY <1>2, <3>1, <3>3 DEF HashesOf
    <3>4. QED  BY <1>6, <3>1, <3>2, <3>3
  <2>2. ASSUME NEW h \in HashesOf(s) PROVE h \in HashesOf(j)
    <3>1. PICK i \in 1 .. m : h = s[i]  BY <1>2 DEF HashesOf
    <3>2. QED  BY <1>4, <3>1 DEF HashesOf
  <2>3. ASSUME NEW h \in HashesOf(t) PROVE h \in HashesOf(j)
    <3>1. PICK i \in 1 .. n : h = t[i]  BY <1>2 DEF HashesOf
    <3>2. m + i \in DOMAIN j /\ j[m + i] = h  BY <1>5, <3>1
    <3>3. QED  BY <3>2 DEF HashesOf
  <2>4. QED  BY <2>1, <2>2, <2>3
<1>8. ASSUME NEW a \in DOMAIN j, NEW b \in DOMAIN j, a < b PROVE j[a] < j[b]
  <2>1. CASE b \in 1 .. m
    <3>1. a \in 1 .. m  BY <1>2, <1>3, <1>8, <2>1
    <3>2. QED  BY <1>2, <1>4, <1>8, <2>1, <3>1 DEF Ascending
  <2>2. CASE a \in 1 .. m /\ b - m \in 1 .. n /\ j[b] = t[b - m]
    <3>1. j[a] \in HashesOf(s) /\ j[b] \in HashesOf(t)  BY <1>2, <1>4, <2>2 DEF HashesOf
    <3>2. QED  BY <3>1
  <2>3. CASE a - m \in 1 .. n /\ j[a] = t[a - m] /\ b - m \in 1 .. n /\ j[b] = t[b - m]
    <3>1. a - m < b - m  BY <1>2, <1>3, <1>8
    <3>2. QED  BY <1>2, <2>3, <3>1 DEF Ascending
  <2>4. QED  BY <1>6, <2>1, <2>2, <2>3
<1>9. Ascending(j)  BY <1>8 DEF Ascending
<1>10. QED  BY <1>1, <1>7, <1>9 DEF j

(* One more run of hashes of a batch is read, some of them with no row. *)
LEMMA ReadOn ==
    ASSUME NEW done \in [1 .. BatchCount -> Nat], NEW res \in [1 .. BatchCount -> Seq(1 .. NHashes)],
           NEW gone, Read(done, res, gone),
           NEW b \in 1 .. BatchCount,
           NEW end \in Nat, done[b] <= end, end <= LastOf(b) + 1,
           NEW s \in Seq(1 .. NHashes), Ascending(s), NEW lost,
           \A h \in 1 .. NHashes : h \in lost => done[b] <= h /\ h < end,
           \A h \in 1 .. NHashes : h \in HashesOf(s) <=> (done[b] <= h /\ h < end /\ h \notin lost)
    PROVE  Read([done EXCEPT ![b] = end], [res EXCEPT ![b] = @ \o s], gone \union lost)
<1>1. FirstOf(b) \in 1 .. NHashes /\ LastOf(b) \in FirstOf(b) .. NHashes /\ NHashes \in Nat
      /\ done[b] \in Nat /\ FirstOf(b) <= done[b]
  BY BatchBounds, FetchAssumption DEF Read
<1>2. HasRows(res[b], FirstOf(b), done[b], gone) /\ res[b] \in Seq(1 .. NHashes)  BY DEF Read
<1>3. \A t \in Seq(1 .. NHashes) : HashesOf(t) \subseteq 1 .. NHashes
  <2>1. SUFFICES ASSUME NEW t \in Seq(1 .. NHashes), NEW i \in DOMAIN t PROVE t[i] \in 1 .. NHashes
    BY DEF HashesOf
  <2>2. i \in 1 .. Len(t)  OBVIOUS
  <2>3. QED  BY <2>2, ElementOfSeq
<1>4. \A g \in HashesOf(res[b]), h \in HashesOf(s) : g < h
  <2>1. SUFFICES ASSUME NEW g \in HashesOf(res[b]), NEW h \in HashesOf(s) PROVE g < h  OBVIOUS
  <2>2. g \in 1 .. NHashes /\ h \in 1 .. NHashes  BY <1>2, <1>3
  <2>3. g < done[b] /\ done[b] <= h  BY <1>2, <2>2 DEF HasRows
  <2>4. QED  BY <1>1, <2>2, <2>3
<1> DEFINE j == res[b] \o s
<1>5. /\ j \in Seq(1 .. NHashes) /\ Ascending(j)
      /\ HashesOf(j) = HashesOf(res[b]) \union HashesOf(s)
  BY <1>2, <1>4, Joined DEF HasRows
<1> HIDE DEF j
<1>6. HasRows(j, FirstOf(b), end, gone \union lost)
  <2>1. ASSUME NEW h \in 1 .. NHashes
        PROVE  h \in HashesOf(j) <=> (FirstOf(b) <= h /\ h < end /\ h \notin gone \union lost)
    <3>1. h \in HashesOf(res[b]) <=> (FirstOf(b) <= h /\ h < done[b] /\ h \notin gone)
      BY <1>2 DEF HasRows
    <3>2. h \in HashesOf(s) <=> (done[b] <= h /\ h < end /\ h \notin lost)  OBVIOUS
    <3>3. done[b] <= h /\ h <= LastOf(b) => h \notin gone  BY DEF Read
    <3>4. h \in lost => done[b] <= h  OBVIOUS
    <3>5. h \in HashesOf(j) <=> (h \in HashesOf(res[b]) \/ h \in HashesOf(s))  BY <1>5
    <3>6. h \in gone \union lost <=> (h \in gone \/ h \in lost)  OBVIOUS
    <3>7. CASE h < done[b]  BY <1>1, <3>1, <3>2, <3>4, <3>5, <3>6, <3>7
    <3>8. CASE done[b] <= h /\ h < end  BY <1>1, <3>1, <3>2, <3>3, <3>5, <3>6, <3>8
    <3>9. CASE end <= h  BY <1>1, <3>1, <3>2, <3>5, <3>6, <3>9
    <3>10. QED  BY <1>1, <3>7, <3>8, <3>9
  <2>2. QED  BY <1>5, <2>1 DEF HasRows
<1>7. \A h \in 1 .. NHashes : end <= h /\ h <= LastOf(b) => h \notin gone \union lost
  BY <1>1 DEF Read
<1>8. ASSUME NEW c \in 1 .. BatchCount, c # b
      PROVE  /\ FirstOf(c) <= done[c] /\ done[c] <= LastOf(c) + 1
             /\ HasRows(res[c], FirstOf(c), done[c], gone \union lost)
             /\ \A h \in 1 .. NHashes : done[c] <= h /\ h <= LastOf(c) => h \notin gone \union lost
  <2>1. FirstOf(c) \in 1 .. NHashes /\ LastOf(c) \in FirstOf(c) .. NHashes  BY BatchBounds
  <2>2. ASSUME NEW h \in 1 .. NHashes, h \in lost PROVE FirstOf(b) <= h /\ h <= LastOf(b)
    BY <1>1, <2>2
  <2>3. ASSUME NEW h \in 1 .. NHashes, FirstOf(c) <= h, h <= LastOf(c) PROVE h \notin lost
    BY <1>8, <2>2, <2>3, BatchOfHash
  <2>4. /\ FirstOf(c) <= done[c] /\ done[c] <= LastOf(c) + 1 /\ done[c] \in Nat
        /\ HasRows(res[c], FirstOf(c), done[c], gone)
        /\ \A h \in 1 .. NHashes : done[c] <= h /\ h <= LastOf(c) => h \notin gone
    BY DEF Read
  <2>5. HasRows(res[c], FirstOf(c), done[c], gone \union lost)
    <3>1. ASSUME NEW h \in 1 .. NHashes
          PROVE  h \in HashesOf(res[c])
                    <=> (FirstOf(c) <= h /\ h < done[c] /\ h \notin gone \union lost)
      <4>1. h \in HashesOf(res[c]) <=> (FirstOf(c) <= h /\ h < done[c] /\ h \notin gone)
        BY <2>4 DEF HasRows
      <4>2. FirstOf(c) <= h /\ h < done[c] => h \notin lost
        BY <1>1, <2>1, <2>3, <2>4
      <4>3. QED  BY <4>1, <4>2
    <3>2. QED  BY <2>4, <3>1 DEF HasRows
  <2>6. \A h \in 1 .. NHashes : done[c] <= h /\ h <= LastOf(c) => h \notin gone \union lost
    BY <1>1, <2>1, <2>3, <2>4
  <2>7. QED  BY <2>4, <2>5, <2>6
<1> DEFINE newDone == [done EXCEPT ![b] = end]  newRes == [res EXCEPT ![b] = @ \o s]
<1>9. newDone[b] = end /\ newRes[b] = j  BY DEF j
<1>10. \A c \in 1 .. BatchCount : c # b => newDone[c] = done[c] /\ newRes[c] = res[c]  OBVIOUS
<1> HIDE DEF newDone, newRes
<1>11. ASSUME NEW c \in 1 .. BatchCount
       PROVE  /\ FirstOf(c) <= newDone[c] /\ newDone[c] <= LastOf(c) + 1
              /\ HasRows(newRes[c], FirstOf(c), newDone[c], gone \union lost)
              /\ \A h \in 1 .. NHashes : newDone[c] <= h /\ h <= LastOf(c) => h \notin gone \union lost
  <2>1. CASE c = b
    <3>1. FirstOf(b) <= end  BY <1>1
    <3>2. QED  BY <1>6, <1>7, <1>9, <2>1, <3>1
  <2>2. CASE c # b  BY <1>8, <1>10, <2>2
  <2>3. QED  BY <2>1, <2>2
<1>12. QED  BY <1>11 DEF Read, newDone, newRes
-----------------------------------------------------------------------------
(***************************************************************************)
(* The steps of a reader with Koios, on where each reader stands: it goes  *)
(* on in its batch, has read it all, leaves it, or takes the next.         *)
(***************************************************************************)
Places == [Readers -> 0 .. NHashes]

(* A reader goes on to the next piece of its batch. *)
LEMMA GoesOnInBatch ==
    ASSUME NEW pos \in Places, NEW nxt \in Nat, NEW err \in BOOLEAN, NEW done \in [1 .. BatchCount -> Nat],
           Covered(pos, nxt, err, done), NEW r \in Readers, pos[r] # 0,
           NEW end \in 1 .. NHashes, BatchOf(end) = BatchOf(pos[r])
    PROVE  Covered([pos EXCEPT ![r] = end], nxt, err, [done EXCEPT ![BatchOf(pos[r])] = end])
<1> DEFINE b == BatchOf(pos[r])  to == [pos EXCEPT ![r] = end]  now1 == [done EXCEPT ![b] = end]
<1>1. b \in 1 .. BatchCount /\ b < nxt  BY BatchOfHash DEF Covered, Places
<1>2. to[r] = end /\ now1[b] = end /\ BatchOf(to[r]) = b  BY <1>1 DEF Places
<1>3. \A s \in Readers : s # r => to[s] = pos[s]  BY DEF Places
<1>4. \A c \in 1 .. BatchCount : c # b => now1[c] = done[c]  OBVIOUS
<1>5. end # 0  BY FetchAssumption
<1>6. \A s \in Readers : s # r /\ pos[s] # 0 => BatchOf(pos[s]) # b /\ BatchOf(pos[s]) \in 1 .. BatchCount
  BY BatchOfHash DEF Covered, Places
<1> HIDE DEF b, to, now1
<1>7. \A s \in Readers : to[s] # 0 => BatchOf(to[s]) < nxt /\ now1[BatchOf(to[s])] = to[s]
  <2>1. SUFFICES ASSUME NEW s \in Readers, to[s] # 0
                 PROVE  BatchOf(to[s]) < nxt /\ now1[BatchOf(to[s])] = to[s]
    OBVIOUS
  <2>2. CASE s = r  BY <1>1, <1>2, <2>2
  <2>3. CASE s # r
    <3>1. BatchOf(pos[s]) < nxt /\ done[BatchOf(pos[s])] = pos[s]  BY <1>3, <2>1, <2>3 DEF Covered
    <3>2. QED  BY <1>3, <1>4, <1>6, <2>1, <2>3, <3>1
  <2>4. QED  BY <2>2, <2>3
<1>8. \A s, t \in Readers : to[s] # 0 /\ to[t] # 0 /\ s # t => BatchOf(to[s]) # BatchOf(to[t])
  <2>1. SUFFICES ASSUME NEW s \in Readers, NEW t \in Readers, to[s] # 0, to[t] # 0, s # t
                 PROVE  BatchOf(to[s]) # BatchOf(to[t])
    OBVIOUS
  <2>2. CASE s = r  BY <1>2, <1>3, <1>6, <2>1, <2>2
  <2>3. CASE t = r  BY <1>2, <1>3, <1>6, <2>1, <2>3
  <2>4. CASE s # r /\ t # r  BY <1>3, <2>1, <2>4 DEF Covered
  <2>5. QED  BY <2>2, <2>3, <2>4
<1>9. \A c \in 1 .. BatchCount : c >= nxt => now1[c] = FirstOf(c)
  <2>1. \A c \in 1 .. BatchCount : c >= nxt => done[c] = FirstOf(c)  BY DEF Covered
  <2>2. \A c \in 1 .. BatchCount : c >= nxt => c # b  BY <1>1, BatchCountType
  <2>3. QED  BY <1>4, <2>1, <2>2
<1>10. ASSUME ~err, NEW c \in 1 .. BatchCount, c < nxt
       PROVE  (\E s \in Readers : to[s] # 0 /\ BatchOf(to[s]) = c) \/ now1[c] = LastOf(c) + 1
  <2>1. CASE c = b  BY <1>2, <1>5, <2>1
  <2>2. CASE c # b
    <3>1. (\E s \in Readers : pos[s] # 0 /\ BatchOf(pos[s]) = c) \/ done[c] = LastOf(c) + 1
      BY <1>10 DEF Covered
    <3>2. ASSUME NEW s \in Readers, pos[s] # 0, BatchOf(pos[s]) = c
          PROVE  to[s] # 0 /\ BatchOf(to[s]) = c
      BY <1>3, <2>2, <3>2 DEF b
    <3>3. QED  BY <1>4, <2>2, <3>1, <3>2
  <2>3. QED  BY <2>1, <2>2
<1>11. QED  BY <1>7, <1>8, <1>9, <1>10 DEF Covered, to, now1, b

(* A reader has read the last hash of its batch, and stands in none. *)
LEMMA HasReadBatch ==
    ASSUME NEW pos \in Places, NEW nxt \in Nat, NEW err \in BOOLEAN, NEW done \in [1 .. BatchCount -> Nat],
           Covered(pos, nxt, err, done), NEW r \in Readers, pos[r] # 0,
           NEW b \in 1 .. BatchCount, b = BatchOf(pos[r])
    PROVE  Covered([pos EXCEPT ![r] = 0], nxt, err, [done EXCEPT ![b] = LastOf(b) + 1])
<1> DEFINE to == [pos EXCEPT ![r] = 0]  now1 == [done EXCEPT ![b] = LastOf(b) + 1]
<1>1. b < nxt  BY DEF Covered
<1>2. to[r] = 0 /\ now1[b] = LastOf(b) + 1  BY DEF Places
<1>3. \A s \in Readers : s # r => to[s] = pos[s]  BY DEF Places
<1>4. \A c \in 1 .. BatchCount : c # b => now1[c] = done[c]  OBVIOUS
<1>6. \A s \in Readers : s # r /\ pos[s] # 0 => BatchOf(pos[s]) # b /\ BatchOf(pos[s]) \in 1 .. BatchCount
  BY BatchOfHash DEF Covered, Places
<1> HIDE DEF to, now1
<1>7. \A s \in Readers : to[s] # 0 => BatchOf(to[s]) < nxt /\ now1[BatchOf(to[s])] = to[s]
  <2>1. SUFFICES ASSUME NEW s \in Readers, to[s] # 0
                 PROVE  BatchOf(to[s]) < nxt /\ now1[BatchOf(to[s])] = to[s]
    OBVIOUS
  <2>2. s # r  BY <1>2, <2>1
  <2>3. BatchOf(pos[s]) < nxt /\ done[BatchOf(pos[s])] = pos[s]  BY <1>3, <2>1, <2>2 DEF Covered
  <2>4. QED  BY <1>3, <1>4, <1>6, <2>1, <2>2, <2>3
<1>8. \A s, t \in Readers : to[s] # 0 /\ to[t] # 0 /\ s # t => BatchOf(to[s]) # BatchOf(to[t])
  <2>1. SUFFICES ASSUME NEW s \in Readers, NEW t \in Readers, to[s] # 0, to[t] # 0, s # t
                 PROVE  BatchOf(to[s]) # BatchOf(to[t])
    OBVIOUS
  <2>2. s # r /\ t # r  BY <1>2, <2>1
  <2>3. QED  BY <1>3, <2>1, <2>2 DEF Covered
<1>9. \A c \in 1 .. BatchCount : c >= nxt => now1[c] = FirstOf(c)
  <2>1. \A c \in 1 .. BatchCount : c >= nxt => done[c] = FirstOf(c)  BY DEF Covered
  <2>2. \A c \in 1 .. BatchCount : c >= nxt => c # b  BY <1>1, BatchCountType
  <2>3. QED  BY <1>4, <2>1, <2>2
<1>10. ASSUME ~err, NEW c \in 1 .. BatchCount, c < nxt
       PROVE  (\E s \in Readers : to[s] # 0 /\ BatchOf(to[s]) = c) \/ now1[c] = LastOf(c) + 1
  <2>1. CASE c = b  BY <1>2, <2>1
  <2>2. CASE c # b
    <3>1. (\E s \in Readers : pos[s] # 0 /\ BatchOf(pos[s]) = c) \/ done[c] = LastOf(c) + 1
      BY <1>10 DEF Covered
    <3>2. ASSUME NEW s \in Readers, pos[s] # 0, BatchOf(pos[s]) = c
          PROVE  to[s] # 0 /\ BatchOf(to[s]) = c
      BY <1>3, <2>2, <3>2
    <3>3. QED  BY <1>4, <2>2, <3>1, <3>2
  <2>3. QED  BY <2>1, <2>2
<1>11. QED  BY <1>7, <1>8, <1>9, <1>10 DEF Covered, to, now1

(* A reader leaves its batch, or the batch it was about to take, with a    *)
(* failure.                                                                *)
LEMMA LeavesBatch ==
    ASSUME NEW pos \in Places, NEW nxt \in Nat, NEW err, NEW done, Covered(pos, nxt, err, done),
           NEW r \in Readers, NEW nxt2 \in {nxt, nxt + 1}
    PROVE  Covered([pos EXCEPT ![r] = 0], nxt2, TRUE, done)
<1> DEFINE to == [pos EXCEPT ![r] = 0]
<1>1. \A s \in Readers : to[s] # 0 => s # r /\ to[s] = pos[s]  BY DEF Places
<1>2. \A s \in Readers : to[s] # 0 => BatchOf(to[s]) < nxt2 /\ done[BatchOf(to[s])] = to[s]
  <2>1. SUFFICES ASSUME NEW s \in Readers, to[s] # 0
                 PROVE  BatchOf(to[s]) < nxt2 /\ done[BatchOf(to[s])] = to[s]
    OBVIOUS
  <2>2. to[s] = pos[s]  BY <1>1, <2>1
  <2>3. BatchOf(pos[s]) < nxt /\ done[BatchOf(pos[s])] = pos[s]  BY <2>1, <2>2 DEF Covered
  <2>4. BatchOf(pos[s]) \in 1 .. BatchCount  BY <2>1, <2>2, BatchOfHash DEF Places
  <2>5. BatchOf(pos[s]) < nxt2  BY <2>3, <2>4, BatchCountType
  <2>6. QED  BY <2>2, <2>3, <2>5
<1> HIDE DEF to
<1>3. \A s, t \in Readers : to[s] # 0 /\ to[t] # 0 /\ s # t => BatchOf(to[s]) # BatchOf(to[t])
  BY <1>1 DEF Covered
<1>4. \A c \in 1 .. BatchCount : c >= nxt2 => done[c] = FirstOf(c)
  <2>1. \A c \in 1 .. BatchCount : c >= nxt2 => c >= nxt  BY BatchCountType
  <2>2. QED  BY <2>1 DEF Covered
<1>5. QED  BY <1>2, <1>3, <1>4 DEF Covered, to

(* A reader that stands in no batch takes the first that nobody has taken. *)
LEMMA TakesBatch ==
    ASSUME NEW pos \in Places, NEW nxt \in 1 .. BatchCount, NEW err, NEW done,
           Covered(pos, nxt, err, done), NEW r \in Readers, pos[r] = 0
    PROVE  Covered([pos EXCEPT ![r] = FirstOf(nxt)], nxt + 1, err, done)
<1> DEFINE to == [pos EXCEPT ![r] = FirstOf(nxt)]
<1>1. /\ FirstOf(nxt) \in 1 .. NHashes /\ LastOf(nxt) \in FirstOf(nxt) .. NHashes
      /\ NHashes \in Nat /\ BatchCount \in Nat
  BY BatchBounds, FetchAssumption, BatchCountType
<1>2. BatchOf(FirstOf(nxt)) = nxt  BY <1>1, BatchOfHash
<1>3. to[r] = FirstOf(nxt) /\ BatchOf(to[r]) = nxt  BY <1>2 DEF Places
<1>4. \A s \in Readers : s # r => to[s] = pos[s]  BY DEF Places
<1>5. \A s \in Readers : pos[s] # 0 => BatchOf(pos[s]) \in 1 .. BatchCount  BY BatchOfHash DEF Places
<1>6. done[nxt] = FirstOf(nxt)  BY <1>1 DEF Covered
<1> HIDE DEF to
<1>7. \A s \in Readers : pos[s] # 0 => BatchOf(pos[s]) < nxt /\ BatchOf(pos[s]) # nxt
  BY <1>1, <1>5 DEF Covered
<1>8. \A s \in Readers : to[s] # 0 => BatchOf(to[s]) < nxt + 1 /\ done[BatchOf(to[s])] = to[s]
  <2>1. SUFFICES ASSUME NEW s \in Readers, to[s] # 0
                 PROVE  BatchOf(to[s]) < nxt + 1 /\ done[BatchOf(to[s])] = to[s]
    OBVIOUS
  <2>2. CASE s = r
    <3>1. nxt < nxt + 1  BY <1>1
    <3>2. QED  BY <1>3, <1>6, <2>2, <3>1
  <2>3. CASE s # r
    <3>1. BatchOf(pos[s]) < nxt /\ done[BatchOf(pos[s])] = pos[s] /\ to[s] = pos[s]
      BY <1>4, <2>1, <2>3 DEF Covered
    <3>2. BatchOf(pos[s]) \in 1 .. BatchCount  BY <1>4, <1>5, <2>1, <2>3
    <3>3. BatchOf(pos[s]) < nxt + 1  BY <1>1, <3>1, <3>2
    <3>4. QED  BY <3>1, <3>3
  <2>4. QED  BY <2>2, <2>3
<1>9. \A s, t \in Readers : to[s] # 0 /\ to[t] # 0 /\ s # t => BatchOf(to[s]) # BatchOf(to[t])
  <2>1. SUFFICES ASSUME NEW s \in Readers, NEW t \in Readers, to[s] # 0, to[t] # 0, s # t
                 PROVE  BatchOf(to[s]) # BatchOf(to[t])
    OBVIOUS
  <2>2. CASE s = r  BY <1>3, <1>4, <1>7, <2>1, <2>2
  <2>3. CASE t = r  BY <1>3, <1>4, <1>7, <2>1, <2>3
  <2>4. CASE s # r /\ t # r  BY <1>4, <2>1, <2>4 DEF Covered
  <2>5. QED  BY <2>2, <2>3, <2>4
<1>10. \A c \in 1 .. BatchCount : c >= nxt + 1 => done[c] = FirstOf(c)
  <2>1. \A c \in 1 .. BatchCount : c >= nxt + 1 => c >= nxt  BY <1>1
  <2>2. QED  BY <2>1 DEF Covered
<1>11. ASSUME ~err, NEW c \in 1 .. BatchCount, c < nxt + 1
       PROVE  (\E s \in Readers : to[s] # 0 /\ BatchOf(to[s]) = c) \/ done[c] = LastOf(c) + 1
  <2>1. CASE c = nxt
    <3>1. to[r] # 0  BY <1>1, <1>3
    <3>2. QED  BY <1>3, <2>1, <3>1
  <2>2. CASE c # nxt
    <3>1. c < nxt  BY <1>1, <1>11, <2>2
    <3>2. (\E s \in Readers : pos[s] # 0 /\ BatchOf(pos[s]) = c) \/ done[c] = LastOf(c) + 1
      BY <1>11, <3>1 DEF Covered
    <3>3. ASSUME NEW s \in Readers, pos[s] # 0, BatchOf(pos[s]) = c
          PROVE  to[s] # 0 /\ BatchOf(to[s]) = c
      BY <1>4, <3>3
    <3>4. QED  BY <3>2, <3>3
  <2>3. QED  BY <2>1, <2>2
<1>12. QED  BY <1>8, <1>9, <1>10, <1>11 DEF Covered, to
-----------------------------------------------------------------------------
(* With Blockfrost the hashes are swept one by one. *)
LEMMA SweptStart ==
    /\ Swept(1) = [b \in 1 .. BatchCount |-> FirstOf(b)]
    /\ Swept(NHashes + 1) = [b \in 1 .. BatchCount |-> LastOf(b) + 1]
<1>1. ASSUME NEW b \in 1 .. BatchCount
      PROVE  /\ FirstOf(b) \in 1 .. NHashes /\ LastOf(b) \in FirstOf(b) .. NHashes
             /\ Swept(1)[b] = FirstOf(b) /\ Swept(NHashes + 1)[b] = LastOf(b) + 1
  <2>1. FirstOf(b) \in 1 .. NHashes /\ LastOf(b) \in FirstOf(b) .. NHashes /\ NHashes \in Nat
    BY BatchBounds, FetchAssumption
  <2>2. QED  BY <2>1 DEF Swept
<1>2. QED  BY <1>1 DEF Swept

(* Reading the next hash moves the sweep by one. *)
LEMMA SweptStep ==
    ASSUME NEW h \in 1 .. NHashes
    PROVE  /\ Swept(h) \in [1 .. BatchCount -> Nat] /\ Swept(h)[BatchOf(h)] = h
           /\ Swept(h + 1) = [Swept(h) EXCEPT ![BatchOf(h)] = h + 1]
<1> DEFINE a == BatchOf(h)
<1>1. NHashes \in Nat /\ h \in Nat  BY FetchAssumption
<1>2. /\ a \in 1 .. BatchCount
      /\ \A b \in 1 .. BatchCount : (FirstOf(b) <= h /\ h <= LastOf(b)) <=> b = a
  BY BatchOfHash
<1> HIDE DEF a
<1>3. ASSUME NEW b \in 1 .. BatchCount
      PROVE  /\ Swept(h)[b] \in Nat
             /\ b = a => Swept(h)[b] = h /\ Swept(h + 1)[b] = h + 1
             /\ b # a => Swept(h + 1)[b] = Swept(h)[b]
  <2>1. FirstOf(b) \in 1 .. NHashes /\ LastOf(b) \in FirstOf(b) .. NHashes  BY BatchBounds
  <2>2. b # a => h < FirstOf(b) \/ LastOf(b) < h  BY <1>1, <1>2, <2>1
  <2>3. \A p \in Nat : Swept(p)[b] = IF p < FirstOf(b) THEN FirstOf(b)
                                      ELSE IF p <= LastOf(b) THEN p ELSE LastOf(b) + 1
    BY DEF Swept
  <2>4. Swept(h)[b] \in Nat  BY <1>1, <2>1, <2>3
  <2>5. ASSUME b = a PROVE Swept(h)[b] = h /\ Swept(h + 1)[b] = h + 1
    <3>1. FirstOf(b) <= h /\ h <= LastOf(b)  BY <1>2, <2>5
    <3>2. QED  BY <1>1, <2>1, <2>3, <3>1
  <2>6. ASSUME b # a PROVE Swept(h + 1)[b] = Swept(h)[b]
    <3>1. CASE h < FirstOf(b)
      <4>1. h + 1 <= FirstOf(b)  BY <1>1, <2>1, <3>1
      <4>2. QED  BY <1>1, <2>1, <2>3, <3>1, <4>1
    <3>2. CASE LastOf(b) < h  BY <1>1, <2>1, <2>3, <3>2
    <3>3. QED  BY <2>2, <2>6, <3>1, <3>2
  <2>7. QED  BY <2>4, <2>5, <2>6
<1>4. \A p : Swept(p) = [b \in 1 .. BatchCount |-> Swept(p)[b]]  BY DEF Swept
<1>5. Swept(h) \in [1 .. BatchCount -> Nat]  BY <1>3, <1>4
<1>6. Swept(h + 1) = [Swept(h) EXCEPT ![a] = h + 1]
  <2> DEFINE was == Swept(h)  g == Swept(h + 1)
  <2>1. was = [b \in 1 .. BatchCount |-> was[b]] /\ g = [b \in 1 .. BatchCount |-> g[b]]  BY <1>4
  <2>2. \A b \in 1 .. BatchCount : g[b] = IF b = a THEN h + 1 ELSE was[b]  BY <1>3
  <2> HIDE DEF was, g
  <2>3. g = [was EXCEPT ![a] = h + 1]  BY <2>1, <2>2
  <2>4. QED  BY <2>3 DEF was, g
<1>7. QED  BY <1>2, <1>3, <1>5, <1>6 DEF a

(***************************************************************************)
(* What a piece is worth when its last reply has come: the rows read are a *)
(* beginning of it, and the rest of it is what the provider does not have. *)
(***************************************************************************)
LEMMA PieceRows ==
    ASSUME NEW piece \in Seq(1 .. NHashes), Run(piece),
           NEW s \in Seq(1 .. NHashes), Begins(s, piece)
    PROVE  /\ Ascending(s)
           /\ \A h : h \in HashesOf(s) <=> h \in piece[1] .. piece[1] + Len(s) - 1
<1>1. /\ Len(piece) \in Nat /\ piece[1] \in 1 .. NHashes
      /\ \A i \in 1 .. Len(piece) : piece[i] = piece[1] + i - 1
  BY RunElements
<1>2. Len(s) \in Nat /\ DOMAIN s = 1 .. Len(s) /\ Len(s) <= Len(piece)  BY DEF Begins
<1> DEFINE n == Len(s)  first == piece[1]
<1>3. \A i \in 1 .. n : s[i] = first + i - 1
  <2>1. SUFFICES ASSUME NEW i \in 1 .. n PROVE s[i] = first + i - 1  OBVIOUS
  <2>2. i \in 1 .. Len(piece)  BY <1>1, <1>2
  <2>3. QED  BY <1>1, <2>2 DEF Begins
<1>4. first \in Int /\ n \in Nat /\ DOMAIN s = 1 .. n  BY <1>1, <1>2, FetchAssumption
<1> HIDE DEF n, first
<1>5. Ascending(s)  BY <1>3, <1>4 DEF Ascending
<1>6. ASSUME NEW h \in HashesOf(s) PROVE h \in first .. first + n - 1
  <2>1. PICK i \in 1 .. n : h = s[i]  BY <1>4 DEF HashesOf
  <2>2. QED  BY <1>3, <1>4, <2>1
<1>7. ASSUME NEW h \in first .. first + n - 1 PROVE h \in HashesOf(s)
  <2>1. h - first + 1 \in 1 .. n /\ first + (h - first + 1) - 1 = h  BY <1>4
  <2>2. s[h - first + 1] = h  BY <1>3, <2>1
  <2>3. QED  BY <1>4, <2>1, <2>2 DEF HashesOf
<1>8. QED  BY <1>5, <1>6, <1>7 DEF n, first

(* A page of block_txs continues the rows before it; a short one completes *)
(* the piece.                                                              *)
LEMMA PageFollows ==
    ASSUME FetchTypeOK, NEW r \in Readers, reader[r].todo # <<>>, Paced, stage = "koios",
           Begins(reader[r].rows, Piece(r))
    PROVE  /\ reader[r].rows \o PageOf(r) \in Seq(1 .. NHashes)
           /\ Begins(reader[r].rows \o PageOf(r), Piece(r))
           /\ Len(PageOf(r)) # PageRows => Len(reader[r].rows \o PageOf(r)) = Len(Piece(r))
<1> DEFINE S == 1 .. NHashes  rows == reader[r].rows  piece == Piece(r)  page == PageOf(r)
           n == Len(rows)  size == Len(piece)
           k == IF size - n < PageRows THEN size - n ELSE PageRows
           j == rows \o page
<1>1. rows \in Seq(S) /\ piece \in Seq(S) /\ page \in Seq(S)
  BY PieceType DEF FetchTypeOK, ReaderType
<1>2. n \in Nat /\ size \in Nat /\ n <= size /\ \A i \in 1 .. n : rows[i] = piece[i]
  BY <1>1 DEF Begins
<1>3. page = SubSeq(piece, n + 1, n + k)  BY DEF PageOf
<1>4. \A i \in 1 .. size : piece[i] \in S  BY <1>1, ElementOfSeq
<1> HIDE DEF S, rows, piece, page, n, size
<1>5. k \in Nat /\ n + k <= size /\ (k # PageRows => n + k = size)  BY <1>2, FetchAssumption
<1> HIDE DEF k
<1>6. n + 1 \in Int /\ n + k \in Int /\ \A i \in n + 1 .. n + k : i \in 1 .. size  BY <1>2, <1>5
<1>7. \A i \in n + 1 .. n + k : piece[i] \in S  BY <1>4, <1>6
<1>8. Len(page) = k /\ \A i \in 1 .. k : page[i] = piece[(n + 1) + i - 1]
  <2> DEFINE a == n + 1  b == n + k
  <2>1. a \in Int /\ b \in Int /\ page = SubSeq(piece, a, b)  BY <1>3, <1>6
  <2>2. \A i \in a .. b : piece[i] \in S  BY <1>7
  <2>3. b - a + 1 = k /\ (a <= b <=> k # 0)  BY <1>2, <1>5
  <2>4. (n + 1) = a  OBVIOUS
  <2> HIDE DEF a, b
  <2>5. Len(page) = IF a <= b THEN b - a + 1 ELSE 0  BY <2>1, <2>2, SubSeqProperties
  <2>6. \A i \in 1 .. b - a + 1 : page[i] = piece[a + i - 1]  BY <2>1, <2>2, SubSeqProperties
  <2>7. Len(page) = k  BY <2>3, <2>5
  <2>8. \A i \in 1 .. k : page[i] = piece[a + i - 1]  BY <2>3, <2>6
  <2>9. QED  BY <2>4, <2>7, <2>8
<1>9. Len(page) = k  BY <1>8
<1>10. \A i \in 1 .. k : page[i] = piece[n + i]
  <2>1. \A i \in 1 .. k : (n + 1) + i - 1 = n + i  BY <1>2, <1>5
  <2>2. QED  BY <1>8, <2>1
<1>11. /\ j \in Seq(S) /\ Len(j) = Len(rows) + Len(page)
       /\ \A i \in 1 .. Len(rows) + Len(page) :
             j[i] = IF i <= Len(rows) THEN rows[i] ELSE page[i - Len(rows)]
  BY <1>1, ConcatProperties
<1> HIDE DEF j
<1>12. Len(j) = n + k /\ \A i \in 1 .. n + k : j[i] = IF i <= n THEN rows[i] ELSE page[i - n]
  BY <1>9, <1>11 DEF n
<1>13. ASSUME NEW i \in 1 .. n + k PROVE j[i] = piece[i]
  <2>1. CASE i <= n
    <3>1. i \in 1 .. n  BY <1>2, <1>5, <2>1
    <3>2. QED  BY <1>2, <1>12, <2>1, <3>1
  <2>2. CASE ~(i <= n)
    <3>1. i - n \in 1 .. k /\ n + (i - n) = i  BY <1>2, <1>5, <2>2
    <3>2. j[i] = page[i - n]  BY <1>12, <2>2
    <3>3. page[i - n] = piece[n + (i - n)]  BY <1>10, <3>1
    <3>4. QED  BY <3>1, <3>2, <3>3
  <2>3. QED  BY <2>1, <2>2
<1>14. Begins(j, piece)  BY <1>5, <1>12, <1>13 DEF Begins, size
<1>15. Len(page) # PageRows => Len(j) = size  BY <1>5, <1>9, <1>12
<1>16. QED  BY <1>11, <1>14, <1>15 DEF S, j, rows, page, piece, size

(* The last reply of a piece: what it has rows for and what it does not    *)
(* are the piece.                                                          *)
LEMMA PieceDone ==
    ASSUME FetchTypeOK, NEW r \in Readers, reader[r].todo # <<>>, Run(Piece(r)),
           Begins(reader[r].rows, Piece(r)), ~(Paced /\ stage = "koios") => reader[r].rows = <<>>,
           NEW page \in {PageOf(r), <<>>}, Paced /\ stage = "koios" => Len(page) # PageRows
    PROVE  LET s == reader[r].rows \o page
               first == Piece(r)[1]
               lost == IF page = PageOf(r) THEN {}
                       ELSE {Piece(r)[i] : i \in Len(reader[r].rows) + 1 .. Len(Piece(r))}
           IN  /\ s \in Seq(1 .. NHashes) /\ Ascending(s)
               /\ \A h \in 1 .. NHashes : h \in lost => first <= h /\ h < first + Len(Piece(r))
               /\ \A h \in 1 .. NHashes :
                     h \in HashesOf(s) <=> (first <= h /\ h < first + Len(Piece(r)) /\ h \notin lost)
<1> DEFINE rows == reader[r].rows  piece == Piece(r)  s == rows \o page  first == piece[1]
           size == Len(piece)  n == Len(rows)
<1>1. /\ piece \in Seq(1 .. NHashes) /\ rows \in Seq(1 .. NHashes)
  BY PieceType DEF FetchTypeOK, ReaderType
<1>2. /\ size \in Nat \ {0} /\ first \in Int /\ n \in Nat /\ n <= size
      /\ \A i \in 1 .. size : piece[i] = first + i - 1
  BY <1>1, RunElements, FetchAssumption DEF Begins
<1>3. CASE page = PageOf(r)
  <2>1. s \in Seq(1 .. NHashes) /\ Begins(s, piece) /\ Len(s) = size
    <3>1. CASE Paced /\ stage = "koios"  BY <1>3, <3>1, PageFollows
    <3>2. CASE ~(Paced /\ stage = "koios")
      <4>1. page = piece /\ rows = <<>>  BY <1>3, <3>2 DEF PageOf
      <4> HIDE DEF piece
      <4>2. s = piece  BY <1>1, <4>1, ConcatEmptySeq
      <4>3. Begins(piece, piece)  BY <1>2 DEF Begins
      <4>4. QED  BY <1>1, <4>2, <4>3
    <3>3. QED  BY <3>1, <3>2
  <2> HIDE DEF s
  <2>2. Ascending(s) /\ \A h : h \in HashesOf(s) <=> h \in first .. first + size - 1
    BY <1>1, <2>1, PieceRows
  <2>3. \A h \in 1 .. NHashes : h \in first .. first + size - 1 <=> (first <= h /\ h < first + size)
    BY <1>2, FetchAssumption
  <2>4. QED  BY <1>3, <2>1, <2>2, <2>3 DEF s
<1>4. CASE page # PageOf(r)
  <2> DEFINE lost == {piece[i] : i \in n + 1 .. size}
  <2>1. page = <<>>  BY <1>4
  <2> HIDE DEF rows, piece
  <2>2. s = rows  BY <1>1, <2>1, ConcatEmptySeq
  <2>3. Ascending(s) /\ \A h : h \in HashesOf(s) <=> h \in first .. first + n - 1
    BY <1>1, <2>2, PieceRows DEF rows, piece
  <2> HIDE DEF s, n, size, first
  <2>4. \A i \in n + 1 .. size : piece[i] = first + i - 1  BY <1>2
  <2>5. ASSUME NEW h \in Int PROVE h \in lost <=> (first + n <= h /\ h < first + size)
    <3>1. ASSUME h \in lost PROVE first + n <= h /\ h < first + size
      <4>1. PICK i \in n + 1 .. size : h = piece[i]  BY <3>1
      <4>2. QED  BY <1>2, <2>4, <4>1
    <3>2. ASSUME first + n <= h, h < first + size PROVE h \in lost
      <4>1. h - first + 1 \in n + 1 .. size /\ first + (h - first + 1) - 1 = h  BY <1>2, <3>2
      <4>2. piece[h - first + 1] = h  BY <2>4, <4>1
      <4>3. QED  BY <4>1, <4>2
    <3>3. QED  BY <3>1, <3>2
  <2> HIDE DEF lost
  <2>6. \A h \in 1 .. NHashes :
          /\ h \in lost => first <= h /\ h < first + size
          /\ h \in HashesOf(s) <=> (first <= h /\ h < first + size /\ h \notin lost)
    <3>1. SUFFICES ASSUME NEW h \in 1 .. NHashes
                   PROVE  /\ h \in lost => first <= h /\ h < first + size
                          /\ h \in HashesOf(s) <=> (first <= h /\ h < first + size /\ h \notin lost)
      OBVIOUS
    <3>2. h \in Int  BY FetchAssumption
    <3>3. h \in lost <=> (first + n <= h /\ h < first + size)  BY <2>5, <3>2
    <3>4. h \in HashesOf(s) <=> (first <= h /\ h < first + n)  BY <1>2, <2>3, <3>2
    <3>5. QED  BY <1>2, <3>2, <3>3, <3>4
  <2>7. s \in Seq(1 .. NHashes)  BY <1>1, <2>2
  <2>8. QED  BY <1>4, <2>3, <2>6, <2>7 DEF s, lost, n, size, first, rows, piece
<1>5. QED  BY <1>3, <1>4
-----------------------------------------------------------------------------
(* What a reader holds still fits after each of its steps. *)
LEMMA FitsEmpty ==
    ASSUME NEW rd \in ReaderType, rd.todo = <<>>, NEW st, NEW k
    PROVE  Fits(rd, st, k) /\ AtOf(rd) = 0
BY DEF Fits, AtOf

(* What fits says of the piece being read and of those after it. *)
LEMMA FitsPiece ==
    ASSUME FetchTypeOK, NEW r \in Readers, reader[r].todo # <<>>, stage \in Providers,
           Fits(reader[r], stage, kind)
    PROVE  LET piece == Piece(r)
               b == BatchOf(piece[1])
               rest == Tail(reader[r].todo)
           IN  /\ piece \in Seq(1 .. NHashes) /\ Run(piece) /\ piece[1] \in 1 .. NHashes
               /\ Len(piece) \in Nat \ {0} /\ AtOf(reader[r]) = piece[1] /\ b \in 1 .. BatchCount
               /\ Begins(reader[r].rows, piece)
               /\ ~(Paced /\ stage = "koios") => reader[r].rows = <<>>
               /\ Tiles(reader[r].todo, LastFor(reader[r].todo, stage))
               /\ piece[1] + Len(piece) <= LastOf(b) + 1
               /\ stage = "blockfrost" => Len(piece) = 1
               /\ rest = <<>> => piece[1] + Len(piece) = LastFor(reader[r].todo, stage) + 1
               /\ rest # <<>> =>
                     /\ Head(rest)[1] = piece[1] + Len(piece) /\ Head(rest)[1] \in 1 .. NHashes
                     /\ stage = "koios" => BatchOf(Head(rest)[1]) = b
                     /\ \A rd \in ReaderType :
                           rd.todo = rest /\ rd.rows = <<>> => Fits(rd, stage, kind)
<1> DEFINE todo == reader[r].todo  piece == Piece(r)  b == BatchOf(piece[1])  rest == Tail(todo)
           last == LastFor(todo, stage)
<1>1. todo \in Seq(Seq(1 .. NHashes))  BY DEF FetchTypeOK, ReaderType
<1>2. /\ Tiles(todo, last) /\ Begins(reader[r].rows, piece)
      /\ ~(Paced /\ stage = "koios") => reader[r].rows = <<>>
      /\ stage = "blockfrost" => \A i \in 1 .. Len(todo) : Len(todo[i]) = 1
  BY DEF Fits, Piece, Paced
<1>3. AtOf(reader[r]) = piece[1] /\ piece = Head(todo)  BY DEF AtOf, Piece
<1>4. Len(todo) \in Nat \ {0} /\ Head(todo) = todo[1] /\ todo[1] \in Seq(1 .. NHashes)
      /\ Len(rest) = Len(todo) - 1 /\ \A i \in 1 .. Len(todo) - 1 : rest[i] = todo[i + 1]
      /\ rest # <<>> => Head(rest) = rest[1]
  <2> DEFINE S == Seq(1 .. NHashes)
  <2>1. todo \in Seq(S) /\ todo # <<>>  BY <1>1
  <2> HIDE DEF S, todo
  <2>2. /\ Len(todo) \in Nat \ {0} /\ Head(todo) = todo[1] /\ todo[1] \in S
        /\ Tail(todo) \in Seq(S) /\ Len(Tail(todo)) = Len(todo) - 1
        /\ \A i \in 1 .. Len(todo) - 1 : Tail(todo)[i] = todo[i + 1]
    BY <2>1, NonEmpty
  <2>3. Tail(todo) # <<>> => Head(Tail(todo)) = Tail(todo)[1]  BY <2>2, NonEmpty
  <2>4. QED  BY <2>2, <2>3 DEF S
<1>5. 1 \in 1 .. Len(todo) /\ Run(todo[1])  BY <1>2, <1>4 DEF Tiles
<1>6. piece \in Seq(1 .. NHashes) /\ Run(piece)  BY <1>3, <1>4, <1>5
<1> HIDE DEF piece, todo
<1>7. Len(piece) \in Nat \ {0} /\ piece[1] \in 1 .. NHashes  BY <1>6, RunElements
<1>8. b \in 1 .. BatchCount /\ FirstOf(b) <= piece[1] /\ piece[1] <= LastOf(b)
      /\ FirstOf(b) \in 1 .. NHashes /\ LastOf(b) \in FirstOf(b) .. NHashes /\ NHashes \in Nat
  BY <1>7, BatchOfHash, BatchBounds, FetchAssumption
<1>9. last \in Nat /\ last <= NHashes /\ (stage = "koios" => last = LastOf(b))
  BY <1>3, <1>8 DEF LastFor
<1> HIDE DEF b, last
<1>10. todo # <<>>  BY DEF todo
<1>11. /\ piece[1] + Len(piece) <= last + 1
       /\ rest = <<>> => piece[1] + Len(piece) = last + 1
       /\ rest # <<>> => /\ Head(rest)[1] = piece[1] + Len(piece)
                         /\ Head(rest)[1] <= last /\ Tiles(rest, last)
  BY <1>1, <1>2, <1>3, <1>9, <1>10, TilesHead
<1>12. stage = "blockfrost" => Len(piece) = 1  BY <1>2, <1>3, <1>4, <1>5
<1>13. piece[1] + Len(piece) <= LastOf(b) + 1
  <2>1. CASE stage = "koios"  BY <1>9, <1>11, <2>1
  <2>2. CASE stage = "blockfrost"
    <3>1. Len(piece) = 1  BY <1>12, <2>2
    <3>2. piece[1] \in Int  BY <1>7, <1>8
    <3>3. QED  BY <1>8, <3>1, <3>2
  <2>3. QED  BY <2>1, <2>2 DEF Providers
<1> DEFINE to == Head(rest)[1]
<1>14. ASSUME rest # <<>>
       PROVE  /\ to \in 1 .. NHashes /\ (stage = "koios" => BatchOf(to) = b)
              /\ \A rd \in ReaderType : rd.todo = rest /\ rd.rows = <<>> => Fits(rd, stage, kind)
  <2>1. to = piece[1] + Len(piece) /\ to <= last /\ Tiles(rest, last)  BY <1>11, <1>14
  <2> HIDE DEF to
  <2>2. to \in Int /\ piece[1] \in Int /\ piece[1] >= 1 /\ to >= piece[1]  BY <1>7, <1>8, <2>1
  <2>3. to \in 1 .. NHashes  BY <1>8, <1>9, <2>1, <2>2
  <2>4. stage = "koios" => BatchOf(to) = b
    <3>1. SUFFICES ASSUME stage = "koios" PROVE BatchOf(to) = b  OBVIOUS
    <3>2. FirstOf(b) <= to /\ to <= LastOf(b)  BY <1>8, <1>9, <2>1, <2>2, <3>1
    <3>3. QED  BY <1>8, <2>3, <3>2, BatchOfHash
  <2>5. LastFor(rest, stage) = last
    <3>1. CASE stage = "koios"
      <4>1. LastFor(rest, stage) = LastOf(BatchOf(to))  BY <3>1 DEF LastFor, to
      <4>2. QED  BY <1>9, <2>4, <3>1, <4>1
    <3>2. CASE stage # "koios"  BY <3>2 DEF LastFor, last
    <3>3. QED  BY <3>1, <3>2
  <2>6. stage = "blockfrost" => \A i \in 1 .. Len(rest) : Len(rest[i]) = 1
    <3>1. SUFFICES ASSUME stage = "blockfrost", NEW i \in 1 .. Len(rest) PROVE Len(rest[i]) = 1
      OBVIOUS
    <3>2. i \in 1 .. Len(todo) - 1 /\ i + 1 \in 1 .. Len(todo)  BY <1>4
    <3>3. QED  BY <1>2, <1>4, <3>1, <3>2
  <2>7. ASSUME NEW rd \in ReaderType, rd.todo = rest, rd.rows = <<>> PROVE Fits(rd, stage, kind)
    <3>1. Begins(<<>>, Head(rest))
      <4>1. Len(rest) \in Nat \ {0}  BY <1>4, <1>14, EmptySeq
      <4>2. rest[1] = todo[2] /\ 2 \in 1 .. Len(todo)  BY <1>4, <4>1
      <4>3. Head(rest) = rest[1]  BY <1>4, <1>14
      <4>4. Run(todo[2])  BY <1>2, <4>2 DEF Tiles
      <4>5. Head(rest) \in Seq(1 .. NHashes)
        <5>1. todo[2] \in Seq(1 .. NHashes)  BY <1>1, <4>2, ElementOfSeq
        <5>2. QED  BY <4>2, <4>3, <5>1
      <4>6. Len(Head(rest)) \in Nat  BY <4>5
      <4>7. QED  BY <4>6 DEF Begins
    <3>2. QED  BY <2>1, <2>5, <2>6, <2>7, <3>1 DEF Fits
  <2>8. QED  BY <2>3, <2>4, <2>7 DEF to
<1>15. QED
  BY <1>2, <1>3, <1>6, <1>7, <1>8, <1>11, <1>12, <1>13, <1>14 DEF b, last, piece, todo

(* A reader with another attempt at its pieces, more rows, or halves. *)
LEMMA FitsSame ==
    ASSUME FetchTypeOK, NEW r \in Readers, reader[r].todo # <<>>, stage \in Providers,
           Fits(reader[r], stage, kind), NEW rd \in ReaderType, rd.todo = reader[r].todo,
           \/ rd.rows \in {<<>>, reader[r].rows}
           \/ Paced /\ stage = "koios" /\ rd.rows = reader[r].rows \o PageOf(r)
    PROVE  Fits(rd, stage, kind) /\ AtOf(rd) = AtOf(reader[r])
<1>1. /\ Piece(r) \in Seq(1 .. NHashes) /\ Begins(reader[r].rows, Piece(r))
      /\ ~(Paced /\ stage = "koios") => reader[r].rows = <<>>
  BY FitsPiece
<1>2. Begins(rd.rows, Piece(r))
  <2>1. Begins(<<>>, Piece(r))  BY <1>1 DEF Begins
  <2>2. QED  BY <1>1, <2>1, PageFollows
<1>3. QED  BY <1>1, <1>2 DEF Fits, AtOf, Piece, Paced, LastFor

(* A reader left with the halves of its piece. *)
LEMMA FitsHalved ==
    ASSUME FetchTypeOK, NEW r \in Readers, reader[r].todo # <<>>, stage = "koios",
           Len(Piece(r)) > 1, Fits(reader[r], stage, kind)
    PROVE  Fits(Asking(Halved(r)), stage, kind) /\ AtOf(Asking(Halved(r))) = AtOf(reader[r])
<1> DEFINE todo == reader[r].todo  new == Halved(r)
           last == LastFor(todo, stage)  half == (Len(Piece(r)) + 1) \div 2
<1>1. stage \in Providers  BY DEF Providers
<1>2. /\ Piece(r) \in Seq(1 .. NHashes) /\ Piece(r)[1] \in 1 .. NHashes
      /\ AtOf(reader[r]) = Piece(r)[1] /\ Tiles(todo, last)
      /\ BatchOf(Piece(r)[1]) \in 1 .. BatchCount
  BY <1>1, FitsPiece
<1>3. todo \in Seq(Seq(1 .. NHashes))  BY DEF FetchTypeOK, ReaderType
<1>4. Len(todo) \in Nat \ {0} /\ Piece(r) = todo[1]  BY <1>3, NonEmpty DEF Piece
<1>5. /\ new \in Seq(Seq(1 .. NHashes)) /\ new # <<>>
      /\ half \in 1 .. Len(todo[1]) /\ half < Len(todo[1])
      /\ Len(new) = Len(todo) + 1
      /\ new[1] = SubSeq(todo[1], 1, half)
      /\ new[2] = SubSeq(todo[1], half + 1, Len(todo[1]))
      /\ \A i \in 3 .. Len(todo) + 1 : new[i] = todo[i - 1]
  BY <1>4, HalvedType
<1>6. last \in Nat
  <2>1. last = LastOf(BatchOf(Piece(r)[1]))  BY DEF LastFor, Piece
  <2>2. QED  BY <1>2, <2>1, BatchBounds, FetchAssumption
<1>7. todo # <<>>  OBVIOUS
<1> HIDE DEF todo, new, last, half
<1>8. Tiles(new, last) /\ new[1][1] = todo[1][1]  BY <1>2, <1>3, <1>5, <1>6, <1>7, TilesHalved
<1>9. Head(new) = new[1] /\ new[1] \in Seq(1 .. NHashes)  BY <1>5, NonEmpty
<1>10. LastFor(new, stage) = last  BY <1>4, <1>8, <1>9 DEF LastFor, last, todo, Piece
<1>11. Asking(new).todo = new /\ Asking(new).rows = <<>>  BY <1>5, AskingType
<1>12. Begins(<<>>, Head(new))
  <2>1. Len(Head(new)) \in Nat  BY <1>9
  <2>2. QED  BY <2>1 DEF Begins
<1>13. Fits(Asking(new), stage, kind)  BY <1>8, <1>10, <1>11, <1>12 DEF Fits
<1>14. AtOf(Asking(new)) = Piece(r)[1]  BY <1>4, <1>5, <1>8, <1>9, <1>11 DEF AtOf
<1>15. QED  BY <1>2, <1>13, <1>14 DEF new

(* A reader with a batch of Koios to do. *)
LEMMA FitsBatch ==
    ASSUME NEW b \in 1 .. BatchCount, NEW k
    PROVE  /\ Fits(Asking(<<Batch(b)>>), "koios", k)
           /\ AtOf(Asking(<<Batch(b)>>)) = FirstOf(b) /\ FirstOf(b) \in 1 .. NHashes
<1> DEFINE todo == <<Batch(b)>>
<1>1. /\ todo \in Seq(Seq(1 .. NHashes)) /\ todo # <<>>
      /\ Head(todo)[1] = FirstOf(b) /\ Tiles(todo, LastOf(b))
  BY TilesBatch
<1>2. FirstOf(b) \in 1 .. NHashes /\ LastOf(b) \in FirstOf(b) .. NHashes /\ NHashes \in Nat
  BY BatchBounds, FetchAssumption
<1>3. Head(todo) = Batch(b) /\ Len(Batch(b)) \in Nat
  <2>1. Batch(b) \in Seq(1 .. NHashes)  BY BatchHashes
  <2>2. QED  BY <2>1
<1> HIDE DEF todo
<1>4. BatchOf(FirstOf(b)) = b  BY <1>2, BatchOfHash
<1>5. LastFor(todo, "koios") = LastOf(b)  BY <1>1, <1>4 DEF LastFor
<1>6. Asking(todo).todo = todo /\ Asking(todo).rows = <<>>  BY <1>1, AskingType
<1>7. Begins(<<>>, Head(todo))  BY <1>3 DEF Begins
<1>8. QED  BY <1>1, <1>2, <1>5, <1>6, <1>7 DEF Fits, AtOf, todo

(* The reader of the fallback, with every hash to do by itself. *)
LEMMA FitsSingles ==
    LET todo == [h \in 1 .. NHashes |-> <<h>>]
    IN  /\ \A k : Fits(Asking(todo), "blockfrost", k)
        /\ AtOf(Asking(todo)) = 1
<1> DEFINE todo == [h \in 1 .. NHashes |-> <<h>>]
<1>1. NHashes \in Nat \ {0}  BY FetchAssumption
<1>2. \A h \in 1 .. NHashes : <<h>> \in Seq(1 .. NHashes) /\ Len(<<h>>) = 1 /\ <<h>>[1] = h
  BY Single
<1>3. todo \in [1 .. NHashes -> Seq(1 .. NHashes)] /\ \A h \in 1 .. NHashes : todo[h] = <<h>>
  BY <1>2
<1> HIDE DEF todo
<1>4. todo \in Seq(Seq(1 .. NHashes)) /\ Len(todo) = NHashes  BY <1>1, <1>3, FunctionIsSeq
<1>5. todo # <<>> /\ Head(todo) = <<1>>
  <2>1. todo # <<>>  BY <1>1, <1>4
  <2>2. Head(todo) = todo[1]  BY <1>4, <2>1, NonEmpty
  <2>3. QED  BY <1>1, <1>3, <2>1, <2>2
<1>6. ASSUME NEW i \in 1 .. Len(todo)
      PROVE  /\ Run(todo[i]) /\ todo[i][1] + Len(todo[i]) <= NHashes + 1
             /\ todo[i][1] + Len(todo[i]) = IF i = Len(todo) THEN NHashes + 1 ELSE todo[i + 1][1]
             /\ Len(todo[i]) = 1
  <2>1. i \in 1 .. NHashes /\ i \in Int  BY <1>1, <1>4
  <2>2. todo[i][1] = i /\ Len(todo[i]) = 1  BY <1>2, <1>3, <2>1
  <2>3. Run(todo[i])  BY <2>1, <2>2 DEF Run
  <2>4. i # Len(todo) => todo[i + 1][1] = i + 1
    <3>1. i # Len(todo) => i + 1 \in 1 .. NHashes  BY <1>1, <1>4, <2>1
    <3>2. QED  BY <1>2, <1>3, <3>1
  <2>5. QED  BY <1>1, <1>4, <2>1, <2>2, <2>3, <2>4
<1>7. Tiles(todo, NHashes)  BY <1>6 DEF Tiles
<1>8. LastFor(todo, "blockfrost") = NHashes  BY DEF LastFor
<1>9. Asking(todo).todo = todo /\ Asking(todo).rows = <<>>  BY <1>4, AskingType
<1>10. Begins(<<>>, <<1>>)  BY DEF Begins
<1>11. \A k : Fits(Asking(todo), "blockfrost", k)
  BY <1>5, <1>6, <1>7, <1>8, <1>9, <1>10 DEF Fits
<1>12. AtOf(Asking(todo)) = 1  BY <1>5, <1>9 DEF AtOf
<1>13. QED  BY <1>11, <1>12 DEF todo
-----------------------------------------------------------------------------
(* Where the readers stand, and what a step makes of it. *)
LEMMA PosStep ==
    ASSUME FetchTypeOK, PiecesFit, stage \in Providers
    PROVE  /\ Pos \in Places
           /\ \A r \in Readers : \A rd : Becomes(r, rd) => Pos' = [Pos EXCEPT ![r] = AtOf(rd)]
<1>1. Pos \in Places
  <2>1. ASSUME NEW r \in Readers PROVE AtOf(reader[r]) \in 0 .. NHashes
    <3>1. NHashes \in Nat  BY FetchAssumption
    <3>2. CASE reader[r].todo = <<>>  BY <3>1, <3>2 DEF AtOf
    <3>3. CASE reader[r].todo # <<>>
      <4>1. AtOf(reader[r]) = Piece(r)[1] /\ Piece(r)[1] \in 1 .. NHashes
        BY <3>3, FitsPiece DEF PiecesFit
      <4>2. QED  BY <3>1, <4>1
    <3>4. QED  BY <3>2, <3>3
  <2>2. QED  BY <2>1 DEF Pos, Places
<1>2. ASSUME NEW r \in Readers, NEW rd, Becomes(r, rd) PROVE Pos' = [Pos EXCEPT ![r] = AtOf(rd)]
  <2>1. reader \in [Readers -> ReaderType] /\ reader' = [reader EXCEPT ![r] = rd]
    BY <1>2 DEF FetchTypeOK, Becomes
  <2>2. Pos' = [s \in Readers |-> AtOf(reader'[s])]  BY DEF Pos, AtOf
  <2>3. \A s \in Readers : AtOf(reader'[s]) = IF s = r THEN AtOf(rd) ELSE AtOf(reader[s])
    <3>1. \A s \in Readers : reader'[s] = IF s = r THEN rd ELSE reader[s]  BY <2>1
    <3>2. QED  BY <3>1
  <2>4. QED  BY <2>2, <2>3 DEF Pos
<1>3. QED  BY <1>1, <1>2

(* Every step of a reader leaves pieces and rows that fit. *)
LEMMA PiecesStep ==
    ASSUME FInv, PiecesFit, stage \in Providers, NEW r \in Readers, ReaderKind(r),
           UNCHANGED <<kind, stage>>
    PROVE  PiecesFit'
<1>1. FetchTypeOK /\ Fits(reader[r], stage, kind)  BY DEF FInv, PiecesFit
<1>2. SUFFICES \E rd \in ReaderType : Becomes(r, rd) /\ Fits(rd, stage, kind)
  <2>1. PICK rd \in ReaderType : Becomes(r, rd) /\ Fits(rd, stage, kind)  BY <1>2
  <2>2. \A s \in Readers : reader'[s] = IF s = r THEN rd ELSE reader[s]
    BY <1>1, <2>1 DEF Becomes, FetchTypeOK
  <2>3. \A s \in Readers : Fits(reader'[s], stage, kind)  BY <2>1, <2>2 DEF PiecesFit
  <2>4. PiecesFit' <=> \A s \in Readers : Fits(reader'[s], stage', kind')
    BY DEF PiecesFit, Fits, Tiles, LastFor
  <2>5. QED  BY <2>3, <2>4
<1>3. ASSUME Stays(r) PROVE \E rd \in ReaderType : Becomes(r, rd) /\ Fits(rd, stage, kind)
  <2>1. PICK rd \in ReaderType : /\ Becomes(r, rd) /\ rd.todo = reader[r].todo /\ rd.todo # <<>>
                                 /\ rd.rows \in {<<>>, reader[r].rows}
    BY <1>3 DEF Stays
  <2>2. QED  BY <1>1, <2>1, FitsSame
<1>4. ASSUME Halves(r) PROVE \E rd \in ReaderType : Becomes(r, rd) /\ Fits(rd, stage, kind)
  BY <1>1, <1>4, FitsHalved DEF Halves, Becomes
<1>5. ASSUME GivesUp(r) PROVE \E rd \in ReaderType : Becomes(r, rd) /\ Fits(rd, stage, kind)
  <2>1. Off.todo = <<>>  BY DEF Off
  <2>2. QED  BY <1>5, <2>1, FitsEmpty DEF GivesUp, Becomes
<1>6. ASSUME Pages(r) PROVE \E rd \in ReaderType : Becomes(r, rd) /\ Fits(rd, stage, kind)
  <2>1. PICK rd \in ReaderType :
            /\ Becomes(r, rd) /\ rd.todo = reader[r].todo /\ rd.todo # <<>>
            /\ \/ rd.rows = reader[r].rows
               \/ Paced /\ stage = "koios" /\ rd.rows = reader[r].rows \o PageOf(r)
    BY <1>6 DEF Pages
  <2>2. QED  BY <1>1, <2>1, FitsSame
<1>7. ASSUME NEW rest, After(r, rest),
             rest # <<>> => \A rd \in ReaderType :
                                rd.todo = rest /\ rd.rows = <<>> => Fits(rd, stage, kind)
      PROVE  \E rd \in ReaderType : Becomes(r, rd) /\ Fits(rd, stage, kind)
  <2>1. CASE GoesOn(r, rest)
    <3>1. PICK rd \in ReaderType : Becomes(r, rd) /\ rd.todo = rest /\ rd.rows = <<>>
      BY <2>1 DEF GoesOn
    <3>2. Fits(rd, stage, kind)  BY <1>7, <3>1, FitsEmpty
    <3>3. QED  BY <3>1, <3>2
  <2>2. CASE TakesNext(r)
    <3>1. stage = "koios" /\ next \in 1 .. BatchCount /\ Becomes(r, Asking(<<Batch(next)>>))
      BY <2>2 DEF TakesNext
    <3>2. Fits(Asking(<<Batch(next)>>), stage, kind)  BY <3>1, FitsBatch
    <3>3. QED  BY <3>1, <3>2 DEF Becomes
  <2>3. CASE Rests(r)
    <3>1. Off.todo = <<>>  BY DEF Off
    <3>2. QED  BY <2>3, <3>1, FitsEmpty DEF Rests, Becomes
  <2>4. QED  BY <1>5, <1>7, <2>1, <2>2, <2>3 DEF After
<1>8. ASSUME Finishes(r) PROVE \E rd \in ReaderType : Becomes(r, rd) /\ Fits(rd, stage, kind)
  <2>1. reader[r].todo # <<>> /\ After(r, Tail(reader[r].todo))  BY <1>8 DEF Finishes
  <2>2. Tail(reader[r].todo) # <<>> =>
          \A rd \in ReaderType : rd.todo = Tail(reader[r].todo) /\ rd.rows = <<>>
                                    => Fits(rd, stage, kind)
    BY <1>1, <2>1, FitsPiece
  <2>3. QED  BY <1>7, <2>1, <2>2
<1>9. ASSUME After(r, <<>>) PROVE \E rd \in ReaderType : Becomes(r, rd) /\ Fits(rd, stage, kind)
  BY <1>7, <1>9
<1>10. QED  BY <1>3, <1>4, <1>5, <1>6, <1>8, <1>9 DEF ReaderKind

-----------------------------------------------------------------------------
(* The batches read from Koios after a step. *)
LEMMA KoiosAfter ==
    ASSUME FInv, PiecesFit, stage = "koios", NEW r \in Readers, NEW rest, After(r, rest),
           NEW done, NEW pos \in Places,
           pos = [Pos EXCEPT ![r] = IF rest # <<>> THEN Head(rest)[1] ELSE 0],
           Covered(pos, next, failure # NoError, done)
    PROVE  Covered(Pos', next', failure' # NoError, done)
<1>1. FetchTypeOK /\ next \in Nat /\ stage \in Providers  BY DEF FInv, FetchTypeOK, Providers
<1>2. Pos \in Places /\ \A rd : Becomes(r, rd) => Pos' = [Pos EXCEPT ![r] = AtOf(rd)]
  BY <1>1, PosStep
<1>3. AtOf(Off) = 0  BY DEF AtOf, Off
<1>4. ASSUME Becomes(r, Off) PROVE Pos' = [pos EXCEPT ![r] = 0]
  BY <1>2, <1>3, <1>4 DEF Places
<1>5. CASE GivesUp(r) /\ next' \in {next, next + 1}
  <2>1. Pos' = [pos EXCEPT ![r] = 0] /\ failure' # NoError  BY <1>4, <1>5 DEF GivesUp
  <2> DEFINE nxt2 == next'  err == failure # NoError
  <2>2. nxt2 \in {next, next + 1} /\ Covered(pos, next, err, done)  BY <1>5
  <2> HIDE DEF nxt2, err
  <2>3. Covered([pos EXCEPT ![r] = 0], nxt2, TRUE, done)
    <3>1. \A fresh \in Places : Covered(fresh, next, err, done)
                              => Covered([fresh EXCEPT ![r] = 0], nxt2, TRUE, done)
      BY <1>1, <2>2, LeavesBatch
    <3>2. QED  BY <2>2, <3>1
  <2>4. QED  BY <2>1, <2>3 DEF nxt2
<1>6. CASE GoesOn(r, rest)
  <2>1. PICK rd \in ReaderType : Becomes(r, rd) /\ rd.todo = rest  BY <1>6 DEF GoesOn
  <2>2. Pos' = pos  BY <1>2, <2>1 DEF AtOf
  <2>3. QED  BY <1>6, <2>2 DEF GoesOn
<1>7. CASE rest = <<>> /\ TakesNext(r)
  <2>1. next \in 1 .. BatchCount /\ next' = next + 1 /\ failure' = failure
        /\ Becomes(r, Asking(<<Batch(next)>>))
    BY <1>7 DEF TakesNext
  <2>2. AtOf(Asking(<<Batch(next)>>)) = FirstOf(next)  BY <2>1, FitsBatch
  <2>3. Pos' = [Pos EXCEPT ![r] = FirstOf(next)]  BY <1>2, <2>1, <2>2
  <2>4. pos[r] = 0 /\ [Pos EXCEPT ![r] = FirstOf(next)] = [pos EXCEPT ![r] = FirstOf(next)]
    BY <1>2, <1>7 DEF Places
  <2>5. Covered([pos EXCEPT ![r] = FirstOf(next)], next + 1, failure # NoError, done)
    BY <2>1, <2>4, TakesBatch
  <2>6. QED  BY <2>1, <2>3, <2>4, <2>5
<1>8. CASE rest = <<>> /\ Rests(r)
  <2>1. Pos' = pos  BY <1>2, <1>3, <1>8 DEF Rests
  <2>2. QED  BY <1>8, <2>1 DEF Rests
<1>9. QED  BY <1>5, <1>6, <1>7, <1>8 DEF After

(* The first reader rests only when a failure is captured or no batch is   *)
(* left.                                                                   *)
LEMMA KoiosOff ==
    ASSUME FInv, stage = "koios", NEW r \in Readers, ReaderKind(r),
           failure = NoError /\ reader[1].at = "off" => next > BatchCount
    PROVE  failure' = NoError /\ reader'[1].at = "off" => next' > BatchCount
<1>1. /\ reader \in [Readers -> ReaderType] /\ next \in Nat /\ BatchCount \in Nat /\ 1 \in Readers
  <2>1. PoolSize \in Nat \ {0} /\ BatchCount \in Nat \ {0}  BY FetchAssumption, BatchCountType
  <2>2. QED  BY <2>1 DEF FInv, FetchTypeOK, Readers, MaxOf
<1>2. SUFFICES ASSUME failure' = NoError, reader'[1].at = "off" PROVE next' > BatchCount  OBVIOUS
<1>3. ASSUME NEW rd, Becomes(r, rd), failure' = failure, next' \in {next, next + 1},
             rd.at = "off" => next > BatchCount
      PROVE  next' > BatchCount
  <2>1. reader'[1] = IF r = 1 THEN rd ELSE reader[1]  BY <1>1, <1>3 DEF Becomes
  <2>2. next > BatchCount
    <3>1. CASE r = 1  BY <1>2, <1>3, <2>1, <3>1
    <3>2. CASE r # 1  BY <1>2, <1>3, <2>1, <3>2
    <3>3. QED  BY <3>1, <3>2
  <2>3. QED  BY <1>1, <1>3, <2>2
<1>4. ~GivesUp(r)  BY <1>2 DEF GivesUp
<1>5. CASE Stays(r) /\ next' = next  BY <1>3, <1>5 DEF Stays
<1>6. CASE Halves(r) /\ next' = next
  <2>1. Becomes(r, Asking(Halved(r))) /\ failure' = failure  BY <1>6 DEF Halves
  <2>2. Asking(Halved(r)).at = "admit"  BY DEF Asking, Off
  <2>3. QED  BY <1>3, <1>6, <2>1, <2>2
<1>7. CASE Pages(r)  BY <1>3, <1>7 DEF Pages
<1>8. ASSUME NEW rest, After(r, rest) PROVE next' > BatchCount
  <2>1. CASE GoesOn(r, rest)  BY <1>3, <2>1 DEF GoesOn
  <2>2. CASE TakesNext(r)
    <3>1. Becomes(r, Asking(<<Batch(next)>>)) /\ failure' = failure /\ next' = next + 1
      BY <2>2 DEF TakesNext
    <3>2. Asking(<<Batch(next)>>).at = "admit"  BY DEF Asking, Off
    <3>3. QED  BY <1>3, <3>1, <3>2
  <2>3. CASE Rests(r)
    <3>1. Becomes(r, Off) /\ failure' = failure /\ next' = next /\ next > BatchCount
      BY <1>2, <2>3 DEF Rests
    <3>2. QED  BY <3>1
  <2>4. QED  BY <1>4, <1>8, <2>1, <2>2, <2>3 DEF After
<1>9. QED  BY <1>4, <1>5, <1>6, <1>7, <1>8 DEF ReaderKind, Finishes

(***************************************************************************)
(* The readers' steps on the batches: rows only when a piece is finished,  *)
(* and then those of the piece, after the rows of the hashes before it.    *)
(***************************************************************************)
LEMMA FinishRead ==
    ASSUME FInv, PiecesFit, stage \in Providers, NEW r \in Readers, Finishes(r),
           NEW done \in [1 .. BatchCount -> Nat], Read(done, results, absent),
           done[BatchOf(Piece(r)[1])] = Piece(r)[1]
    PROVE  Read([done EXCEPT ![BatchOf(Piece(r)[1])] = Piece(r)[1] + Len(Piece(r))],
                results', absent')
<1>1. FetchTypeOK /\ reader[r].todo # <<>> /\ Fits(reader[r], stage, kind)
  BY DEF FInv, PiecesFit, Finishes
<1> DEFINE piece == Piece(r)  b == BatchOf(piece[1])  end == piece[1] + Len(piece)
<1>2. /\ Run(piece) /\ piece[1] \in 1 .. NHashes
      /\ Len(piece) \in Nat \ {0} /\ b \in 1 .. BatchCount /\ Begins(reader[r].rows, piece)
      /\ ~(Paced /\ stage = "koios") => reader[r].rows = <<>>
      /\ end <= LastOf(b) + 1
  BY <1>1, FitsPiece
<1>3. PICK page \in {PageOf(r), <<>>} :
        /\ Paced /\ stage = "koios" => Len(page) # PageRows
        /\ absent' = IF page = PageOf(r) THEN absent
                     ELSE absent \union {piece[i] : i \in Len(reader[r].rows) + 1 .. Len(piece)}
        /\ results' = [results EXCEPT ![b] = @ \o (reader[r].rows \o page)]
  BY DEF Finishes
<1> DEFINE s == reader[r].rows \o page
           lost == IF page = PageOf(r) THEN {}
                   ELSE {piece[i] : i \in Len(reader[r].rows) + 1 .. Len(piece)}
<1>4. /\ s \in Seq(1 .. NHashes) /\ Ascending(s)
      /\ \A h \in 1 .. NHashes : h \in lost => piece[1] <= h /\ h < end
      /\ \A h \in 1 .. NHashes : h \in HashesOf(s) <=> (piece[1] <= h /\ h < end /\ h \notin lost)
  BY <1>1, <1>2, <1>3, PieceDone
<1>5. absent' = absent \union lost /\ results' = [results EXCEPT ![b] = @ \o s]  BY <1>3
<1>6. end \in Nat /\ piece[1] <= end /\ done[b] = piece[1]  BY <1>2, FetchAssumption
<1> HIDE DEF s, lost, end, b, piece
<1>7. results \in [1 .. BatchCount -> Seq(1 .. NHashes)]  BY <1>1 DEF FetchTypeOK
<1>8. Read([done EXCEPT ![b] = end], [results EXCEPT ![b] = @ \o s], absent \union lost)
  BY <1>2, <1>4, <1>6, <1>7, ReadOn
<1>9. QED  BY <1>5, <1>8 DEF end, b, piece

(* The end of a piece: its batch is read on, and its reader goes on, takes *)
(* a batch or leaves.                                                      *)
LEMMA KoiosFinish ==
    ASSUME FInv, PiecesFit, stage = "koios", NEW r \in Readers, Finishes(r),
           NEW done \in [1 .. BatchCount -> Nat], Covered(Pos, next, failure # NoError, done)
    PROVE  /\ done[BatchOf(Piece(r)[1])] = Piece(r)[1]
           /\ Covered(Pos', next', failure' # NoError,
                      [done EXCEPT ![BatchOf(Piece(r)[1])] = Piece(r)[1] + Len(Piece(r))])
<1>1. FetchTypeOK /\ reader[r].todo # <<>> /\ Fits(reader[r], stage, kind) /\ stage \in Providers
      /\ next \in Nat
  BY DEF FInv, PiecesFit, Finishes, Providers, FetchTypeOK
<1> DEFINE piece == Piece(r)  b == BatchOf(piece[1])  end == piece[1] + Len(piece)
           rest == Tail(reader[r].todo)  err == failure # NoError
           to == IF rest # <<>> THEN Head(rest)[1] ELSE 0  pos == [Pos EXCEPT ![r] = to]
           done2 == [done EXCEPT ![b] = end]
<1>2. /\ piece[1] \in 1 .. NHashes /\ b \in 1 .. BatchCount /\ AtOf(reader[r]) = piece[1]
      /\ rest = <<>> => end = LastFor(reader[r].todo, stage) + 1
      /\ rest # <<>> => /\ Head(rest)[1] = end /\ Head(rest)[1] \in 1 .. NHashes
                        /\ BatchOf(Head(rest)[1]) = b
  BY <1>1, FitsPiece
<1>3. LastFor(reader[r].todo, stage) = LastOf(b)  BY <1>1 DEF LastFor, Piece
<1>4. Pos \in Places  BY <1>1, PosStep
<1>5. Pos[r] = piece[1] /\ piece[1] # 0  BY <1>2, FetchAssumption DEF Pos
<1>6. done[b] = piece[1]  BY <1>5 DEF Covered
<1>7. err \in BOOLEAN /\ Covered(Pos, next, err, done)  OBVIOUS
<1>8. Covered(pos, next, err, done2)
  <2> HIDE DEF err, piece, rest, b, end
  <2>1. CASE rest = <<>>
    <3>1. end = LastOf(b) + 1 /\ to = 0  BY <1>2, <1>3, <2>1
    <3>2. b = BatchOf(Pos[r]) /\ Pos[r] # 0  BY <1>5 DEF b
    <3>3. Covered([Pos EXCEPT ![r] = 0], next, err, [done EXCEPT ![b] = LastOf(b) + 1])
      BY <1>1, <1>2, <1>4, <1>7, <3>2, HasReadBatch
    <3>4. QED  BY <3>1, <3>3
  <2>2. CASE rest # <<>>
    <3>1. to = end /\ end \in 1 .. NHashes /\ BatchOf(end) = b  BY <1>2, <2>2
    <3>2. b = BatchOf(Pos[r]) /\ Pos[r] # 0  BY <1>5 DEF b
    <3>3. Covered([Pos EXCEPT ![r] = end], next, err, [done EXCEPT ![BatchOf(Pos[r])] = end])
      BY <1>1, <1>4, <1>7, <3>1, <3>2, GoesOnInBatch
    <3>4. QED  BY <3>1, <3>2, <3>3
  <2>3. QED  BY <2>1, <2>2
<1>9. pos \in Places
  <2>1. to \in 0 .. NHashes
    <3> HIDE DEF rest
    <3>1. NHashes \in Nat  BY FetchAssumption
    <3>2. QED  BY <1>2, <3>1
  <2> HIDE DEF to
  <2>2. QED  BY <1>4, <2>1 DEF Places
<1>10. After(r, rest)  BY DEF Finishes
<1> HIDE DEF rest, done2
<1>11. Covered(Pos', next', failure' # NoError, done2)  BY <1>8, <1>9, <1>10, KoiosAfter
<1>12. QED  BY <1>6, <1>11 DEF done2

(* Every step of a reader with Koios leaves each batch read as far as some *)
(* done says.                                                              *)
LEMMA KoiosStep ==
    ASSUME FInv, PiecesFit, stage = "koios", NEW r \in Readers, ReaderKind(r),
           NEW done \in [1 .. BatchCount -> Nat], Read(done, results, absent),
           Covered(Pos, next, failure # NoError, done)
    PROVE  \E done2 \in [1 .. BatchCount -> Nat] :
               Read(done2, results', absent') /\ Covered(Pos', next', failure' # NoError, done2)
<1>1. FetchTypeOK /\ Fits(reader[r], stage, kind) /\ stage \in Providers /\ next \in Nat
  BY DEF FInv, PiecesFit, Providers, FetchTypeOK
<1>2. Pos \in Places /\ \A rd : Becomes(r, rd) => Pos' = [Pos EXCEPT ![r] = AtOf(rd)]
  BY <1>1, PosStep
<1>3. Pos[r] = AtOf(reader[r])  BY DEF Pos
<1>4. ASSUME NEW rd, Becomes(r, rd), AtOf(rd) = AtOf(reader[r]), failure' = failure,
             UNCHANGED <<next, results, absent>>
      PROVE  Read(done, results', absent') /\ Covered(Pos', next', failure' # NoError, done)
  <2>1. Pos' = Pos  BY <1>2, <1>3, <1>4 DEF Places
  <2>2. QED  BY <1>4, <2>1
<1>5. CASE Stays(r) /\ UNCHANGED <<next, results, absent>>
  <2>1. PICK rd \in ReaderType : Becomes(r, rd) /\ rd.todo = reader[r].todo  BY <1>5 DEF Stays
  <2>2. AtOf(rd) = AtOf(reader[r]) /\ failure' = failure  BY <1>5, <2>1 DEF AtOf, Stays
  <2>3. QED  BY <1>4, <1>5, <2>1, <2>2
<1>6. CASE Halves(r) /\ UNCHANGED <<next, results, absent>>
  BY <1>1, <1>4, <1>6, FitsHalved DEF Halves
<1>7. CASE GivesUp(r) /\ UNCHANGED <<next, results, absent>>
  <2> DEFINE pos == [Pos EXCEPT ![r] = 0]  err == failure # NoError
  <2>1. Pos' = pos /\ failure' # NoError
    <3>1. AtOf(Off) = 0  BY DEF AtOf, Off
    <3>2. QED  BY <1>2, <1>7, <3>1 DEF GivesUp
  <2>2. Covered(Pos, next, err, done) /\ next \in {next, next + 1}  OBVIOUS
  <2> HIDE DEF err
  <2>3. Covered(pos, next, TRUE, done)  BY <1>1, <1>2, <2>2, LeavesBatch
  <2>4. QED  BY <1>7, <2>1, <2>3
<1>8. CASE Pages(r)
  <2>1. PICK rd \in ReaderType : Becomes(r, rd) /\ rd.todo = reader[r].todo  BY <1>8 DEF Pages
  <2>2. AtOf(rd) = AtOf(reader[r]) /\ failure' = failure /\ UNCHANGED <<next, results, absent>>
    BY <1>8, <2>1 DEF AtOf, Pages
  <2>3. QED  BY <1>4, <2>1, <2>2
<1>9. CASE Finishes(r)
  <2> DEFINE b == BatchOf(Piece(r)[1])  end == Piece(r)[1] + Len(Piece(r))
             done2 == [done EXCEPT ![b] = end]
  <2>1. /\ done[b] = Piece(r)[1] /\ Covered(Pos', next', failure' # NoError, done2)
    BY <1>9, KoiosFinish
  <2>2. Read(done2, results', absent')  BY <1>1, <1>9, <2>1, FinishRead
  <2>3. end \in Nat
    <3>1. reader[r].todo # <<>>  BY <1>9 DEF Finishes
    <3>2. Piece(r)[1] \in 1 .. NHashes /\ Len(Piece(r)) \in Nat  BY <1>1, <3>1, FitsPiece
    <3>3. QED  BY <3>2, FetchAssumption
  <2> HIDE DEF b, end
  <2>4. done2 \in [1 .. BatchCount -> Nat]  BY <2>3
  <2>5. QED  BY <2>1, <2>2, <2>4
<1>10. CASE reader[r].todo = <<>> /\ After(r, <<>>) /\ UNCHANGED <<results, absent>>
  <2>1. Pos = [Pos EXCEPT ![r] = 0]  BY <1>2, <1>3, <1>10 DEF AtOf, Places
  <2> DEFINE rest == <<>>
  <2>2. Pos = [Pos EXCEPT ![r] = IF rest # <<>> THEN Head(rest)[1] ELSE 0]  BY <2>1
  <2>3. After(r, rest)  BY <1>10
  <2> HIDE DEF rest
  <2>4. Covered(Pos', next', failure' # NoError, done)  BY <1>2, <2>2, <2>3, KoiosAfter
  <2>5. QED  BY <1>10, <2>4
<1>11. QED  BY <1>4, <1>5, <1>6, <1>7, <1>8, <1>9, <1>10 DEF ReaderKind

(* The batches read from Blockfrost after a step. *)
LEMMA FallbackAfter ==
    ASSUME FInv, stage = "blockfrost", NEW r \in Readers, NEW rest, After(r, rest)
    PROVE  \E rd \in ReaderType :
              /\ Becomes(r, rd)
              /\ failure' = NoError => failure = NoError
              /\ \/ AtOf(rd) = IF rest # <<>> THEN Head(rest)[1] ELSE 0
                 \/ AtOf(rd) = 0 /\ failure' # NoError
<1>1. AtOf(Off) = 0 /\ Off \in ReaderType  BY OffType DEF AtOf, Off
<1>2. CASE GivesUp(r)  BY <1>1, <1>2 DEF GivesUp
<1>3. CASE GoesOn(r, rest)
  <2>1. PICK rd \in ReaderType : Becomes(r, rd) /\ rd.todo = rest  BY <1>3 DEF GoesOn
  <2>2. QED  BY <1>3, <2>1 DEF AtOf, GoesOn
<1>4. ~TakesNext(r)  BY DEF TakesNext
<1>5. CASE rest = <<>> /\ Rests(r)  BY <1>1, <1>5 DEF Rests
<1>6. QED  BY <1>2, <1>3, <1>4, <1>5 DEF After

(* Every step of the reader with Blockfrost leaves the hashes before some  *)
(* p read.                                                                 *)
LEMMA FallbackStep ==
    ASSUME FInv, PiecesFit, stage = "blockfrost", NEW r \in Readers, ReaderKind(r),
           reader[r].at # "off",
           NEW done \in [1 .. BatchCount -> Nat], Read(done, results, absent), FallbackRows(done)
    PROVE  \E done2 \in [1 .. BatchCount -> Nat] :
               Read(done2, results', absent') /\ FallbackRows(done2)'
<1>1. FetchTypeOK /\ Fits(reader[r], stage, kind) /\ stage \in Providers
  BY DEF FInv, PiecesFit, Providers
<1>2. r = 1  BY DEF FallbackRows, Off
<1>3. PICK p \in 1 .. NHashes + 1 :
          /\ done = Swept(p)
          /\ AtOf(reader[1]) # 0 => p = AtOf(reader[1])
          /\ AtOf(reader[1]) = 0 /\ failure = NoError => p = NHashes + 1
  BY DEF FallbackRows
<1>4. ASSUME NEW rd \in ReaderType, Becomes(r, rd), NEW done2, NEW p2 \in 1 .. NHashes + 1,
             done2 = Swept(p2), AtOf(rd) # 0 => p2 = AtOf(rd),
             AtOf(rd) = 0 /\ failure' = NoError => p2 = NHashes + 1
      PROVE  FallbackRows(done2)'
  <2>1. \A s \in Readers : reader'[s] = IF s = r THEN rd ELSE reader[s]
    BY <1>1, <1>4 DEF Becomes, FetchTypeOK
  <2>2. reader'[1] = rd /\ \A s \in Readers : s # 1 => reader'[s] = Off
    BY <1>2, <2>1 DEF FallbackRows
  <2>3. AtOf(reader[1])' = AtOf(rd)  BY <2>2 DEF AtOf
  <2>4. FallbackRows(done2)' <=>
          /\ \A s \in Readers : s # 1 => reader'[s] = Off
          /\ \E to \in 1 .. NHashes + 1 :
                /\ done2 = Swept(to)
                /\ AtOf(reader[1])' # 0 => to = AtOf(reader[1])'
                /\ AtOf(reader[1])' = 0 /\ failure' = NoError => to = NHashes + 1
    BY DEF FallbackRows, Off, Swept, FirstOf, LastOf, NoError, Error
  <2>5. QED  BY <1>4, <2>2, <2>3, <2>4
<1>5. ASSUME NEW rd \in ReaderType, Becomes(r, rd),
             AtOf(rd) = AtOf(reader[r]) \/ (AtOf(rd) = 0 /\ failure' # NoError),
             failure' = NoError => failure = NoError,
             UNCHANGED <<results, absent>>
      PROVE  Read(done, results', absent') /\ FallbackRows(done)'
  <2>1. AtOf(rd) # 0 => p = AtOf(rd)  BY <1>2, <1>3, <1>5
  <2>2. AtOf(rd) = 0 /\ failure' = NoError => p = NHashes + 1  BY <1>2, <1>3, <1>5
  <2>3. FallbackRows(done)'  BY <1>3, <1>4, <1>5, <2>1, <2>2
  <2>4. QED  BY <1>5, <2>3
<1>6. CASE Stays(r) /\ UNCHANGED <<next, results, absent>>
  <2>1. PICK rd \in ReaderType : Becomes(r, rd) /\ rd.todo = reader[r].todo  BY <1>6 DEF Stays
  <2>2. AtOf(rd) = AtOf(reader[r]) /\ failure' = failure  BY <1>6, <2>1 DEF AtOf, Stays
  <2>3. QED  BY <1>5, <1>6, <2>1, <2>2
<1>7. ~Halves(r)  BY DEF Halves
<1>8. CASE GivesUp(r) /\ UNCHANGED <<next, results, absent>>
  <2>1. AtOf(Off) = 0 /\ Off \in ReaderType  BY OffType DEF AtOf, Off
  <2>2. QED  BY <1>5, <1>8, <2>1 DEF GivesUp
<1>9. CASE Pages(r)
  <2>1. PICK rd \in ReaderType : Becomes(r, rd) /\ rd.todo = reader[r].todo  BY <1>9 DEF Pages
  <2>2. AtOf(rd) = AtOf(reader[r]) /\ failure' = failure /\ UNCHANGED <<results, absent>>
    BY <1>9, <2>1 DEF AtOf, Pages
  <2>3. QED  BY <1>5, <2>1, <2>2
<1>10. CASE Finishes(r)
  <2> DEFINE h == Piece(r)[1]  b == BatchOf(h)  done2 == [done EXCEPT ![b] = h + 1]
             rest == Tail(reader[r].todo)
  <2>1. reader[r].todo # <<>> /\ After(r, rest)  BY <1>10 DEF Finishes
  <2>2. /\ h \in 1 .. NHashes /\ AtOf(reader[r]) = h /\ Len(Piece(r)) = 1
        /\ rest = <<>> => h + Len(Piece(r)) = LastFor(reader[r].todo, stage) + 1
        /\ rest # <<>> => Head(rest)[1] = h + Len(Piece(r))
    BY <1>1, <2>1, FitsPiece
  <2>3. NHashes \in Nat /\ LastFor(reader[r].todo, stage) = NHashes
    BY FetchAssumption DEF LastFor
  <2>4. p = h /\ h # 0 /\ h + 1 \in 1 .. NHashes + 1 /\ h + 1 # 0  BY <1>2, <1>3, <2>2, <2>3
  <2>5. done[b] = h /\ Swept(h + 1) = done2 /\ done2 \in [1 .. BatchCount -> Nat]
    <3>1. done = Swept(h)  BY <1>3, <2>4
    <3>2. Swept(h)[b] = h /\ Swept(h + 1) = [Swept(h) EXCEPT ![b] = h + 1]  BY <2>2, SweptStep
    <3>3. h + 1 \in Nat  BY <2>2, <2>3
    <3> HIDE DEF b, h
    <3>4. QED  BY <3>1, <3>2, <3>3
  <2>6. Read([done EXCEPT ![b] = h + Len(Piece(r))], results', absent')
    BY <1>1, <1>10, <2>5, FinishRead
  <2>7. Read(done2, results', absent')  BY <2>2, <2>6
  <2>8. PICK rd \in ReaderType :
          /\ Becomes(r, rd)
          /\ \/ AtOf(rd) = IF rest # <<>> THEN Head(rest)[1] ELSE 0
             \/ AtOf(rd) = 0 /\ failure' # NoError
    BY <2>1, FallbackAfter
  <2> HIDE DEF h, b, done2, rest
  <2>9. AtOf(rd) # 0 => h + 1 = AtOf(rd)  BY <2>2, <2>8
  <2>10. AtOf(rd) = 0 /\ failure' = NoError => h + 1 = NHashes + 1
    <3>1. SUFFICES ASSUME AtOf(rd) = 0, failure' = NoError PROVE h + 1 = NHashes + 1  OBVIOUS
    <3>2. rest = <<>>  BY <2>2, <2>4, <2>8, <3>1
    <3>3. QED  BY <2>2, <2>3, <3>2
  <2>11. PICK d \in [1 .. BatchCount -> Nat], to \in 1 .. NHashes + 1 : d = done2 /\ to = h + 1
    BY <2>4, <2>5
  <2>12. FallbackRows(d)'  BY <1>4, <2>5, <2>8, <2>9, <2>10, <2>11
  <2>13. QED  BY <2>7, <2>11, <2>12
<1>11. CASE reader[r].todo = <<>> /\ After(r, <<>>) /\ UNCHANGED <<results, absent>>
  <2> DEFINE rest == <<>>
  <2>1. After(r, rest) /\ rest = <<>>  BY <1>11
  <2> HIDE DEF rest
  <2>2. PICK rd \in ReaderType :
          /\ Becomes(r, rd)
          /\ failure' = NoError => failure = NoError
          /\ \/ AtOf(rd) = IF rest # <<>> THEN Head(rest)[1] ELSE 0
             \/ AtOf(rd) = 0 /\ failure' # NoError
    BY <2>1, FallbackAfter
  <2>3. AtOf(reader[r]) = 0 /\ AtOf(rd) = 0  BY <1>11, <2>1, <2>2 DEF AtOf
  <2>4. QED  BY <1>5, <1>11, <2>2, <2>3
<1>12. QED  BY <1>6, <1>7, <1>8, <1>9, <1>10, <1>11 DEF ReaderKind

-----------------------------------------------------------------------------
(* The rows are right at the start, and every step keeps them so. *)
LEMMA NothingRead ==
    LET none == [b \in 1 .. BatchCount |-> <<>>]
        first == [b \in 1 .. BatchCount |-> FirstOf(b)]
    IN  first \in [1 .. BatchCount -> Nat] /\ Read(first, none, {})
<1> DEFINE none == [b \in 1 .. BatchCount |-> <<>>]
           first == [b \in 1 .. BatchCount |-> FirstOf(b)]
<1>1. ASSUME NEW b \in 1 .. BatchCount
      PROVE  /\ first[b] \in Nat /\ FirstOf(b) <= first[b] /\ first[b] <= LastOf(b) + 1
             /\ HasRows(none[b], FirstOf(b), first[b], {})
  <2>1. FirstOf(b) \in 1 .. NHashes /\ LastOf(b) \in FirstOf(b) .. NHashes /\ NHashes \in Nat
    BY BatchBounds, FetchAssumption
  <2>2. first[b] = FirstOf(b) /\ none[b] = <<>>  OBVIOUS
  <2> HIDE DEF first, none
  <2>3. Ascending(<<>>) /\ HashesOf(<<>>) = {}  BY DEF Ascending, HashesOf
  <2>4. HasRows(<<>>, FirstOf(b), FirstOf(b), {})
    <3>1. \A h \in 1 .. NHashes : ~(FirstOf(b) <= h /\ h < FirstOf(b))  BY <2>1
    <3>2. QED  BY <2>3, <3>1 DEF HasRows
  <2>5. QED  BY <2>1, <2>2, <2>4
<1>2. first \in [1 .. BatchCount -> Nat]
  <2>1. \A b \in 1 .. BatchCount : FirstOf(b) \in Nat  BY BatchBounds, FetchAssumption
  <2>2. QED  BY <2>1
<1> HIDE DEF first, none
<1>3. Read(first, none, {})  BY <1>1 DEF Read
<1>4. QED  BY <1>2, <1>3 DEF first, none

(* The rows when the read begins: none. *)
LEMMA InitRows == Init => RowsInv
<1>1. SUFFICES ASSUME Init PROVE RowsInv  OBVIOUS
<1> DEFINE k == Concurrency(kind)
<1>2. BatchCount \in Nat \ {0} /\ PoolSize \in Nat \ {0}  BY BatchCountType, FetchAssumption
<1>3. k \in 1 .. BatchCount  BY <1>1, ConcurrencyType DEF Init
<1>4. Readers = 1 .. MaxOf(PoolSize, BatchCount) /\ 1 \in Readers
  BY <1>2 DEF Readers, MaxOf
<1>5. /\ stage = "koios" /\ next = k + 1 /\ failure = NoError /\ absent = {}
      /\ results = [b \in 1 .. BatchCount |-> <<>>]
      /\ reader = [r \in Readers |-> IF r <= k THEN Asking(<<Batch(r)>>) ELSE Off]
  BY <1>1 DEF Init
<1> HIDE DEF k
<1>6. \A r \in Readers : r <= k => r \in 1 .. BatchCount  BY <1>2, <1>3, <1>4
<1>7. AtOf(Off) = 0 /\ Off \in ReaderType /\ Off.todo = <<>>  BY OffType DEF AtOf, Off
<1>8. PiecesFit
  <2>1. ASSUME NEW r \in Readers PROVE Fits(reader[r], stage, kind)
    <3>1. CASE r <= k  BY <1>5, <1>6, <3>1, FitsBatch
    <3>2. CASE ~(r <= k)  BY <1>5, <1>7, <3>2, FitsEmpty
    <3>3. QED  BY <3>1, <3>2
  <2>2. QED  BY <2>1 DEF PiecesFit
<1>9. \A r \in Readers : IF r <= k THEN Pos[r] = FirstOf(r) /\ BatchOf(Pos[r]) = r ELSE Pos[r] = 0
  <2>1. SUFFICES ASSUME NEW r \in Readers
                 PROVE  IF r <= k THEN Pos[r] = FirstOf(r) /\ BatchOf(Pos[r]) = r ELSE Pos[r] = 0
    OBVIOUS
  <2>2. Pos[r] = AtOf(reader[r])  BY DEF Pos
  <2>3. CASE r <= k
    <3>1. r \in 1 .. BatchCount /\ reader[r] = Asking(<<Batch(r)>>)  BY <1>5, <1>6, <2>3
    <3>2. Pos[r] = FirstOf(r)  BY <2>2, <3>1, FitsBatch
    <3>3. FirstOf(r) \in 1 .. NHashes /\ LastOf(r) \in FirstOf(r) .. NHashes /\ NHashes \in Nat
      BY <3>1, BatchBounds, FetchAssumption
    <3>4. BatchOf(FirstOf(r)) = r  BY <3>1, <3>3, BatchOfHash
    <3>5. QED  BY <2>3, <3>2, <3>4
  <2>4. CASE ~(r <= k)  BY <1>5, <1>7, <2>2, <2>4
  <2>5. QED  BY <2>3, <2>4
<1> DEFINE first == [b \in 1 .. BatchCount |-> FirstOf(b)]
<1>10. first \in [1 .. BatchCount -> Nat] /\ Read(first, results, absent)  BY <1>5, NothingRead
<1>11. \A b \in 1 .. BatchCount : first[b] = FirstOf(b)  OBVIOUS
<1> HIDE DEF first
<1>12. \A r \in Readers : Pos[r] # 0 => BatchOf(Pos[r]) < next /\ first[BatchOf(Pos[r])] = Pos[r]
  <2>1. SUFFICES ASSUME NEW r \in Readers, Pos[r] # 0
                 PROVE  BatchOf(Pos[r]) < next /\ first[BatchOf(Pos[r])] = Pos[r]
    OBVIOUS
  <2>2. r <= k /\ BatchOf(Pos[r]) = r /\ Pos[r] = FirstOf(r)  BY <1>9, <2>1
  <2>3. r \in 1 .. BatchCount  BY <1>6, <2>2
  <2>4. r < next  BY <1>2, <1>3, <1>5, <2>2, <2>3
  <2>5. QED  BY <1>11, <2>2, <2>3, <2>4
<1>13. \A r, s \in Readers : Pos[r] # 0 /\ Pos[s] # 0 /\ r # s => BatchOf(Pos[r]) # BatchOf(Pos[s])
  BY <1>9
<1>14. \A b \in 1 .. BatchCount : b < next => \E r \in Readers : Pos[r] # 0 /\ BatchOf(Pos[r]) = b
  <2>1. SUFFICES ASSUME NEW b \in 1 .. BatchCount, b < next
                 PROVE  Pos[b] # 0 /\ BatchOf(Pos[b]) = b /\ b \in Readers
    OBVIOUS
  <2>2. b \in Readers /\ b <= k  BY <1>2, <1>3, <1>4, <1>5, <2>1 DEF MaxOf
  <2>3. Pos[b] = FirstOf(b) /\ BatchOf(Pos[b]) = b  BY <1>9, <2>2
  <2>4. FirstOf(b) # 0  BY BatchBounds, FetchAssumption
  <2>5. QED  BY <2>2, <2>3, <2>4
<1>15. Covered(Pos, next, failure # NoError, first)  BY <1>11, <1>12, <1>13, <1>14 DEF Covered
<1>16. reader[1].at # "off"
  <2>1. reader[1] = Asking(<<Batch(1)>>)  BY <1>2, <1>3, <1>4, <1>5
  <2>2. QED  BY <2>1 DEF Asking, Off
<1>17. KoiosRows(first)  BY <1>15, <1>16 DEF KoiosRows
<1>18. RowsRead  BY <1>5, <1>10, <1>17 DEF RowsRead
<1>19. QED  BY <1>5, <1>8, <1>18 DEF RowsInv, Delivered

(* When every reader is off and none failed, every batch is complete. *)
LEMMA DrainedRows ==
    ASSUME FInv, stage \in Providers, RowsRead, \A r \in Readers : reader[r].at = "off",
           failure = NoError
    PROVE  \A b \in 1 .. BatchCount : HasRows(results[b], FirstOf(b), LastOf(b) + 1, absent)
<1>1. \A r \in Readers : reader[r] = Off /\ AtOf(reader[r]) = 0
  BY DEF FInv, Settled, AtOf, Off
<1>2. PICK done \in [1 .. BatchCount -> Nat] :
          /\ Read(done, results, absent)
          /\ stage = "koios" => KoiosRows(done)
          /\ stage = "blockfrost" => FallbackRows(done)
  BY DEF RowsRead
<1>3. 1 \in Readers /\ BatchCount \in Nat /\ next \in Nat
  <2>1. PoolSize \in Nat \ {0} /\ BatchCount \in Nat \ {0}  BY FetchAssumption, BatchCountType
  <2>2. QED  BY <2>1 DEF FInv, FetchTypeOK, Readers, MaxOf
<1>4. \A b \in 1 .. BatchCount : done[b] = LastOf(b) + 1
  <2>1. CASE stage = "koios"
    <3>1. Covered(Pos, next, failure # NoError, done) /\ next > BatchCount
      BY <1>1, <1>2, <1>3, <2>1 DEF KoiosRows
    <3>2. \A r \in Readers : Pos[r] = 0  BY <1>1 DEF Pos
    <3>3. \A b \in 1 .. BatchCount : b < next  BY <1>3, <3>1
    <3>4. QED  BY <3>1, <3>2, <3>3 DEF Covered
  <2>2. CASE stage = "blockfrost"
    <3>1. done = Swept(NHashes + 1)  BY <1>1, <1>2, <1>3, <2>2 DEF FallbackRows
    <3>2. QED  BY <3>1, SweptStart
  <2>3. QED  BY <2>1, <2>2 DEF Providers
<1>5. QED  BY <1>2, <1>4 DEF Read

(* Every step keeps the invariant of the rows. *)
LEMMA NextRows == FInv /\ RowsInv /\ [Next]_vars => RowsInv'
<1>1. SUFFICES ASSUME FInv, RowsInv, [Next]_vars PROVE RowsInv'  OBVIOUS
<1>2. ASSUME NEW r \in Readers, ReaderStep(r) PROVE RowsInv'
  <2>1. ReaderKind(r) /\ stage \in Providers /\ UNCHANGED <<kind, stage, now>>
    BY <1>1, <1>2, ReaderKinds
  <2>2. reader[r].at # "off"
    BY <1>2 DEF ReaderStep, Admit, Headers, Broken, Refused, Answered, Wake
  <2>3. PiecesFit /\ RowsRead  BY <1>1, <2>1 DEF RowsInv
  <2>4. PiecesFit'  BY <1>1, <2>1, <2>3, PiecesStep
  <2>5. PICK done \in [1 .. BatchCount -> Nat] :
            /\ Read(done, results, absent)
            /\ stage = "koios" => KoiosRows(done)
            /\ stage = "blockfrost" => FallbackRows(done)
    BY <2>3 DEF RowsRead
  <2>6. RowsRead' <=> \E d \in [1 .. BatchCount -> Nat] :
                         /\ Read(d, results', absent')
                         /\ stage' = "koios" => KoiosRows(d)'
                         /\ stage' = "blockfrost" => FallbackRows(d)'
    BY DEF RowsRead, Read, HasRows, Ascending, HashesOf
  <2>7. CASE stage = "koios"
    <3>1. PICK d \in [1 .. BatchCount -> Nat] :
              Read(d, results', absent') /\ Covered(Pos', next', failure' # NoError, d)
      BY <1>1, <2>1, <2>3, <2>5, <2>7, KoiosStep DEF KoiosRows
    <3>2. failure' = NoError /\ reader'[1].at = "off" => next' > BatchCount
      BY <1>1, <2>1, <2>5, <2>7, KoiosOff DEF KoiosRows
    <3>3. KoiosRows(d)' <=> /\ Covered(Pos', next', failure' # NoError, d)
                            /\ failure' = NoError /\ reader'[1].at = "off" => next' > BatchCount
      BY DEF KoiosRows, Covered, NoError, Error
    <3>4. KoiosRows(d)'  BY <3>1, <3>2, <3>3
    <3>5. RowsRead'  BY <2>1, <2>6, <2>7, <3>1, <3>4
    <3>6. QED  BY <2>1, <2>4, <2>7, <3>5 DEF RowsInv, Delivered
  <2>8. CASE stage = "blockfrost"
    <3>1. PICK d \in [1 .. BatchCount -> Nat] :
              Read(d, results', absent') /\ FallbackRows(d)'
      BY <1>1, <2>1, <2>2, <2>3, <2>5, <2>8, FallbackStep
    <3>2. RowsRead'  BY <2>1, <2>6, <2>8, <3>1
    <3>3. QED  BY <2>1, <2>4, <2>8, <3>2 DEF RowsInv, Delivered
  <2>9. QED  BY <2>1, <2>7, <2>8 DEF Providers
<1>3. ASSUME Return PROVE RowsInv'
  <2>1. /\ stage \in Providers /\ failure = NoError /\ \A r \in Readers : reader[r].at = "off"
        /\ stage' = "ok" /\ UNCHANGED <<results, absent>>
    BY <1>3 DEF Return, Drained, Running
  <2>2. \A b \in 1 .. BatchCount : HasRows(results[b], FirstOf(b), LastOf(b) + 1, absent)
    BY <1>1, <2>1, DrainedRows DEF RowsInv
  <2>3. Delivered' <=> (stage' = "ok" => \A b \in 1 .. BatchCount :
                           HasRows(results'[b], FirstOf(b), LastOf(b) + 1, absent'))
    BY DEF Delivered, HasRows, Ascending, HashesOf
  <2>4. Delivered'  BY <2>1, <2>2, <2>3
  <2>5. stage' \notin Providers  BY <2>1 DEF Providers
  <2>6. QED  BY <2>4, <2>5 DEF RowsInv
<1>4. ASSUME Fail PROVE RowsInv'
  <2>1. stage' = "failed"  BY <1>4 DEF Fail
  <2>2. QED  BY <2>1 DEF RowsInv, Delivered, Providers
<1>5. ASSUME FallBack PROVE RowsInv'
  <2> DEFINE todo == [h \in 1 .. NHashes |-> <<h>>]
             first == [b \in 1 .. BatchCount |-> FirstOf(b)]
  <2>1. /\ stage' = "blockfrost" /\ failure' = NoError /\ kind' = kind /\ absent' = {}
        /\ results' = [b \in 1 .. BatchCount |-> <<>>]
        /\ reader' = [reader EXCEPT ![1] = Asking(todo)]
        /\ \A r \in Readers : reader[r].at = "off"
    BY <1>5 DEF FallBack, Drained
  <2>2. \A r \in Readers : reader[r] = Off  BY <1>1, <2>1 DEF FInv, Settled
  <2>3. /\ \A k : Fits(Asking(todo), "blockfrost", k)
        /\ AtOf(Asking(todo)) = 1
    BY FitsSingles
  <2>4. first \in [1 .. BatchCount -> Nat] /\ Read(first, results', absent') /\ first = Swept(1)
    BY <2>1, NothingRead, SweptStart
  <2> HIDE DEF todo, first
  <2>5. 1 \in Readers /\ reader \in [Readers -> ReaderType]
    <3>1. PoolSize \in Nat \ {0} /\ BatchCount \in Nat \ {0}  BY FetchAssumption, BatchCountType
    <3>2. QED  BY <1>1, <3>1 DEF FInv, FetchTypeOK, Readers, MaxOf
  <2>6. reader'[1] = Asking(todo) /\ \A r \in Readers : r # 1 => reader'[r] = Off
    BY <2>1, <2>2, <2>5
  <2>7. \A r \in Readers : Fits(reader'[r], "blockfrost", kind)
    <3>1. Off \in ReaderType /\ Off.todo = <<>>  BY OffType DEF Off
    <3>2. QED  BY <2>3, <2>6, <3>1, FitsEmpty
  <2>8. PiecesFit'
    <3>1. PiecesFit' <=> \A r \in Readers : Fits(reader'[r], stage', kind')
      BY DEF PiecesFit, Fits, Tiles, LastFor
    <3>2. QED  BY <2>1, <2>7, <3>1
  <2>9. PICK d \in [1 .. BatchCount -> Nat] : d = first  BY <2>4
  <2>10. FallbackRows(d)'
    <3>1. AtOf(reader[1])' = 1  BY <2>3, <2>6 DEF AtOf
    <3>2. FallbackRows(d)' <=>
            /\ \A s \in Readers : s # 1 => reader'[s] = Off
            /\ \E to \in 1 .. NHashes + 1 :
                  /\ d = Swept(to)
                  /\ AtOf(reader[1])' # 0 => to = AtOf(reader[1])'
                  /\ AtOf(reader[1])' = 0 /\ failure' = NoError => to = NHashes + 1
      BY DEF FallbackRows, Off, Swept, FirstOf, LastOf, NoError, Error
    <3>3. 1 \in 1 .. NHashes + 1  BY FetchAssumption
    <3>4. QED  BY <2>4, <2>6, <2>9, <3>1, <3>2, <3>3
  <2>11. RowsRead'
    <3>1. RowsRead' <=> \E c \in [1 .. BatchCount -> Nat] :
                           /\ Read(c, results', absent')
                           /\ stage' = "koios" => KoiosRows(c)'
                           /\ stage' = "blockfrost" => FallbackRows(c)'
      BY DEF RowsRead, Read, HasRows, Ascending, HashesOf
    <3>2. QED  BY <2>1, <2>4, <2>9, <2>10, <3>1
  <2>12. QED  BY <2>1, <2>8, <2>11 DEF RowsInv, Delivered
<1>6. ASSUME UNCHANGED <<kind, stage, reader, next, failure, results, absent>> PROVE RowsInv'
  BY <1>1, <1>6 DEF RowsInv, PiecesFit, RowsRead, Delivered, KoiosRows, FallbackRows, Pos, Covered
<1>7. CASE Tick  BY <1>6, <1>7 DEF Tick
<1>8. CASE Ended \/ UNCHANGED vars  BY <1>6, <1>8 DEF Ended, vars
<1>9. QED  BY <1>1, <1>2, <1>3, <1>4, <1>5, <1>7, <1>8 DEF Next

(***************************************************************************)
(* How far every batch is read and by whom, for every number of hashes,    *)
(* batch size, pool, page size and interleaving: the inductive invariant   *)
(* behind the rows a read returns.                                         *)
(***************************************************************************)
THEOREM RowsInvariant == Spec => []RowsInv
<1>1. Init => RowsInv  BY InitRows
<1>2. FInv /\ RowsInv /\ [Next]_vars => RowsInv'  BY NextRows
<1>3. QED  BY <1>1, <1>2, FetchInvariant, PTL DEF Spec

(***************************************************************************)
(* A read that returns has the rows of every hash of every batch, in order *)
(* and once each, but for those a provider said it does not have: after    *)
(* any retries, splits, pages and a fallback.                              *)
(***************************************************************************)
THEOREM AllRowsReturned == Spec => []ReturnsAllRows
<1>1. FInv /\ RowsInv => ReturnsAllRows
  <2>1. SUFFICES ASSUME FInv, RowsInv, stage = "ok", NEW b \in 1 .. BatchCount
                 PROVE  /\ HashesOf(results[b]) = HashesOf(Batch(b)) \ absent
                        /\ Ascending(results[b])
    BY DEF ReturnsAllRows
  <2>2. HasRows(results[b], FirstOf(b), LastOf(b) + 1, absent)  BY <2>1 DEF RowsInv, Delivered
  <2>3. results[b] \in Seq(1 .. NHashes)  BY <2>1 DEF FInv, FetchTypeOK
  <2>4. HashesOf(results[b]) \subseteq 1 .. NHashes
    <3>1. \A i \in 1 .. Len(results[b]) : results[b][i] \in 1 .. NHashes  BY <2>3, ElementOfSeq
    <3>2. DOMAIN results[b] = 1 .. Len(results[b])  BY <2>3
    <3>3. QED  BY <3>1, <3>2 DEF HashesOf
  <2>5. \A h \in 1 .. NHashes :
          h \in HashesOf(Batch(b)) <=> (FirstOf(b) <= h /\ h < LastOf(b) + 1)
    <3>1. /\ Batch(b) \in Seq(1 .. NHashes) /\ Len(Batch(b)) = LastOf(b) - FirstOf(b) + 1
          /\ \A i \in 1 .. Len(Batch(b)) : Batch(b)[i] = FirstOf(b) + i - 1
      BY BatchHashes
    <3>2. FirstOf(b) \in 1 .. NHashes /\ LastOf(b) \in FirstOf(b) .. NHashes /\ NHashes \in Nat
      BY BatchBounds, FetchAssumption
    <3>3. Len(Batch(b)) \in Nat \ {0} /\ Batch(b)[1] = FirstOf(b)  BY <3>1, <3>2
    <3>4. Run(Batch(b)) /\ Begins(Batch(b), Batch(b))  BY <3>1, <3>3 DEF Run, Begins
    <3>5. \A h : h \in HashesOf(Batch(b)) <=> h \in Batch(b)[1] .. Batch(b)[1] + Len(Batch(b)) - 1
      BY <3>1, <3>4, PieceRows
    <3> DEFINE n == Len(Batch(b))  hashes == HashesOf(Batch(b))
    <3>6. /\ \A h : h \in hashes <=> h \in FirstOf(b) .. FirstOf(b) + n - 1
          /\ n = LastOf(b) - FirstOf(b) + 1
      BY <3>1, <3>3, <3>5
    <3> HIDE DEF n, hashes
    <3>7. FirstOf(b) + n - 1 = LastOf(b)  BY <3>2, <3>6
    <3>8. \A h \in 1 .. NHashes : h \in FirstOf(b) .. LastOf(b) <=> (FirstOf(b) <= h /\ h < LastOf(b) + 1)
      BY <3>2
    <3>9. QED  BY <3>6, <3>7, <3>8 DEF hashes
  <2>6. HashesOf(Batch(b)) \subseteq 1 .. NHashes
    <3>1. Batch(b) \in Seq(1 .. NHashes)  BY BatchHashes
    <3>2. \A i \in 1 .. Len(Batch(b)) : Batch(b)[i] \in 1 .. NHashes  BY <3>1, ElementOfSeq
    <3>3. DOMAIN Batch(b) = 1 .. Len(Batch(b))  BY <3>1
    <3>4. QED  BY <3>2, <3>3 DEF HashesOf
  <2>7. \A h \in 1 .. NHashes : h \in HashesOf(results[b]) <=> h \in HashesOf(Batch(b)) \ absent
    BY <2>2, <2>5 DEF HasRows
  <2>8. HashesOf(results[b]) = HashesOf(Batch(b)) \ absent  BY <2>4, <2>6, <2>7
  <2>9. QED  BY <2>2, <2>8 DEF HasRows
<1>2. QED  BY <1>1, FetchInvariant, RowsInvariant, PTL

-----------------------------------------------------------------------------
(***************************************************************************)
(* Orders.                                                                 *)
(***************************************************************************)
(* A set of numbers has a least one. *)
LEMMA LeastOf ==
  ASSUME NEW S, S \subseteq Nat, S # {}
  PROVE  \E x \in S : \A y \in S : x <= y
<1> DEFINE R == OpToRel(<, Nat)
<1>1. IsWellFoundedOn(R, Nat)  BY NatLessThanWellFounded
<1>2. PICK x \in S : \A y \in S : ~(<<y, x>> \in R)
  <2> HIDE DEF R
  <2> QED  BY <1>1, WFMin
<1>3. \A y \in S : ~(y < x)  BY <1>2 DEF OpToRel
<1> QED  BY <1>3

(* An order of the members of a set, no two of them level. *)
Total(S, R) ==
    /\ \A x, y \in S : x = y \/ <<x, y>> \in R \/ <<y, x>> \in R
    /\ \A x \in S : <<x, x>> \notin R
    /\ \A x, y, z \in S : <<x, y>> \in R /\ <<y, z>> \in R => <<x, z>> \in R
Below(S, R, x) == {y \in S : <<y, x>> \in R}

(* The further up, the more below. *)
LEMMA Higher ==
  ASSUME NEW S, IsFiniteSet(S), NEW R, Total(S, R), NEW x \in S
  PROVE  /\ Cardinality(Below(S, R, x)) \in 0 .. Cardinality(S) - 1
         /\ \A y \in S : <<x, y>> \in R => Cardinality(Below(S, R, x)) < Cardinality(Below(S, R, y))
<1>1. \A y \in S : IsFiniteSet(Below(S, R, y)) /\ Cardinality(Below(S, R, y)) \in Nat
  <2> SUFFICES ASSUME NEW y \in S PROVE IsFiniteSet(Below(S, R, y)) /\ Cardinality(Below(S, R, y)) \in Nat
    OBVIOUS
  <2>1. Below(S, R, y) \in SUBSET S  BY DEF Below
  <2> QED  BY <2>1, FS_Subset, FS_CardinalityType
<1>2. Cardinality(S) \in Nat  BY FS_CardinalityType
<1>3. Cardinality(Below(S, R, x)) < Cardinality(S)
  <2>1. Below(S, R, x) \in SUBSET S /\ x \notin Below(S, R, x)  BY DEF Below, Total
  <2>2. Cardinality(Below(S, R, x)) <= Cardinality(S) /\ Cardinality(S) # Cardinality(Below(S, R, x))
    BY <2>1, FS_Subset
  <2> QED  BY <1>1, <1>2, <2>2
<1>4. ASSUME NEW y \in S, <<x, y>> \in R PROVE Cardinality(Below(S, R, x)) < Cardinality(Below(S, R, y))
  <2>1. Below(S, R, x) \in SUBSET Below(S, R, y)  BY <1>4 DEF Below, Total
  <2>2. x \in Below(S, R, y) /\ x \notin Below(S, R, x)  BY <1>4 DEF Below, Total
  <2>3. Cardinality(Below(S, R, x)) <= Cardinality(Below(S, R, y))
        /\ Cardinality(Below(S, R, y)) # Cardinality(Below(S, R, x))
    BY <1>1, <2>1, <2>2, FS_Subset
  <2> QED  BY <1>1, <2>3
<1> QED  BY <1>1, <1>2, <1>3, <1>4

(* What Ordered gives, and that a member's place tells how many are below. *)
LEMMA OrderedIs ==
  ASSUME NEW S, IsFiniteSet(S), NEW R, Total(S, R)
  PROVE  LET s == Ordered(S, R) IN
         /\ s \in [1 .. Cardinality(S) -> S]
         /\ \A i, j \in DOMAIN s : i < j => <<s[i], s[j]>> \in R
         /\ \A x \in S : \E i \in DOMAIN s : s[i] = x
         /\ \A i \in DOMAIN s : Cardinality(Below(S, R, s[i])) = i - 1
<1> DEFINE n == Cardinality(S)
           place == [x \in S |-> Cardinality(Below(S, R, x)) + 1]
           IsOrdered(s) == s \in [1 .. n -> S] /\ \A i, j \in DOMAIN s : i < j => <<s[i], s[j]>> \in R
<1>1. n \in Nat  BY FS_CardinalityType
<1>2. place \in [S -> 1 .. n] /\ \A x, y \in S : <<x, y>> \in R => place[x] < place[y]
  <2>1. \A x \in S : Cardinality(Below(S, R, x)) \in 0 .. n - 1  BY Higher
  <2>2. \A x, y \in S : <<x, y>> \in R => Cardinality(Below(S, R, x)) < Cardinality(Below(S, R, y))
    BY Higher
  <2> QED  BY <1>1, <2>1, <2>2
<1>3. IsFiniteSet(1 .. n) /\ Cardinality(1 .. n) = n  BY <1>1, FS_Interval
<1> HIDE DEF place
<1>4. place \in Surjection(S, 1 .. n)
  <2>1. \A x, y \in S : place[x] = place[y] => x = y
    <3> SUFFICES ASSUME NEW x \in S, NEW y \in S, place[x] = place[y], x # y PROVE FALSE  OBVIOUS
    <3>1. <<x, y>> \in R \/ <<y, x>> \in R  BY DEF Total
    <3>2. place[x] < place[y] \/ place[y] < place[x]  BY <1>2, <3>1
    <3>3. place[x] \in 1 .. n /\ place[y] \in 1 .. n  BY <1>2
    <3> QED  BY <1>1, <3>2, <3>3
  <2>2. place \in Injection(S, 1 .. n)  BY <1>2, <2>1 DEF Injection, IsInjective
  <2> QED  BY <1>3, <2>2, FS_Injection
<1>5. \A i \in 1 .. n : \E x \in S : place[x] = i  BY <1>4 DEF Surjection
<1>6. \E s : IsOrdered(s)
  <2> DEFINE s == [i \in 1 .. n |-> CHOOSE x \in S : place[x] = i]
  <2>1. \A i \in 1 .. n : s[i] \in S /\ place[s[i]] = i  BY <1>5
  <2>2. s \in [1 .. n -> S]  BY <2>1
  <2>3. ASSUME NEW i \in 1 .. n, NEW j \in 1 .. n, i < j PROVE <<s[i], s[j]>> \in R
    <3> HIDE DEF s
    <3>1. s[i] \in S /\ s[j] \in S /\ place[s[i]] < place[s[j]] /\ ~(place[s[j]] < place[s[i]]) /\ s[i] # s[j]
      BY <1>1, <2>1, <2>3
    <3>2. ~(<<s[j], s[i]>> \in R)  BY <1>2, <3>1
    <3> QED  BY <3>1, <3>2 DEF Total
  <2> HIDE DEF s
  <2>4. IsOrdered(s)  BY <2>2, <2>3
  <2> QED  BY <2>4
<1> DEFINE s == Ordered(S, R)
<1>7. IsOrdered(s)
  <2>1. s = CHOOSE t \in [1 .. n -> S] : \A i, j \in DOMAIN t : i < j => <<t[i], t[j]>> \in R
    BY DEF Ordered
  <2> HIDE DEF s
  <2> QED  BY <1>6, <2>1
<1> HIDE DEF s
<1>8. s \in Injection(1 .. n, S)
  <2> SUFFICES ASSUME NEW i \in 1 .. n, NEW j \in 1 .. n, s[i] = s[j], i # j PROVE FALSE
    BY <1>7 DEF Injection, IsInjective
  <2>1. i < j \/ j < i  BY <1>1
  <2>2. <<s[i], s[j]>> \in R \/ <<s[j], s[i]>> \in R  BY <1>7, <2>1
  <2>3. s[i] \in S  BY <1>7
  <2> QED  BY <2>2, <2>3 DEF Total
<1>9. s \in Surjection(1 .. n, S)  BY <1>3, <1>8, FS_Injection
<1>10. \A x \in S : \E i \in 1 .. n : s[i] = x  BY <1>9 DEF Surjection
<1>11. ASSUME NEW i \in 1 .. n PROVE Cardinality(Below(S, R, s[i])) = i - 1
  <2> DEFINE t == [j \in 1 .. i - 1 |-> s[j]]
  <2>1. \A j \in 1 .. i - 1 : j \in 1 .. n /\ s[j] \in Below(S, R, s[i])
    BY <1>1, <1>7 DEF Below
  <2>2. ASSUME NEW x \in Below(S, R, s[i]) PROVE \E j \in 1 .. i - 1 : s[j] = x
    <3>1. x \in S /\ <<x, s[i]>> \in R  BY <2>2 DEF Below
    <3>2. PICK j \in 1 .. n : s[j] = x  BY <1>10, <3>1
    <3>3. j # i  BY <1>7, <3>1, <3>2 DEF Total
    <3>4. ~(i < j)
      <4> SUFFICES ASSUME i < j PROVE FALSE  OBVIOUS
      <4>1. <<s[i], x>> \in R /\ s[i] \in S  BY <1>7, <3>2
      <4>2. <<x, x>> \in R  BY <3>1, <4>1 DEF Total
      <4> QED  BY <3>1, <4>2 DEF Total
    <3>5. j \in 1 .. i - 1  BY <1>1, <3>3, <3>4
    <3> QED  BY <3>2, <3>5
  <2>3. \A j, k \in 1 .. i - 1 : s[j] = s[k] => j = k
    BY <1>1, <1>8, <2>1 DEF Injection, IsInjective
  <2>4. t \in Bijection(1 .. i - 1, Below(S, R, s[i]))
    <3>1. t \in [1 .. i - 1 -> Below(S, R, s[i])]  BY <2>1
    <3>2. \A j \in 1 .. i - 1 : t[j] = s[j]  OBVIOUS
    <3> HIDE DEF t
    <3> QED  BY <2>2, <2>3, <3>1, <3>2 DEF Bijection, Injection, IsInjective, Surjection
  <2>5. IsFiniteSet(1 .. i - 1) /\ Cardinality(1 .. i - 1) = i - 1
    <3>1. i - 1 \in Int /\ 1 \in Int /\ i >= 1  BY <1>1
    <3>2. Cardinality(1 .. i - 1) = (IF 1 > i - 1 THEN 0 ELSE (i - 1) - 1 + 1) /\ IsFiniteSet(1 .. i - 1)
      BY <3>1, FS_Interval
    <3> QED  BY <3>1, <3>2
  <2> HIDE DEF t
  <2>6. ExistsBijection(1 .. i - 1, Below(S, R, s[i]))  BY <2>4 DEF ExistsBijection
  <2> QED  BY <2>5, <2>6, FS_Bijection
<1> QED  BY <1>7, <1>10, <1>11 DEF s

-----------------------------------------------------------------------------
(***************************************************************************)
(* The store.  An index has of a handle what it is, or nothing; nobody     *)
(* writes a handle under a rebuild; and what a handle was since the        *)
(* request came is remembered.                                             *)
(***************************************************************************)
StoreTypes ==
    /\ truth \in Handles /\ index \in [Indexes -> Handles]
    /\ seen \in [Name -> SUBSET (Record \union {None})]
    /\ rebuild \in {"none", "wipe", "write", "failed"} /\ firstSlot \in FirstSlots
Mirrors ==
    /\ \A n \in Name : truth[n] \in seen[n]
    /\ \A i \in Indexes, n \in Name : index[i][n] \in {None, truth[n]}
    /\ rebuild = "none" => Whole
StoreInv == StoreTypes /\ Mirrors

(* Since the request came the handle was in the wallet, or at such a slot. *)
WasIn(n, w) == n \in Name /\ \E r \in seen[n] : r # None /\ r.wallet = w
WasAtSlot(n) == \E r \in seen[n] : r # None /\ (IF q.sort = "asc" THEN r.slot >= q.slot
                                                ELSE r.slot <= q.slot)

(***************************************************************************)
(* The request.  Where a call is over, what it read has only handles its   *)
(* term was true of; the names taken are asked for; and every record,      *)
(* default and member read was one of its wallet since the request came.   *)
(***************************************************************************)
Stages == [search |-> DOMAIN Turn \union {"range", "chosen", "sets", "prefer", "status", "done"},
           handle |-> {"begin", "records", "sets", "chosen", "prefer", "status", "done"},
           holder |-> {"begin", "members", "chosen", "first", "prefer", "status", "done"},
           holders |-> {"begin", "page", "chosen", "scores", "heads", "sets", "firsts",
                        "prefer", "status", "done"}]
Listing == {"list", "length", "wallet", "keys", "hexes", "total", "names", "bounds"}
Answering == {"chosen", "sets", "prefer", "status", "done"}
StageTypes ==
    /\ q \in Request /\ f \in Frame /\ pc \in Stages[q.kind]
    /\ pc = "begin" => f = Fresh
    /\ pc \in Listing \union {"page"} => f.names = <<>>
    /\ pc \in Listing => Needed(pc)
    /\ pc = "range" => q.slot # NoSlot

Terms == {"list", "length", "wallet", "hexes"}
TrueOf(c, n) ==
    CASE c = "list" -> WasIn(n, q.by)
      [] c = "length" -> Length[n] = q.length
      [] c = "wallet" -> WasIn(n, q.wallet)
      [] c = "hexes" -> n \in InText[q.term] \union InHex[q.term]
Over(c) == pc = "range" \/ (pc \in DOMAIN Turn /\ Turn[pc] > Turn[c])
TermsRead ==
    q.kind = "search" => \A c \in Terms : Needed(c) /\ Over(c) =>
        \E i \in DOMAIN f.read : \A n \in f.read[i] : n = None \/ TrueOf(c, n)

Asked(n) ==
    /\ n \in Name
    /\ \A c \in Terms : Needed(c) => TrueOf(c, n)
    /\ q.slot # NoSlot => WasAtSlot(n)
Taken == pc = "range" \/ pc \in Answering \/ (pc = "records" /\ (Unfiltered \/ q.slot # NoSlot))
NamesAsked ==
    /\ q.kind = "search" /\ Taken => \A i \in DOMAIN f.names : Asked(f.names[i])
    /\ pc = "range" => IF q.sort = "asc" THEN f.from >= q.slot ELSE f.from <= q.slot \/ f.from < 0

(* The record is one of a handle that was in the wallet. *)
Member(r, w) == \E n \in Name : WasIn(n, w) /\ r \in seen[n]

RecordsRead ==
    /\ q.kind = "handle" /\ pc # "begin" => \A i \in DOMAIN f.names : f.names[i] \in Name
    /\ q.kind \in {"search", "handle"} /\ pc \in Answering =>
          \A i \in DOMAIN f.recs : i \in DOMAIN f.names /\ f.recs[i] \in seen[f.names[i]] \union {None}
    /\ q.kind = "holder" /\ pc \in {"prefer", "status", "done"} =>
          \A i \in DOMAIN f.recs : i \in DOMAIN f.names /\ f.names[i] = None
                                 /\ (f.recs[i] # None => Member(f.recs[i], q.wallet))
    /\ q.kind = "holders" =>
          /\ pc \in Stages["holders"] \ {"prefer", "status", "done"} => f.recs = <<>>
          /\ \A i \in DOMAIN f.names : i \in DOMAIN f.page /\ (f.names[i] # None => WasIn(f.names[i], f.page[i]))
          /\ \A i \in DOMAIN f.recs : i \in DOMAIN f.names /\ (f.recs[i] # None => f.names[i] # None
                                                              /\ f.recs[i] \in seen[f.names[i]])

WalletsRead == \A w \in Wallet :
    /\ f.best[w] # None => WasIn(f.best[w], w)
    /\ \A n \in f.sets[w] : WasIn(n, w)

QueryInv == StoreInv /\ StageTypes /\ TermsRead /\ NamesAsked /\ RecordsRead /\ WalletsRead

-----------------------------------------------------------------------------
(* What the assumption says, in the form it is used in. *)
LEMMA Givens ==
  /\ Name \subseteq Nat /\ IsFiniteSet(Name) /\ Wallet \subseteq Nat /\ IsFiniteSet(Wallet)
  /\ None \notin Name /\ None \notin Wallet /\ None \notin Record /\ NoSlot \notin Int
  /\ MaxSlot \in Nat /\ Span \in Nat \ {0} /\ PerPage \in Nat \ {0} /\ Slots \subseteq Nat
  /\ \A r \in Record : r.wallet \in Wallet /\ r.slot \in Nat
BY QueriesAssumption DEF Record, Slots

(* The names and wallets of some property are finitely many. *)
LEMMA Finite ==
  /\ \A S : S \subseteq Name \/ S \subseteq Wallet => IsFiniteSet(S) /\ Cardinality(S) \in Nat
  /\ \A i \in Indexes : IsFiniteSet(Present(i)) /\ Cardinality(Present(i)) \in Nat
  /\ \A w : InWallet(w) \subseteq Name /\ IsFiniteSet(InWallet(w)) /\ Cardinality(InWallet(w)) \in Nat
  /\ Matching \subseteq Name /\ Cardinality(Matching) \in Nat
<1>1. \A S : S \subseteq Name \/ S \subseteq Wallet => IsFiniteSet(S) /\ Cardinality(S) \in Nat
  BY Givens, FS_Subset, FS_CardinalityType
<1>2. /\ \A i : Present(i) \subseteq Name
      /\ \A w : InWallet(w) \subseteq Name
      /\ Matching \subseteq Name
  BY DEF Present, InWallet, Matching
<1> QED  BY <1>1, <1>2

(* An index that has a handle has it as it was since the request came. *)
LEMMA Mirrored ==
  ASSUME StoreInv, NEW i \in Indexes, NEW n \in Present(i)
  PROVE  index[i][n] \in Record /\ index[i][n] \in seen[n] /\ index[i][n] # None /\ n \in Name
BY Givens DEF StoreInv, StoreTypes, Mirrors, Present, Handles

(* The wallet index names a holder the handle has had. *)
LEMMA HeldThen ==
  ASSUME StoreInv, NEW w, NEW n \in InWallet(w)
  PROVE  WasIn(n, w)
<1>1. n \in Present("wallet") /\ index["wallet"][n].wallet = w  BY DEF InWallet
<1> QED  BY <1>1, Mirrored DEF WasIn, Indexes

-----------------------------------------------------------------------------
(* Lists and pages. *)
LEMMA PageHas ==
  ASSUME NEW T, NEW s \in Seq(T), q \in Request
  PROVE  Page(s) \in Seq(T) /\ \A i \in DOMAIN Page(s) : \E j \in DOMAIN s : Page(s)[i] = s[j]
<1> DEFINE m == (q.page - 1) * PerPage + 1
           n == IF q.page * PerPage < Len(s) THEN q.page * PerPage ELSE Len(s)
<1>1. q.page \in Nat \ {0} /\ PerPage \in Nat  BY QueriesAssumption
<1>2. (q.page - 1) * PerPage \in Nat /\ q.page * PerPage \in Nat  BY <1>1
<1>3. m \in Nat /\ m >= 1 /\ n \in Nat /\ n <= Len(s)
  <2> DEFINE a == (q.page - 1) * PerPage  b == q.page * PerPage
  <2>1. a \in Nat /\ b \in Nat /\ Len(s) \in Nat  BY <1>2
  <2> HIDE DEF a, b
  <2> QED  BY <2>1 DEF a, b
<1>4. Page(s) = SubSeq(s, m, n)  BY DEF Page
<1> HIDE DEF m, n
<1>5. SubSeq(s, m, n) \in Seq(T) /\ Len(SubSeq(s, m, n)) = (IF m <= n THEN n - m + 1 ELSE 0)
      /\ \A i \in 1 .. n - m + 1 : SubSeq(s, m, n)[i] = s[m + i - 1]
  BY <1>3
<1>6. ASSUME NEW i \in DOMAIN SubSeq(s, m, n) PROVE \E j \in DOMAIN s : SubSeq(s, m, n)[i] = s[j]
  <2>1. i \in 1 .. n - m + 1  BY <1>3, <1>5, <1>6
  <2>2. m + i - 1 \in 1 .. Len(s)  BY <1>3, <2>1
  <2> QED  BY <1>5, <2>1, <2>2
<1> QED  BY <1>4, <1>5, <1>6

(* An ordered set is a list of its members. *)
LEMMA ListOf ==
  ASSUME NEW S, IsFiniteSet(S), NEW R, Total(S, R)
  PROVE  Ordered(S, R) \in Seq(S)
<1>1. Ordered(S, R) \in [1 .. Cardinality(S) -> S]  BY OrderedIs
<1>2. Cardinality(S) \in Nat  BY FS_CardinalityType
<1> QED  BY <1>1, <1>2

(* No two names are level, in either order. *)
LEMMA NameOrder == ASSUME NEW S, S \subseteq Name PROVE Total(S, ByName)
<1>1. \A x, y \in S : x \in Nat /\ y \in Nat
                      /\ (<<x, y>> \in ByName <=> IF q.sort = "desc" THEN x > y ELSE x < y)
  BY Givens DEF ByName
<1> QED  BY <1>1 DEF Total

(* Nor two holders by the sizes of their lists, the address deciding. *)
LEMMA CountOrder == ASSUME NEW S, S \subseteq Wallet PROVE Total(S, ByCount)
<1> DEFINE c(w) == Cardinality(InWallet(w))
<1>1. \A x \in S : x \in Nat /\ c(x) \in Nat  BY Givens, Finite
<1>2. \A x, y \in S : <<x, y>> \in ByCount <=> Sorted(c(x), c(y), x, y)  BY DEF ByCount
<1> HIDE DEF c
<1>3. \A x, y \in S : <<x, y>> \in ByCount <=>
          IF q.sort = "desc" THEN c(y) < c(x) \/ (c(y) = c(x) /\ y < x)
          ELSE c(x) < c(y) \/ (c(x) = c(y) /\ x < y)
  BY <1>2 DEF Sorted, Scored
<1> QED  BY <1>1, <1>3 DEF Total

(* Nor two handles by the slot of their hashes, the name deciding. *)
LEMMA SlotOrder == ASSUME StoreInv, NEW S, S \subseteq Present("trait") PROVE Total(S, BySlot)
<1>1. \A x \in S : x \in Nat /\ SlotOf(x) \in Nat  BY Givens, Mirrored DEF SlotOf, Indexes
<1>2. \A x, y \in S : <<x, y>> \in BySlot <=>
          IF q.sort = "desc" THEN SlotOf(y) < SlotOf(x) \/ (SlotOf(y) = SlotOf(x) /\ y < x)
          ELSE SlotOf(x) < SlotOf(y) \/ (SlotOf(x) = SlotOf(y) /\ x < y)
  BY DEF BySlot, Sorted, Scored
<1> QED  BY <1>1, <1>2 DEF Total

-----------------------------------------------------------------------------
(* The default handle that is worked out is one of the wallet's. *)
LEMMA SomeLeast ==
  ASSUME NEW S, S \subseteq Name, S # {}, NEW key \in [Name -> Nat]
  PROVE  \E n \in Least(S, key) : TRUE
<1> DEFINE K == {key[n] : n \in S}
<1>1. K \subseteq Nat /\ K # {}  OBVIOUS
<1> HIDE DEF K
<1>2. PICK k \in K : \A l \in K : k <= l  BY <1>1, LeastOf
<1> QED  BY <1>2 DEF K, Least

(* getDefaultHandle picks one of the handles it is given, or none. *)
LEMMA PreferredIs ==
  ASSUME NEW S, S \subseteq Name
  PROVE  Preferred(S) \in S \union {None}
<1>1. Length \in [Name -> Nat] /\ Og \in [Name -> Nat] /\ Born \in [Name -> Nat]  BY QueriesAssumption
<1> DEFINE ogs == {n \in S : Og[n] # 0}
           oldest == Least(Least(S, Length), Born)
<1>2. \A T, key : Least(T, key) \subseteq T  BY DEF Least
<1>3. CASE S = {}  BY <1>3 DEF Preferred
<1>4. CASE S # {} /\ ogs # {}
  <2>1. \E n \in Least(ogs, Og) : TRUE  BY <1>1, <1>4, SomeLeast
  <2>2. (CHOOSE n \in Least(ogs, Og) : TRUE) \in Least(ogs, Og)  BY <2>1
  <2>3. Preferred(S) = CHOOSE n \in Least(ogs, Og) : TRUE  BY <1>4 DEF Preferred
  <2>4. ogs \subseteq S  OBVIOUS
  <2> HIDE DEF ogs
  <2> QED  BY <1>2, <2>2, <2>3, <2>4
<1>5. CASE S # {} /\ ogs = {}
  <2>1. Least(S, Length) # {} /\ Least(S, Length) \subseteq S  BY <1>1, <1>2, <1>5, SomeLeast
  <2>2. oldest # {} /\ oldest \subseteq S  BY <1>1, <1>2, <2>1, SomeLeast
  <2> HIDE DEF oldest
  <2>3. \E n \in oldest : \A m \in oldest : n <= m  BY <2>2, Givens, LeastOf
  <2>4. Preferred(S) = CHOOSE n \in oldest : \A m \in oldest : n <= m  BY <1>5 DEF Preferred, oldest
  <2> QED  BY <2>2, <2>3, <2>4
<1> QED  BY <1>3, <1>4, <1>5

(* So do the picks it may make while some of them are not indexed. *)
LEMMA CandidatesAre ==
  ASSUME NEW S, S \subseteq Name
  PROVE  Candidates(S) \subseteq S \union {None}
<1>1. Preferred(S \intersect Present("handle")) \in S \union {None}  BY PreferredIs
<1> QED  BY <1>1 DEF Candidates

-----------------------------------------------------------------------------

(* What a request has read when it comes. *)
LEMMA FrameAtFirst == Fresh \in Frame
BY Givens DEF Fresh, Frame

(* The invariant holds when the request comes. *)
LEMMA QueryInitInv == ASSUME QueryInit PROVE QueryInv
<1>1. StoreInv
  <2>1. truth \in Handles /\ q \in Request /\ firstSlot \in FirstSlots  BY QueriesAssumption DEF QueryInit
  <2> QED  BY <2>1 DEF QueryInit, StoreInv, StoreTypes, Mirrors, Whole, Handles
<1>2. StageTypes
  <2>1. q.kind \in {"search", "handle", "holder", "holders"} /\ "begin" \in DOMAIN Turn
    BY QueriesAssumption DEF QueryInit, Turn
  <2> QED  BY <2>1, FrameAtFirst DEF QueryInit, StageTypes, Stages, Listing
<1>3. TermsRead /\ NamesAsked
  <2>1. \A c \in Terms : ~Over(c)  BY DEF QueryInit, Terms, Over, Turn
  <2> QED  BY <2>1 DEF QueryInit, TermsRead, NamesAsked, Taken, Answering
<1>4. RecordsRead /\ WalletsRead
  <2>1. f.names = <<>> /\ f.recs = <<>> /\ \A w \in Wallet : f.best[w] = None /\ f.sets[w] = {}
    BY DEF QueryInit, Fresh
  <2> QED  BY <2>1 DEF QueryInit, RecordsRead, WalletsRead, Answering
<1> QED  BY <1>1, <1>2, <1>3, <1>4 DEF QueryInv

(* What the request has read stays true of the past. *)
LEMMA PastKept ==
  ASSUME QueryInv, UNCHANGED <<q, pc, f>>, \A n \in Name : seen[n] \subseteq seen'[n], StoreInv'
  PROVE  QueryInv'
<1>0. StageTypes /\ TermsRead /\ NamesAsked /\ RecordsRead /\ WalletsRead  BY DEF QueryInv
<1>1. \A n, w : WasIn(n, w) => WasIn(n, w)'  BY DEF WasIn
<1>2. \A n \in Name : WasAtSlot(n) => WasAtSlot(n)'  BY DEF WasAtSlot
<1>3. \A c \in Terms : \A n : TrueOf(c, n) => TrueOf(c, n)'  BY <1>1 DEF TrueOf, Terms
<1>4. \A c : (Needed(c)' <=> Needed(c)) /\ (Over(c)' <=> Over(c))  BY DEF Needed, Unfiltered, Over
<1>5. \A n : Asked(n) => Asked(n)'  BY <1>2, <1>3, <1>4 DEF Asked
<1>6. StageTypes'  BY <1>0 DEF StageTypes, Needed, Unfiltered
<1>7. TermsRead'  BY <1>0, <1>3, <1>4 DEF TermsRead
<1>8. NamesAsked'  BY <1>0, <1>5 DEF NamesAsked, Taken, Unfiltered
<1>9. RecordsRead'
  <2>1. ASSUME q.kind \in {"search", "handle"}, pc \in Answering, NEW i \in DOMAIN f.recs
        PROVE  i \in DOMAIN f.names /\ f.recs[i] \in seen'[f.names[i]] \union {None}
    <3>1. i \in DOMAIN f.names /\ f.recs[i] \in seen[f.names[i]] \union {None}
      BY <1>0, <2>1 DEF RecordsRead
    <3>2. f.names[i] \in Name
      <4>1. CASE q.kind = "search"  BY <1>0, <2>1, <3>1, <4>1 DEF NamesAsked, Taken, Asked
      <4>2. CASE q.kind = "handle"  BY <1>0, <2>1, <3>1, <4>2 DEF RecordsRead, Answering
      <4> QED  BY <2>1, <4>1, <4>2
    <3> QED  BY <3>1, <3>2
  <2>2. \A r, w : Member(r, w) => Member(r, w)'  BY <1>1 DEF Member
  <2>3. ASSUME q.kind = "holders"
        PROVE  /\ pc \in Stages["holders"] \ {"prefer", "status", "done"} => f.recs = <<>>
               /\ \A i \in DOMAIN f.names : i \in DOMAIN f.page /\ (f.names[i] # None => WasIn(f.names[i], f.page[i])')
               /\ \A i \in DOMAIN f.recs : i \in DOMAIN f.names
                                          /\ (f.recs[i] # None => f.names[i] # None /\ f.recs[i] \in seen'[f.names[i]])
    <3>1. /\ pc \in Stages["holders"] \ {"prefer", "status", "done"} => f.recs = <<>>
          /\ \A i \in DOMAIN f.names : i \in DOMAIN f.page /\ (f.names[i] # None => WasIn(f.names[i], f.page[i]))
          /\ \A i \in DOMAIN f.recs : i \in DOMAIN f.names
                                     /\ (f.recs[i] # None => f.names[i] # None /\ f.recs[i] \in seen[f.names[i]])
      BY <1>0, <2>3 DEF RecordsRead
    <3>2. \A i \in DOMAIN f.names : f.names[i] # None => f.names[i] \in Name  BY <3>1 DEF WasIn
    <3> QED  BY <1>1, <3>1, <3>2
  <2> QED  BY <1>0, <2>1, <2>2, <2>3 DEF RecordsRead
<1>10. WalletsRead'  BY <1>0, <1>1 DEF WalletsRead
<1> QED  BY <1>6, <1>7, <1>8, <1>9, <1>10 DEF QueryInv

(* The scanner. *)
LEMMA ScannerStep == ASSUME QueryInv, Scanner PROVE QueryInv'
<1> USE DEF others
<1>0. StoreTypes /\ Mirrors  BY DEF QueryInv, StoreInv
<1>1. ASSUME NEW n \in Name, NEW r \in Record \union {None}, Write(n, r), rebuild = "none",
             UNCHANGED <<lock, rebuild, others>>
      PROVE  StoreInv' /\ \A m \in Name : seen[m] \subseteq seen'[m]
  <2>1. truth' = [truth EXCEPT ![n] = r] /\ seen' = [seen EXCEPT ![n] = @ \union {r}]
        /\ index' = [i \in Indexes |-> [index[i] EXCEPT ![n] = r]]
    BY <1>1 DEF Write, Indexed
  <2>2. StoreTypes'  BY <1>0, <1>1, <2>1 DEF StoreTypes, Handles
  <2>3. Whole'
    <3>1. \A i \in Indexes : index[i] = truth  BY <1>0, <1>1 DEF Mirrors, Whole
    <3> QED  BY <2>1, <3>1 DEF Whole
  <2>4. \A m \in Name : truth'[m] \in seen'[m] /\ seen[m] \subseteq seen'[m]
    BY <1>0, <2>1 DEF StoreTypes, Mirrors, Handles
  <2> QED  BY <2>2, <2>3, <2>4 DEF StoreInv, Mirrors, Whole
<1>2. ASSUME NEW n \in Name, Save(n) \/ Burn(n)
      PROVE  StoreInv' /\ \A m \in Name : seen[m] \subseteq seen'[m]
  <2>1. \E r \in Record \union {None} : Write(n, r)  BY <1>2 DEF Save, Burn
  <2>2. rebuild = "none" /\ UNCHANGED <<lock, rebuild, others>>  BY <1>2 DEF Save, Burn
  <2> QED  BY <1>1, <2>1, <2>2
<1>3. ASSUME UNCHANGED <<truth, seen, firstSlot>>, index' \in [Indexes -> Handles],
             rebuild' \in {"none", "wipe", "write", "failed"},
             \A i \in Indexes, n \in Name : index'[i][n] \in {None, truth[n]},
             rebuild' = "none" => index' = index /\ Whole
      PROVE  StoreInv' /\ \A m \in Name : seen[m] \subseteq seen'[m]
  BY <1>0, <1>3 DEF StoreInv, StoreTypes, Mirrors, Whole
<1>4. index \in [Indexes -> Handles] /\ truth \in Handles
      /\ \A i \in Indexes, n \in Name : index[i][n] \in {None, truth[n]}
  BY <1>0 DEF StoreTypes, Mirrors
<1>5. CASE LockReindex \/ EndReindex \/ FailReindex
  BY <1>3, <1>4, <1>5, PastKept DEF LockReindex, EndReindex, FailReindex
<1>6. ASSUME NEW i \in Indexes, Wipe(i) PROVE QueryInv'
  <2>1. Nothing \in Handles /\ \A n \in Name : Nothing[n] = None  BY DEF Nothing, Handles
  <2>2. UNCHANGED <<truth, rebuild, seen, others>> /\ rebuild = "wipe" /\ index' = [index EXCEPT ![i] = Nothing]
    BY <1>6 DEF Wipe
  <2>3. index' \in [Indexes -> Handles] /\ \A j \in Indexes, n \in Name : index'[j][n] \in {None, truth[n]}
    BY <1>4, <2>1, <2>2
  <2> QED  BY <1>3, <2>2, <2>3, PastKept
<1>7. ASSUME NEW n \in Name, WriteBack(n) PROVE QueryInv'
  <2>1. UNCHANGED <<truth, seen, others>> /\ rebuild' = "write"
        /\ index' = [i \in Indexes |-> [index[i] EXCEPT ![n] = truth[n]]]
    BY <1>7 DEF WriteBack
  <2>2. index' \in [Indexes -> Handles] /\ \A j \in Indexes, m \in Name : index'[j][m] \in {None, truth[m]}
    BY <1>4, <2>1 DEF Handles
  <2> QED  BY <1>3, <2>1, <2>2, PastKept
<1>8. ASSUME NEW n \in Name, Save(n) \/ Burn(n) PROVE QueryInv'
  <2>1. UNCHANGED others  BY <1>8 DEF Save, Burn
  <2> QED  BY <1>2, <1>8, <2>1, PastKept
<1> QED  BY <1>5, <1>6, <1>7, <1>8 DEF Scanner

-----------------------------------------------------------------------------
(* The next call of a search: one that is needed, with none needed before. *)
LEMMA NextCall ==
  ASSUME NEW c \in DOMAIN Turn, c # "records"
  PROVE  LET d == CallAfter(c) IN
         /\ d \in DOMAIN Turn /\ Turn[d] > Turn[c] /\ Needed(d)
         /\ \A e \in DOMAIN Turn : Turn[e] > Turn[c] /\ Needed(e) => Turn[d] <= Turn[e]
<1> DEFINE later == {d \in DOMAIN Turn : Turn[d] > Turn[c] /\ Needed(d)}
           turns == {Turn[d] : d \in later}
<1>1. Needed("records")  BY DEF Needed
<1>2. "records" \in later  BY <1>1 DEF Turn
<1>3. \A d \in DOMAIN Turn : Turn[d] \in Nat  BY DEF Turn
<1>4. turns # {} /\ turns \subseteq Nat  BY <1>2, <1>3
<1> HIDE DEF turns
<1>5. PICK t \in turns : \A u \in turns : t <= u  BY <1>4, LeastOf
<1>6. \E d \in later : \A e \in later : Turn[d] <= Turn[e]  BY <1>5 DEF turns
<1>7. CallAfter(c) = CHOOSE d \in later : \A e \in later : Turn[d] <= Turn[e]  BY DEF CallAfter
<1> HIDE DEF later
<1>8. CallAfter(c) \in later /\ \A e \in later : Turn[CallAfter(c)] <= Turn[e]  BY <1>6, <1>7
<1> QED  BY <1>8 DEF later

(* The calls a listing goes through. *)
LEMMA TermsBefore ==
  ASSUME NEW c \in DOMAIN Turn, c # "records", NEW d \in DOMAIN Turn, Needed(d),
         Turn[CallAfter(c)] > Turn[d]
  PROVE  d = c \/ Turn[c] > Turn[d]
<1>1. \A e \in DOMAIN Turn : Turn[e] \in Nat  BY DEF Turn
<1>2. \A a, b \in DOMAIN Turn : Turn[a] = Turn[b] => a = b  BY DEF Turn
<1>3. CallAfter(c) \in DOMAIN Turn /\ (Turn[d] > Turn[c] => Turn[CallAfter(c)] <= Turn[d])  BY NextCall
<1> QED  BY <1>1, <1>2, <1>3

(* What a call leaves of what was read: nothing was written meanwhile. *)
LEMMA SamePast ==
  ASSUME UNCHANGED <<q, seen>>
  PROVE  /\ \A n, w : WasIn(n, w)' <=> WasIn(n, w)
         /\ \A n : (Asked(n)' <=> Asked(n)) /\ \A c \in Terms : TrueOf(c, n)' <=> TrueOf(c, n)
         /\ \A c : Needed(c)' <=> Needed(c)
<1>1. \A n, w : WasIn(n, w)' <=> WasIn(n, w)  BY DEF WasIn
<1>2. \A n : WasAtSlot(n)' <=> WasAtSlot(n)  BY DEF WasAtSlot
<1>3. \A n : \A c \in Terms : TrueOf(c, n)' <=> TrueOf(c, n)  BY <1>1 DEF TrueOf, Terms
<1>4. \A c : Needed(c)' <=> Needed(c)  BY DEF Needed, Unfiltered
<1> QED  BY <1>1, <1>2, <1>3, <1>4 DEF Asked

(* A step that leaves the store leaves what is said of it. *)
LEMMA StoreSame == ASSUME StoreInv, UNCHANGED <<scanner, seen>> PROVE StoreInv'
BY DEF scanner, StoreInv, StoreTypes, Mirrors, Whole

(* The request is taken: what is remembered starts from here. *)
LEMMA BeginStep == ASSUME QueryInv, Begin PROVE QueryInv'
<1>0. StoreInv /\ StageTypes  BY DEF QueryInv
<1>1. /\ pc = "begin" /\ f = Fresh /\ UNCHANGED <<scanner, q>> /\ seen' = [n \in Name |-> {truth[n]}]
      /\ f' = [f EXCEPT !.names = IF q.kind = "handle" THEN <<q.name>> ELSE <<>>]
      /\ pc' = CASE q.kind = "search" -> CallAfter("begin")
                 [] q.kind = "handle" -> "records"
                 [] q.kind = "holder" -> "members"
                 [] q.kind = "holders" -> "page"
  BY <1>0 DEF Begin, Goes, StageTypes
<1>2. q \in Request /\ q.name \in Name /\ q.kind \in {"search", "handle", "holder", "holders"}
  BY <1>0, QueriesAssumption DEF StageTypes
<1>3. StoreInv'
  BY <1>0, <1>1 DEF scanner, StoreInv, StoreTypes, Mirrors, Whole, Handles
<1>4. f' \in Frame
  <2> DEFINE T == Name \union {None}
  <2>1. <<q.name>> \in Seq(T) /\ <<>> \in Seq(T)
    <3>1. q.name \in T  BY <1>2
    <3> HIDE DEF T
    <3> QED  BY <3>1
  <2> QED  BY <1>1, <2>1, FrameAtFirst DEF Frame
<1>5. /\ f'.names = (IF q.kind = "handle" THEN <<q.name>> ELSE <<>>) /\ f'.recs = <<>>
      /\ \A w \in Wallet : f'.best[w] = None /\ f'.sets[w] = {}
  BY <1>1 DEF Fresh
<1>6. q.kind = "search" =>
        pc' \in DOMAIN Turn \ {"begin"} /\ Needed(pc') /\ \A c \in Terms : Needed(c) => ~Over(c)'
  <2> SUFFICES ASSUME q.kind = "search"
               PROVE  /\ pc' \in DOMAIN Turn \ {"begin"} /\ Needed(pc')
                      /\ \A c \in Terms : Needed(c) => ~Over(c)'
    OBVIOUS
  <2>1. "begin" \in DOMAIN Turn /\ pc' = CallAfter("begin")  BY <1>1 DEF Turn
  <2>2. pc' \in DOMAIN Turn /\ Turn[pc'] > Turn["begin"] /\ Needed(pc')  BY <2>1, NextCall
  <2>3. ASSUME NEW c \in Terms, Needed(c) PROVE ~Over(c)'
    <3>1. c \in DOMAIN Turn /\ "begin" # "records"  BY DEF Terms, Turn
    <3>2. Turn[pc'] > Turn[c] => c = "begin" \/ Turn["begin"] > Turn[c]  BY <2>1, <2>3, <3>1, TermsBefore
    <3>3. c # "begin" /\ ~(Turn["begin"] > Turn[c])  BY DEF Terms, Turn
    <3>4. pc' # "range"  BY <2>2 DEF Turn
    <3> QED  BY <3>2, <3>3, <3>4 DEF Over
  <2>4. Turn["begin"] = 0  BY DEF Turn
  <2> QED  BY <2>2, <2>3, <2>4
<1>7. StageTypes'
  <2>1. pc' \in Stages[q.kind]  BY <1>1, <1>2, <1>6 DEF Stages
  <2>2. pc' # "begin" /\ pc' # "range"  BY <1>1, <1>2, <1>6 DEF Turn
  <2>3. pc' \in Listing => q.kind = "search"  BY <1>1, <1>2 DEF Listing
  <2>4. pc' \in Listing \union {"page"} => f'.names = <<>>  BY <1>1, <1>2, <1>5 DEF Listing
  <2>5. \A c : Needed(c)' <=> Needed(c)  BY <1>1 DEF Needed, Unfiltered
  <2>6. pc' \in Listing => Needed(pc)'  BY <1>1, <1>6, <2>3 DEF Needed, Unfiltered
  <2> QED  BY <1>1, <1>2, <1>4, <2>1, <2>2, <2>4, <2>6 DEF StageTypes
<1>8. TermsRead'
  <2>1. \A c : Needed(c)' <=> Needed(c)  BY <1>1 DEF Needed, Unfiltered
  <2> QED  BY <1>1, <1>6, <2>1 DEF TermsRead
<1>9. NamesAsked'
  <2>1. q'.kind = "search" => DOMAIN f'.names = {}  BY <1>1, <1>5
  <2>2. pc' # "range"  BY <1>1, <1>2, <1>6 DEF Turn
  <2> QED  BY <1>1, <2>1, <2>2 DEF NamesAsked
<1>10. RecordsRead' /\ WalletsRead'
  <2>1. q.kind = "handle" => \A i \in DOMAIN f'.names : f'.names[i] \in Name  BY <1>2, <1>5
  <2>2. q.kind = "holders" => f'.names = <<>>  BY <1>5
  <2> QED  BY <1>1, <1>5, <2>1, <2>2 DEF RecordsRead, WalletsRead
<1> QED  BY <1>3, <1>7, <1>8, <1>9, <1>10 DEF QueryInv

(* A term is read. *)
LEMMA TermStep ==
  ASSUME QueryInv, NEW c \in DOMAIN Turn \ {"begin", "total", "names", "bounds", "records"}, NEW S,
         S \subseteq Name \union {None}, ReadTerm(c, S),
         c \in Terms => \A n \in S : n = None \/ TrueOf(c, n)
  PROVE  QueryInv'
<1>0. StoreInv /\ StageTypes /\ TermsRead /\ NamesAsked /\ RecordsRead /\ WalletsRead  BY DEF QueryInv
<1>1. /\ pc = c /\ pc' = CallAfter(c) /\ f' = [f EXCEPT !.read = Append(@, S)]
      /\ UNCHANGED <<scanner, q, seen>>
  BY DEF ReadTerm, Goes, Served
<1>2. q.kind = "search" /\ f.names = <<>>
  <2>1. c \in Listing  BY DEF Turn, Listing
  <2>2. q.kind \in {"search", "handle", "holder", "holders"}  BY <1>0, QueriesAssumption DEF StageTypes
  <2> QED  BY <1>0, <1>1, <2>1, <2>2 DEF StageTypes, Stages, Listing
<1>3. /\ pc' \in DOMAIN Turn /\ Turn[pc'] > Turn[c] /\ Needed(pc')  BY <1>1, NextCall DEF Turn
<1>4. f \in Frame /\ f.read \in Seq(SUBSET (Name \union {None}))  BY <1>0 DEF StageTypes, Frame
<1>5. f' \in Frame
  <2>1. Append(f.read, S) \in Seq(SUBSET (Name \union {None}))  BY <1>4
  <2> QED  BY <1>1, <1>4, <2>1 DEF Frame
<1>6. /\ f'.names = f.names /\ f'.recs = f.recs /\ f'.best = f.best /\ f'.sets = f.sets
      /\ f'.read = Append(f.read, S)
  BY <1>1, <1>4 DEF Frame
<1>7. /\ DOMAIN f'.read = 1 .. Len(f.read) + 1 /\ f'.read[Len(f.read) + 1] = S
      /\ DOMAIN f.read = 1 .. Len(f.read) /\ Len(f.read) \in Nat
      /\ \A i \in DOMAIN f.read : f'.read[i] = f.read[i]
  BY <1>4, <1>6
<1>8. StageTypes'
  <2>1. pc' # "begin" /\ pc' # "range"  BY <1>3 DEF Turn
  <2>2. Needed(pc)'  BY <1>1, <1>3 DEF Needed, Unfiltered
  <2>3. pc' \in Stages[q.kind]  BY <1>2, <1>3 DEF Stages
  <2> QED  BY <1>0, <1>1, <1>2, <1>5, <1>6, <2>1, <2>2, <2>3 DEF StageTypes
<1>9. TermsRead'
  <2> SUFFICES ASSUME NEW d \in Terms, Needed(d), Over(d)'
               PROVE  \E i \in DOMAIN f'.read : \A n \in f'.read[i] : n = None \/ TrueOf(d, n)
    BY <1>1, SamePast DEF TermsRead
  <2>1. pc' # "range" /\ d \in DOMAIN Turn  BY <1>3 DEF Turn, Terms
  <2>2. d = c \/ Turn[c] > Turn[d]  BY <1>1, <2>1, TermsBefore DEF Over, Turn
  <2>3. CASE d = c
    <3>1. Len(f.read) + 1 \in DOMAIN f'.read  BY <1>7
    <3> QED  BY <1>7, <2>3, <3>1
  <2>4. CASE Turn[c] > Turn[d]
    <3>1. Over(d)  BY <1>1, <2>4 DEF Over
    <3>2. PICK i \in DOMAIN f.read : \A n \in f.read[i] : n = None \/ TrueOf(d, n)
      BY <1>0, <1>2, <3>1 DEF TermsRead
    <3>3. i \in DOMAIN f'.read  BY <1>7
    <3> QED  BY <1>7, <3>2, <3>3
  <2> QED  BY <2>2, <2>3, <2>4
<1>10. NamesAsked'
  <2>1. pc' # "range"  BY <1>3 DEF Turn
  <2> QED  BY <1>2, <1>6, <2>1 DEF NamesAsked
<1>11. RecordsRead'
  <2>1. pc' \notin Answering  BY <1>3 DEF Turn, Answering
  <2>2. q'.kind = "search"  BY <1>1, <1>2
  <2> QED  BY <2>1, <2>2 DEF RecordsRead
<1>12. WalletsRead'  BY <1>0, <1>1, <1>6, SamePast DEF WalletsRead
<1> QED  BY <1>0, <1>1, <1>8, <1>9, <1>10, <1>11, <1>12, StoreSame DEF QueryInv

(* What matches is what every term asked for is true of. *)
LEMMA MatchingIs ==
  ASSUME QueryInv, q.kind = "search", \A c \in Terms : Needed(c) => Over(c), NEW n \in Matching
  PROVE  n \in Name /\ \A c \in Terms : Needed(c) => TrueOf(c, n)
<1>1. n \in Name /\ n # None /\ \A i \in DOMAIN f.read : n \in f.read[i]  BY Givens DEF Matching
<1>2. ASSUME NEW c \in Terms, Needed(c) PROVE TrueOf(c, n)
  <2>1. PICK i \in DOMAIN f.read : \A m \in f.read[i] : m = None \/ TrueOf(c, m)
    BY <1>2 DEF QueryInv, TermsRead
  <2> QED  BY <1>1, <2>1
<1> QED  BY <1>1, <1>2

(* The steps that read a term. *)
LEMMA TermSteps ==
  ASSUME QueryInv, ReadList \/ ReadLength \/ ReadWallet \/ ReadKeys \/ ReadHexes
  PROVE  QueryInv'
<1>0. StoreInv /\ q \in Request  BY DEF QueryInv, StageTypes
<1> DEFINE Of(c, S) == S \subseteq Name \union {None} /\ ReadTerm(c, S)
                       /\ (c \in Terms => \A n \in S : n = None \/ TrueOf(c, n))
<1>1. ASSUME NEW c \in {"list", "length", "wallet", "keys", "hexes"}, NEW S, Of(c, S) PROVE QueryInv'
  <2>1. c \in DOMAIN Turn \ {"begin", "total", "names", "bounds", "records"}  BY <1>1 DEF Turn
  <2> QED  BY <1>1, <2>1, TermStep
<1>2. \A S : S \subseteq Name => Marked(S) \subseteq Name \union {None}
             /\ \A n \in Marked(S) : n = None \/ n \in S
  BY DEF Marked
<1>3. CASE ReadList
  <2>1. InWallet(q.by) \subseteq Name /\ \A n \in InWallet(q.by) : TrueOf("list", n)
    BY <1>0, Finite, HeldThen DEF TrueOf
  <2>2. Of("list", Marked(InWallet(q.by)))  BY <1>2, <1>3, <2>1 DEF ReadList
  <2> QED  BY <1>1, <2>2
<1>4. CASE ReadLength
  <2>1. OfLength(q.length) \subseteq Name /\ \A n \in OfLength(q.length) : TrueOf("length", n)
    BY DEF OfLength, Present, TrueOf
  <2>2. Of("length", Marked(OfLength(q.length)))  BY <1>2, <1>4, <2>1 DEF ReadLength
  <2> QED  BY <1>1, <2>2
<1>5. CASE ReadWallet
  <2>1. InWallet(q.wallet) \subseteq Name /\ \A n \in InWallet(q.wallet) : TrueOf("wallet", n)
    BY <1>0, Finite, HeldThen DEF TrueOf
  <2>2. Of("wallet", Marked(InWallet(q.wallet)))  BY <1>2, <1>5, <2>1 DEF ReadWallet
  <2> QED  BY <1>1, <2>2
<1>6. CASE ReadKeys
  <2>1. Of("keys", Present("handle"))  BY <1>6 DEF ReadKeys, Present, Terms
  <2> QED  BY <1>1, <2>1
<1>7. CASE ReadHexes
  <2> DEFINE S == {n \in Matching :
                     \/ n \in InText[q.term]
                     \/ n \in (IF n \in Present("handle") THEN InHex[q.term] ELSE InBytes[q.term])}
  <2>1. S \subseteq Name  BY Finite
  <2>2. q.kind = "search" /\ (\A c \in Terms : Needed(c) /\ c # "hexes" => Over(c))
    <3>1. pc = "hexes" /\ pc \in Stages[q.kind] /\ q.kind \in {"search", "handle", "holder", "holders"}
      BY <1>0, <1>7, QueriesAssumption DEF ReadHexes, ReadTerm, QueryInv, StageTypes
    <3>2. q.kind = "search"  BY <3>1 DEF Stages
    <3>3. \A c \in Terms : c # "hexes" => Turn["hexes"] > Turn[c]  BY DEF Terms, Turn
    <3>4. pc \in DOMAIN Turn  BY <3>1 DEF Turn
    <3> QED  BY <3>1, <3>2, <3>3, <3>4 DEF Over
  <2>3. ReadTerm("hexes", S)  BY <1>7 DEF ReadHexes
  <2>4. \A n \in S : TrueOf("hexes", n)
    <3>1. pc = "hexes" /\ q.term # None  BY <2>3 DEF ReadTerm, QueryInv, StageTypes, Needed, Listing
    <3>2. InBytes[q.term] \subseteq InHex[q.term]  BY <1>0, <3>1, QueriesAssumption
    <3> QED  BY <3>2 DEF TrueOf
  <2> HIDE DEF S
  <2>5. Of("hexes", S)  BY <2>1, <2>3, <2>4
  <2> QED  BY <1>1, <2>5
<1> QED  BY <1>3, <1>4, <1>5, <1>6, <1>7

-----------------------------------------------------------------------------

(* A request, what it has read, and the calls its kind makes. *)
LEMMA QueryKinds ==
  ASSUME QueryInv
  PROVE  /\ q \in Request /\ q.kind \in {"search", "handle", "holder", "holders"}
         /\ q.name \in Name /\ q.sort \in {"asc", "desc"} /\ q.slot \in Nat \union {NoSlot}
         /\ q.kind = "holder" => q.wallet \in Wallet
         /\ f \in Frame /\ pc \in Stages[q.kind]
         /\ pc \in Listing \union {"range"} => q.kind = "search"
<1>1. q \in Request /\ f \in Frame /\ pc \in Stages[q.kind]  BY DEF QueryInv, StageTypes
<1>2. /\ q.kind \in {"search", "handle", "holder", "holders"}
      /\ q.name \in Name /\ q.sort \in {"asc", "desc"} /\ q.slot \in Nat \union {NoSlot}
      /\ q.kind = "holder" => q.wallet \in Wallet
  BY <1>1, QueriesAssumption
<1>3. pc \in Listing \union {"range"} => q.kind = "search"  BY <1>1, <1>2 DEF Stages, Listing
<1> QED  BY <1>1, <1>2, <1>3

(* A frame with a field changed. *)
LEMMA FrameAtList ==
  ASSUME NEW g \in Frame
  PROVE  /\ \A x, y \in Nat, z \in Int : [g EXCEPT !.count = x, !.from = z, !.total = y] \in Frame
         /\ \A x \in Seq(Name \union {None}), y \in Nat, z \in Int :
                [g EXCEPT !.names = x, !.from = z, !.count = y] \in Frame
BY DEF Frame

(* A frame with other names and records is a frame. *)
LEMMA FrameAtRecords ==
  ASSUME NEW g \in Frame
  PROVE  /\ \A x \in Seq(Name \union {None}), y \in Seq(Record \union {None}) :
                [g EXCEPT !.names = x, !.recs = y] \in Frame
         /\ \A x \in Seq(Name \union {None}), y \in Seq(Record \union {None}),
                u \in Seq(SUBSET (Name \union {None})), v \in Nat, w \in SUBSET Wallet :
                [g EXCEPT !.names = x, !.recs = y, !.read = u, !.total = v, !.todo = w] \in Frame
BY DEF Frame

(* So is one with other holders, lists and defaults. *)
LEMMA FrameAtWallets ==
  ASSUME NEW g \in Frame, NEW todo \in SUBSET Wallet
  PROVE  /\ \A x \in [Wallet -> Name \union {None}] : [g EXCEPT !.best = x, !.todo = todo] \in Frame
         /\ \A x \in [Wallet -> SUBSET Name] : [g EXCEPT !.sets = x, !.todo = todo] \in Frame
         /\ \A x \in Seq(Wallet) : [g EXCEPT !.page = x, !.todo = todo] \in Frame
         /\ \A x \in [Wallet -> Name \union {None}], y \in [Wallet -> SUBSET Name] :
                [g EXCEPT !.best = x, !.todo = todo, !.sets = y] \in Frame
         /\ \A x \in [Wallet -> SUBSET Name], y \in Nat :
                [g EXCEPT !.sets = x, !.todo = todo, !.total = y] \in Frame
BY DEF Frame

(* A list over a set is one over every larger set. *)
LEMMA Wider == ASSUME NEW S, NEW T, S \subseteq T, NEW s \in Seq(S) PROVE s \in Seq(T)
OBVIOUS

(* Every term that is asked for was read before the names are. *)
LEMMA TermsOver ==
  ASSUME pc \in {"total", "names", "bounds", "range", "records"}
  PROVE  \A c \in Terms : Over(c)
BY DEF Terms, Over, Turn

(* The names are looked for. *)
LEMMA ListStep ==
  ASSUME QueryInv, pc \in {"total", "names", "bounds", "range"}, UNCHANGED <<scanner, q, seen>>,
         pc' \in {"names", "range", "records"}, f' \in Frame, f'.read = f.read, f'.recs = f.recs,
         f'.best = f.best, f'.sets = f.sets,
         pc' = "names" => f'.names = <<>> /\ Needed("names"),
         pc' = "range" => q.slot # NoSlot,
         NamesAsked'
  PROVE  QueryInv'
<1>0. StoreInv /\ StageTypes /\ TermsRead /\ NamesAsked /\ RecordsRead /\ WalletsRead  BY DEF QueryInv
<1>1. q.kind = "search"  BY QueryKinds DEF Listing
<1>2. StageTypes'
  <2>1. pc' \in Stages[q.kind]  BY <1>1 DEF Stages, Turn
  <2>2. Needed("names")' <=> Needed("names")  BY SamePast
  <2> QED  BY <1>0, <2>1, <2>2 DEF StageTypes, Listing
<1>3. TermsRead'
  <2>1. \A c \in Terms : Over(c)  BY TermsOver
  <2> QED  BY <1>0, <1>1, <2>1, SamePast DEF TermsRead
<1>4. RecordsRead'  BY <1>1 DEF RecordsRead, Answering
<1>5. WalletsRead'  BY <1>0, SamePast DEF WalletsRead
<1> QED  BY <1>0, <1>2, <1>3, <1>4, <1>5, StoreSame DEF QueryInv

(* The count of all handles. *)
LEMMA TotalStep == ASSUME QueryInv, ReadTotal PROVE QueryInv'
<1>1. /\ pc = "total" /\ pc' = "names" /\ UNCHANGED <<scanner, q, seen>>
      /\ f' = [f EXCEPT !.total = Cardinality(Present("handle"))]
  BY DEF ReadTotal, Goes, Served
<1>2. f \in Frame /\ f.names = <<>> /\ Needed("total")  BY <1>1 DEF QueryInv, StageTypes, Listing
<1>3. Cardinality(Present("handle")) \in Nat  BY Finite DEF Indexes
<1>4. f' \in Frame  BY <1>1, <1>2, <1>3 DEF Frame
<1>5. NamesAsked'  BY <1>1, <1>2 DEF NamesAsked, Taken, Answering, Frame
<1>6. Needed("names")  BY <1>2 DEF Needed
<1> QED  BY <1>1, <1>2, <1>4, <1>5, <1>6, ListStep DEF Frame

(* The page of all names. *)
LEMMA NamesStep == ASSUME QueryInv, ReadNames PROVE QueryInv'
<1> DEFINE s == Page(Ordered(Present("handle"), ByName))
<1>1. /\ pc = "names" /\ pc' = "records" /\ UNCHANGED <<scanner, q, seen>>
      /\ f' = [f EXCEPT !.names = s]
  BY DEF ReadNames, Goes, Served
<1>2. f \in Frame /\ Needed("names") /\ q \in Request  BY <1>1 DEF QueryInv, StageTypes, Listing
<1>3. s \in Seq(Present("handle"))
  <2>1. Present("handle") \subseteq Name /\ IsFiniteSet(Present("handle"))  BY Finite DEF Indexes, Present
  <2>2. Ordered(Present("handle"), ByName) \in Seq(Present("handle"))  BY <2>1, NameOrder, ListOf
  <2> QED  BY <1>2, <2>2, PageHas
<1> HIDE DEF s
<1>4. Present("handle") \subseteq Name \union {None}  BY DEF Present
<1>5. s \in Seq(Name \union {None})  BY <1>3, <1>4, Wider
<1>6. f' \in Frame /\ f'.names = s  BY <1>1, <1>2, <1>5 DEF Frame
<1>7. NamesAsked'
  <2>1. ASSUME NEW i \in DOMAIN s PROVE Asked(s[i])
    <3>1. s[i] \in Name  BY <1>3 DEF Present
    <3>2. \A c \in Terms : ~Needed(c)  BY <1>2 DEF Terms, Needed, Unfiltered
    <3>3. q.slot = NoSlot  BY <1>2 DEF Needed, Unfiltered
    <3> QED  BY <3>1, <3>2, <3>3 DEF Asked
  <2> QED  BY <1>1, <1>6, <2>1, SamePast DEF NamesAsked
<1> QED  BY <1>1, <1>2, <1>6, <1>7, ListStep DEF Frame

(* The first slot there is. *)
LEMMA BoundsStep == ASSUME QueryInv, ReadBounds PROVE QueryInv'
<1>1. /\ pc = "bounds" /\ pc' = "range" /\ UNCHANGED <<scanner, q, seen>>
      /\ f' = [f EXCEPT !.count = Cardinality(Present("handle")), !.from = q.slot,
                        !.total = Cardinality(Matching)]
  BY DEF ReadBounds, Goes, Served
<1>2. f \in Frame /\ Needed("bounds") /\ f.names = <<>>  BY <1>1 DEF QueryInv, StageTypes, Listing
<1>3. q.slot # NoSlot /\ q.slot \in Nat  BY <1>2, QueryKinds DEF Needed
<1>4. Cardinality(Present("handle")) \in Nat /\ Cardinality(Matching) \in Nat  BY Finite DEF Indexes
<1>5. f' \in Frame
  <2>1. q.slot \in Int  BY <1>3
  <2> QED  BY <1>1, <1>2, <1>4, <2>1, FrameAtList
<1>6. f'.from = q.slot /\ f'.names = <<>>  BY <1>1, <1>2 DEF Frame
<1>7. DOMAIN f'.names = {}  BY <1>6
<1>8. NamesAsked'  BY <1>1, <1>3, <1>6, <1>7 DEF NamesAsked
<1> QED  BY <1>1, <1>2, <1>3, <1>5, <1>8, ListStep DEF Frame

(* One range of slots. *)
LEMMA RangeStep == ASSUME QueryInv, ReadRange PROVE QueryInv'
<1> DEFINE S == (RangeNames \ Numeric) \intersect Matching
           s == InRange(Matching)
<1>1. /\ pc = "range" /\ pc' = "range" /\ UNCHANGED <<scanner, q, seen>> /\ ~Beyond
      /\ f' = [f EXCEPT !.names = @ \o s, !.from = Folded(NextStart)]
  BY DEF ReadRange, Goes, Served
<1>2. f \in Frame /\ StoreInv /\ q.slot # NoSlot /\ q.slot \in Nat /\ q.kind = "search" /\ f.from \in Int
      /\ q.sort \in {"asc", "desc"} /\ NamesAsked
  BY <1>1, QueryKinds DEF QueryInv, StageTypes, Frame
<1>3. S \subseteq Present("trait") /\ S \subseteq Matching /\ S \subseteq Name /\ IsFiniteSet(S)
  <2>1. S \subseteq Present("trait") /\ S \subseteq Matching  BY DEF RangeNames, Between
  <2> QED  BY <2>1, Finite
<1>4. s \in Seq(S)
  <2>1. s = Ordered(S, BySlot)  BY DEF InRange
  <2> QED  BY <1>2, <1>3, <2>1, SlotOrder, ListOf
<1>5. IF q.sort = "asc" THEN f.from >= q.slot ELSE f.from <= q.slot \/ f.from < 0
  BY <1>1, <1>2 DEF NamesAsked
<1>6. ASSUME NEW n \in S PROVE Asked(n)
  <2>1. n \in Name /\ \A c \in Terms : Needed(c) => TrueOf(c, n)
    <3>1. \A c \in Terms : Over(c)  BY <1>1, TermsOver
    <3> QED  BY <1>2, <1>3, <1>6, <3>1, MatchingIs
  <2>2. n \in Present("trait") /\ index["trait"][n] \in Record /\ index["trait"][n] \in seen[n]
        /\ index["trait"][n] # None /\ SlotOf(n) \in Nat
    BY <1>2, <1>3, Mirrored, Givens DEF SlotOf, Indexes
  <2>3. IF q.sort = "asc" THEN SlotOf(n) \in f.from .. f.from + Span ELSE SlotOf(n) \in f.from - Span .. f.from
    BY <1>6 DEF RangeNames, Between
  <2>4. IF q.sort = "asc" THEN SlotOf(n) >= q.slot ELSE SlotOf(n) <= q.slot
    BY <1>2, <1>5, <2>2, <2>3, Givens
  <2>5. WasAtSlot(n)  BY <2>2, <2>4 DEF WasAtSlot, SlotOf
  <2> QED  BY <2>1, <2>5 DEF Asked
<1> HIDE DEF S, s
<1>7. f.names \o s \in Seq(Name \union {None})
  <2>1. f.names \in Seq(Name \union {None})  BY <1>2 DEF Frame
  <2>2. s \in Seq(Name \union {None})  BY <1>3, <1>4, Wider
  <2> QED  BY <2>1, <2>2
<1>8. NextStart \in Int /\ Folded(NextStart) \in Int
      /\ IF q.sort = "asc" THEN Folded(NextStart) >= q.slot
         ELSE Folded(NextStart) <= q.slot \/ Folded(NextStart) < 0
  <2>1. Span \in Nat \ {0} /\ MaxSlot \in Nat  BY Givens
  <2>2. CASE q.sort = "asc"
    <3>1. f.from <= MaxSlot  BY <1>1, <1>2, <2>1, <2>2 DEF Beyond
    <3>2. NextStart = f.from + Span  BY <2>2 DEF NextStart
    <3> QED  BY <1>2, <1>5, <2>1, <2>2, <3>1, <3>2 DEF Folded
  <2>3. CASE q.sort = "desc"
    <3>1. NextStart = f.from - Span  BY <2>3 DEF NextStart
    <3> QED  BY <1>2, <1>5, <2>1, <2>3, <3>1 DEF Folded
  <2> QED  BY <1>2, <2>2, <2>3
<1>9. f' \in Frame  BY <1>1, <1>2, <1>7, <1>8 DEF Frame
<1>10. f'.names = f.names \o s /\ f'.from = Folded(NextStart)  BY <1>1, <1>2 DEF Frame
<1>11. NamesAsked'
  <2>1. \A i \in DOMAIN f.names : Asked(f.names[i])  BY <1>1, <1>2 DEF NamesAsked, Taken
  <2>2. ASSUME NEW i \in DOMAIN f'.names PROVE Asked(f'.names[i])
    <3>1. f.names \in Seq(Name \union {None})  BY <1>2 DEF Frame
    <3>2. CASE i \in 1 .. Len(f.names)
      <4>1. f'.names[i] = f.names[i]  BY <1>4, <1>10, <3>1, <3>2
      <4> QED  BY <2>1, <3>1, <3>2, <4>1
    <3>3. CASE i \notin 1 .. Len(f.names)
      <4>1. i - Len(f.names) \in DOMAIN s /\ f'.names[i] = s[i - Len(f.names)]
        BY <1>4, <1>10, <2>2, <3>1, <3>3
      <4> QED  BY <1>4, <1>6, <4>1
    <3> QED  BY <3>2, <3>3
  <2> QED  BY <1>1, <1>8, <1>10, <2>2, SamePast DEF NamesAsked
<1> QED  BY <1>1, <1>2, <1>9, <1>11, ListStep DEF Frame

(* The names the ranges gave are cut to a page. *)
LEMMA EndRangeStep == ASSUME QueryInv, EndRange PROVE QueryInv'
<1> DEFINE s == Page(f.names)
<1>1. /\ pc = "range" /\ pc' = "records" /\ UNCHANGED <<scanner, q, seen>>
      /\ f' = [f EXCEPT !.names = s, !.from = 0, !.count = 0]
  BY DEF EndRange, Goes
<1>2. f \in Frame /\ NamesAsked /\ q \in Request /\ q.kind = "search"
  BY <1>1, QueryKinds DEF QueryInv
<1>3. s \in Seq(Name \union {None}) /\ \A i \in DOMAIN s : \E j \in DOMAIN f.names : s[i] = f.names[j]
  <2>1. f.names \in Seq(Name \union {None})  BY <1>2 DEF Frame
  <2> QED  BY <1>2, <2>1, PageHas
<1> HIDE DEF s
<1>4. f' \in Frame /\ f'.names = s
  <2>1. 0 \in Nat /\ 0 \in Int  OBVIOUS
  <2>2. \A y \in Nat, z \in Int : [f EXCEPT !.names = s, !.from = z, !.count = y] \in Frame
    BY <1>2, <1>3, FrameAtList
  <2>3. f' \in Frame  BY <1>1, <2>1, <2>2
  <2> QED  BY <1>1, <1>2, <2>3 DEF Frame
<1>5. NamesAsked'
  <2>1. \A i \in DOMAIN f.names : Asked(f.names[i])  BY <1>1, <1>2 DEF NamesAsked, Taken
  <2> QED  BY <1>1, <1>3, <1>4, <2>1, SamePast DEF NamesAsked
<1> QED  BY <1>1, <1>2, <1>4, <1>5, ListStep DEF Frame

-----------------------------------------------------------------------------
(* After the names. *)
LEMMA AnswerStep ==
  ASSUME QueryInv, UNCHANGED <<scanner, q, seen>>, pc' \in Stages[q.kind],
         pc' \notin DOMAIN Turn \union {"range", "page"}, f' \in Frame,
         q.kind = "search" => \A i \in DOMAIN f'.names : Asked(f'.names[i]),
         RecordsRead', WalletsRead'
  PROVE  QueryInv'
<1>0. StoreInv /\ StageTypes  BY DEF QueryInv
<1>1. pc' \notin Listing /\ pc' # "begin" /\ pc' # "range" /\ pc' # "page"  BY DEF Listing, Turn
<1>2. StageTypes'  BY <1>0, <1>1 DEF StageTypes
<1>3. TermsRead'  BY DEF TermsRead, Over
<1>4. NamesAsked'  BY <1>1, SamePast DEF NamesAsked
<1> QED  BY <1>0, <1>2, <1>3, <1>4, StoreSame DEF QueryInv

(* The steps that leave the names and the records as they are. *)
Final == {"prefer", "status", "done"}

(* A step that keeps the names, the records and the holders read. *)
LEMMA KeptStep ==
  ASSUME QueryInv, UNCHANGED <<scanner, q, seen>>, pc' \in Stages[q.kind],
         pc' \notin DOMAIN Turn \union {"range", "page"}, f' \in Frame,
         f'.names = f.names, f'.recs = f.recs, f'.page = f.page,
         q.kind \in {"search", "handle"} => pc \in Answering,
         q.kind = "holder" => (pc' \in Final => pc \in Final),
         q.kind = "holders" => (pc \in Final => pc' \in Final),
         WalletsRead'
  PROVE  QueryInv'
<1>0. NamesAsked /\ RecordsRead  BY DEF QueryInv
<1>1. q.kind = "search" => \A i \in DOMAIN f'.names : Asked(f'.names[i])
  BY <1>0 DEF NamesAsked, Taken
<1>2. RecordsRead'
  <2>1. q.kind \in {"search", "handle", "holder", "holders"} /\ pc \in Stages[q.kind]  BY QueryKinds
  <2>2. CASE q.kind \in {"search", "handle"}
    BY <1>0, <2>2 DEF RecordsRead, Answering
  <2>3. CASE q.kind = "holder"
    BY <1>0, <2>3, SamePast DEF RecordsRead, Member, Final
  <2>4. CASE q.kind = "holders"
    <3>1. pc' \in Stages["holders"] \ Final => f'.recs = <<>>
      BY <1>0, <2>1, <2>4 DEF RecordsRead, Final
    <3>2. \A i \in DOMAIN f'.names : i \in DOMAIN f'.page /\ (f'.names[i] # None => WasIn(f'.names[i], f'.page[i]))
      BY <1>0, <2>4 DEF RecordsRead
    <3>3. \A i \in DOMAIN f'.recs : i \in DOMAIN f'.names
                                   /\ (f'.recs[i] # None => f'.names[i] # None /\ f'.recs[i] \in seen'[f'.names[i]])
      BY <1>0, <2>4 DEF RecordsRead
    <3> QED  BY <2>4, <3>1, <3>2, <3>3, SamePast DEF RecordsRead, Final
  <2> QED  BY <2>1, <2>2, <2>3, <2>4
<1> QED  BY <1>1, <1>2, AnswerStep

(* The records of the names. *)
LEMMA RecordsStep == ASSUME QueryInv, ReadRecords PROVE QueryInv'
<1> DEFINE s == PageNames
           recs == [i \in DOMAIN s |-> index["handle"][s[i]]]
           todo == {r.wallet : r \in ToSet(recs) \ {None}}
           total == IF Unfiltered \/ q.slot # NoSlot THEN f.total ELSE Cardinality(Matching)
<1>1. /\ pc = "records" /\ pc' \in {"done", "sets", "chosen"} /\ UNCHANGED <<scanner, q, seen>>
      /\ f' = [f EXCEPT !.names = s, !.recs = recs, !.read = <<>>, !.total = total, !.todo = todo]
      /\ pc' = "sets" => q.kind = "handle"
  BY DEF ReadRecords, Goes, Served
<1>2. f \in Frame /\ StoreInv /\ q \in Request /\ q.kind \in {"search", "handle"}
      /\ NamesAsked /\ RecordsRead /\ WalletsRead
  <2>1. q.kind \in {"search", "handle", "holder", "holders"} /\ pc \in Stages[q.kind]  BY QueryKinds
  <2>2. q.kind \in {"search", "handle"}  BY <1>1, <2>1 DEF Stages
  <2> QED  BY <2>2, QueryKinds DEF QueryInv
<1>3. s \in Seq(Name) /\ (q.kind = "search" => \A i \in DOMAIN s : Asked(s[i]))
  <2>1. CASE q.kind = "handle" \/ Unfiltered \/ q.slot # NoSlot
    <3>1. s = f.names /\ s \in Seq(Name \union {None})  BY <1>2, <2>1 DEF PageNames, Frame
    <3>2. q.kind = "search" => \A i \in DOMAIN s : Asked(s[i])
      BY <1>1, <1>2, <2>1, <3>1 DEF NamesAsked, Taken
    <3>3. \A i \in DOMAIN s : s[i] \in Name
      BY <1>1, <1>2, <3>1, <3>2 DEF RecordsRead, Asked
    <3> HIDE DEF s
    <3> QED  BY <3>1, <3>2, <3>3
  <2>2. CASE q.kind = "search" /\ ~Unfiltered /\ q.slot = NoSlot
    <3>1. s = Page(Ordered(Matching, ByName))  BY <2>2 DEF PageNames
    <3>2. Matching \subseteq Name /\ IsFiniteSet(Matching)  BY Finite
    <3>3. Ordered(Matching, ByName) \in Seq(Matching)  BY <3>2, NameOrder, ListOf
    <3>4. s \in Seq(Matching)  BY <1>2, <3>1, <3>3, PageHas
    <3>5. s \in Seq(Name)  BY <3>2, <3>4, Wider
    <3>6. ASSUME NEW i \in DOMAIN s PROVE Asked(s[i])
      <4>1. s[i] \in Matching  BY <3>4
      <4>2. \A c \in Terms : Over(c)  BY <1>1, TermsOver
      <4>3. s[i] \in Name /\ \A c \in Terms : Needed(c) => TrueOf(c, s[i])
        BY <2>2, <4>1, <4>2, MatchingIs
      <4> QED  BY <2>2, <4>3 DEF Asked
    <3> QED  BY <3>5, <3>6
  <2> QED  BY <1>2, <2>1, <2>2
<1> HIDE DEF s
<1>4. DOMAIN s = 1 .. Len(s) /\ Len(s) \in Nat /\ \A i \in DOMAIN s : s[i] \in Name  BY <1>3
<1>5. \A i \in DOMAIN s : index["handle"][s[i]] \in Record \union {None}
                           /\ index["handle"][s[i]] \in seen[s[i]] \union {None}
  BY <1>2, <1>4 DEF StoreInv, StoreTypes, Mirrors, Handles, Indexes
<1>6. recs \in Seq(Record \union {None})
  <2>1. recs \in [1 .. Len(s) -> Record \union {None}]  BY <1>4, <1>5
  <2> QED  BY <1>4, <2>1
<1>7. \A i \in DOMAIN recs : i \in DOMAIN s /\ recs[i] \in seen[s[i]] \union {None}  BY <1>5
<1> HIDE DEF recs
<1>8. todo \in SUBSET Wallet
  <2>1. \A r \in ToSet(recs) : r \in Record \union {None}  BY <1>6 DEF ToSet
  <2> QED  BY <2>1, Givens
<1>9. total \in Nat  BY <1>2, Finite DEF Frame
<1> HIDE DEF todo, total
<1>10. f' \in Frame
  <2>1. s \in Seq(Name \union {None}) /\ <<>> \in Seq(SUBSET (Name \union {None}))  BY <1>3, Wider
  <2> QED  BY <1>1, <1>2, <1>6, <1>8, <1>9, <2>1, FrameAtRecords
<1>11. f'.names = s /\ f'.recs = recs /\ f'.best = f.best /\ f'.sets = f.sets
  BY <1>1, <1>2 DEF Frame
<1>12. RecordsRead'
  <2>1. q.kind = "handle" => \A i \in DOMAIN f'.names : f'.names[i] \in Name  BY <1>4, <1>11
  <2>2. q'.kind \in {"search", "handle"} /\ q'.kind # "holder" /\ q'.kind # "holders"  BY <1>1, <1>2
  <2>3. \A i \in DOMAIN f'.recs : i \in DOMAIN f'.names /\ f'.recs[i] \in seen'[f'.names[i]] \union {None}
    BY <1>1, <1>7, <1>11
  <2> QED  BY <1>1, <2>1, <2>2, <2>3 DEF RecordsRead
<1>13. WalletsRead'  BY <1>1, <1>2, <1>11, SamePast DEF WalletsRead
<1>14. pc' \in Stages[q.kind] /\ pc' \notin DOMAIN Turn \union {"range", "page"}
  BY <1>1, <1>2 DEF Stages, Turn
<1> QED  BY <1>1, <1>3, <1>10, <1>11, <1>12, <1>13, <1>14, AnswerStep

(* The default handles. *)
LEMMA ChosenStep == ASSUME QueryInv, ReadChosen PROVE QueryInv'
<1>1. PICK p \in Picks(f.todo) : f' = [f EXCEPT !.best = p, !.todo = {w \in f.todo : p[w] = None}]
  BY DEF ReadChosen
<1>2. /\ pc = "chosen" /\ UNCHANGED <<scanner, q, seen>>
      /\ pc' = CASE q.kind = "search" -> "sets"
                 [] q.kind = "handle" -> "prefer"
                 [] q.kind = "holder" -> "first"
                 [] q.kind = "holders" -> "scores"
  BY DEF ReadChosen, Goes, Served
<1>3. f \in Frame /\ StoreInv /\ q.kind \in {"search", "handle", "holder", "holders"} /\ WalletsRead
  BY QueryKinds DEF QueryInv
<1>4. p \in [Wallet -> Name \union {None}]
      /\ \A w \in Wallet : p[w] # None => p[w] \in ChosenIn(w)
  BY DEF Picks
<1>5. {w \in f.todo : p[w] = None} \in SUBSET Wallet  BY <1>3 DEF Frame
<1>6. f' \in Frame  BY <1>1, <1>3, <1>4, <1>5, FrameAtWallets
<1>7. f'.names = f.names /\ f'.recs = f.recs /\ f'.page = f.page /\ f'.best = p /\ f'.sets = f.sets
  BY <1>1, <1>3 DEF Frame
<1>8. WalletsRead'
  <2>1. \A w \in Wallet : p[w] # None => WasIn(p[w], w)  BY <1>3, <1>4, HeldThen DEF ChosenIn
  <2> QED  BY <1>2, <1>3, <1>7, <2>1, SamePast DEF WalletsRead
<1>9. pc' \in Stages[q.kind] /\ pc' \notin DOMAIN Turn \union {"range", "page"} /\ pc \notin Final
      /\ (q.kind = "holder" => pc' \notin Final) /\ pc \in Answering
  BY <1>2, <1>3 DEF Stages, Turn, Final, Answering
<1> QED  BY <1>2, <1>6, <1>7, <1>8, <1>9, KeptStep

(* The lists of the holders whose default is to be computed. *)
LEMMA SetsStep == ASSUME QueryInv, ReadSets PROVE QueryInv'
<1> DEFINE sets == [w \in Wallet |-> IF w \in Computed THEN InWallet(w) ELSE {}]
<1>1. /\ pc = "sets" /\ UNCHANGED <<scanner, q, seen>>
      /\ f' = [f EXCEPT !.sets = sets, !.todo = Computed]
      /\ pc' = CASE q.kind = "search" -> "prefer"
                 [] q.kind = "handle" -> "chosen"
                 [] q.kind = "holders" -> "firsts"
  BY DEF ReadSets, Goes, Served
<1>2. f \in Frame /\ StoreInv /\ WalletsRead /\ q.kind \in {"search", "handle", "holders"}
  <2>1. q.kind \in {"search", "handle", "holder", "holders"} /\ pc \in Stages[q.kind]  BY QueryKinds
  <2>2. q.kind # "holder"  BY <1>1, <2>1 DEF Stages
  <2> QED  BY <2>1, <2>2, QueryKinds DEF QueryInv
<1>3. sets \in [Wallet -> SUBSET Name] /\ \A w \in Wallet : \A n \in sets[w] : WasIn(n, w)
  BY <1>2, Finite, HeldThen
<1>4. Computed \in SUBSET Wallet  BY <1>2 DEF Computed, Frame
<1> HIDE DEF sets
<1>5. f' \in Frame  BY <1>1, <1>2, <1>3, <1>4, FrameAtWallets
<1>6. f'.names = f.names /\ f'.recs = f.recs /\ f'.page = f.page /\ f'.best = f.best /\ f'.sets = sets
  BY <1>1, <1>2 DEF Frame
<1>7. WalletsRead'  BY <1>1, <1>2, <1>3, <1>6, SamePast DEF WalletsRead
<1>8. pc' \in Stages[q.kind] /\ pc' \notin DOMAIN Turn \union {"range", "page"} /\ pc \notin Final
      /\ pc \in Answering
  BY <1>1, <1>2 DEF Stages, Turn, Final, Answering
<1> QED  BY <1>1, <1>2, <1>5, <1>6, <1>7, <1>8, KeptStep

(* One default is computed. *)
LEMMA PreferStep == ASSUME QueryInv, NEW w \in Wallet, Prefer(w) PROVE QueryInv'
<1>1. PICK n \in Candidates(f.sets[w]) :
        f' = [f EXCEPT !.best[w] = IF n # None THEN n ELSE f.best[w], !.todo = f.todo \ {w}, !.sets[w] = {}]
  BY DEF Prefer
<1>2. pc = "prefer" /\ pc' = "prefer" /\ UNCHANGED <<scanner, q, seen>>  BY DEF Prefer, Goes, Served
<1>3. f \in Frame /\ WalletsRead /\ q.kind \in {"search", "handle", "holder", "holders"}
  BY QueryKinds DEF QueryInv
<1> DEFINE best == [f.best EXCEPT ![w] = IF n # None THEN n ELSE f.best[w]]
           sets == [f.sets EXCEPT ![w] = {}]
<1>4. f.best \in [Wallet -> Name \union {None}] /\ f.sets \in [Wallet -> SUBSET Name] /\ f.todo \in SUBSET Wallet
  BY <1>3 DEF Frame
<1>5. n = None \/ n \in f.sets[w]  BY <1>4, CandidatesAre
<1>6. best \in [Wallet -> Name \union {None}] /\ sets \in [Wallet -> SUBSET Name]
      /\ \A v \in Wallet : /\ best[v] # None => WasIn(best[v], v)
                           /\ \A m \in sets[v] : WasIn(m, v)
  BY <1>3, <1>4, <1>5 DEF WalletsRead
<1>7. f' = [f EXCEPT !.best = best, !.todo = f.todo \ {w}, !.sets = sets]  BY <1>1, <1>3 DEF Frame
<1> HIDE DEF best, sets
<1>8. f.todo \ {w} \in SUBSET Wallet  BY <1>4
<1>9. f' \in Frame  BY <1>3, <1>6, <1>7, <1>8, FrameAtWallets
<1>10. f'.names = f.names /\ f'.recs = f.recs /\ f'.page = f.page /\ f'.best = best /\ f'.sets = sets
  BY <1>3, <1>7 DEF Frame
<1>11. WalletsRead'  BY <1>2, <1>6, <1>10, SamePast DEF WalletsRead
<1>12. pc' \in Stages[q.kind] /\ pc' \notin DOMAIN Turn \union {"range", "page"} /\ pc' \in Final
       /\ pc \in Final /\ pc \in Answering
  BY <1>2, <1>3 DEF Stages, Turn, Final, Answering
<1> QED  BY <1>2, <1>9, <1>10, <1>11, <1>12, KeptStep

(* The defaults are all there; the status is read. *)
LEMMA EndSteps == ASSUME QueryInv, EndPrefer \/ ReadStatus PROVE QueryInv'
<1>1. /\ pc \in {"prefer", "status"} /\ pc' \in {"status", "done"} /\ UNCHANGED <<scanner, q, seen>>
      /\ f' = f \/ f' = [f EXCEPT !.sets = Fresh.sets]
  BY DEF EndPrefer, ReadStatus, Goes
<1>2. f \in Frame /\ WalletsRead /\ q.kind \in {"search", "handle", "holder", "holders"}
  BY QueryKinds DEF QueryInv
<1>3. Fresh.sets \in [Wallet -> SUBSET Name] /\ \A w \in Wallet : Fresh.sets[w] = {}  BY DEF Fresh
<1>4. f' \in Frame /\ f'.sets \in {f.sets, Fresh.sets}
      /\ f'.names = f.names /\ f'.recs = f.recs /\ f'.page = f.page /\ f'.best = f.best
  BY <1>1, <1>2, <1>3 DEF Frame
<1>5. WalletsRead'  BY <1>1, <1>2, <1>3, <1>4, SamePast DEF WalletsRead
<1>6. pc' \in Stages[q.kind] /\ pc' \notin DOMAIN Turn \union {"range", "page"} /\ pc' \in Final
       /\ pc \in Final /\ pc \in Answering
  BY <1>1, <1>2 DEF Stages, Turn, Final, Answering
<1> QED  BY <1>1, <1>4, <1>5, <1>6, KeptStep

(* The list of holders. *)
LEMMA PageStep == ASSUME QueryInv, ReadPage PROVE QueryInv'
<1> DEFINE held == {w \in Wallet : InWallet(w) # {}}
           page == Page(Ordered(held, ByCount))
<1>1. /\ pc = "page" /\ pc' = "chosen" /\ UNCHANGED <<scanner, q, seen>>
      /\ f' = [f EXCEPT !.page = page, !.todo = ToSet(page)]
  BY DEF ReadPage, Goes, Served
<1>2. f \in Frame /\ WalletsRead /\ q.kind = "holders" /\ q \in Request /\ f.names = <<>> /\ f.recs = <<>>
  <2>1. q.kind \in {"search", "handle", "holder", "holders"} /\ pc \in Stages[q.kind]  BY QueryKinds
  <2>2. q.kind = "holders"  BY <1>1, <2>1 DEF Stages, Turn
  <2>3. f.recs = <<>>  BY <1>1, <2>2 DEF QueryInv, RecordsRead, Stages
  <2> QED  BY <1>1, <2>2, <2>3, QueryKinds DEF QueryInv, StageTypes
<1>3. page \in Seq(Wallet)
  <2>1. held \subseteq Wallet /\ IsFiniteSet(held)  BY Finite
  <2>2. Ordered(held, ByCount) \in Seq(held)  BY <2>1, CountOrder, ListOf
  <2>3. page \in Seq(held)  BY <1>2, <2>2, PageHas
  <2> QED  BY <2>1, <2>3, Wider
<1> HIDE DEF page
<1>4. ToSet(page) \in SUBSET Wallet  BY <1>3 DEF ToSet
<1>5. f' \in Frame  BY <1>1, <1>2, <1>3, <1>4, FrameAtWallets
<1>6. f'.names = <<>> /\ f'.recs = <<>> /\ f'.best = f.best /\ f'.sets = f.sets
  BY <1>1, <1>2 DEF Frame
<1>7. RecordsRead'  BY <1>1, <1>2, <1>6 DEF RecordsRead
<1>8. WalletsRead'  BY <1>1, <1>2, <1>6, SamePast DEF WalletsRead
<1> QED  BY <1>1, <1>2, <1>5, <1>7, <1>8, AnswerStep DEF Stages, Turn

(* The counts of the holders on the page. *)
LEMMA ScoresStep == ASSUME QueryInv, ReadScores PROVE QueryInv'
<1> DEFINE scores == [w \in Wallet |-> IF w \in ToSet(f.page) THEN Cardinality(InWallet(w)) ELSE 0]
<1>1. /\ pc = "scores" /\ pc' = "heads" /\ UNCHANGED <<scanner, q, seen>>
      /\ f' = [f EXCEPT !.scores = scores]
  BY DEF ReadScores, Goes, Served
<1>2. f \in Frame /\ WalletsRead /\ q.kind = "holders"
  <2>1. q.kind \in {"search", "handle", "holder", "holders"} /\ pc \in Stages[q.kind]  BY QueryKinds
  <2>2. q.kind = "holders"  BY <1>1, <2>1 DEF Stages, Turn
  <2> QED  BY <2>2, QueryKinds DEF QueryInv
<1>3. scores \in [Wallet -> Nat]  BY Finite
<1> HIDE DEF scores
<1>4. f' \in Frame /\ f'.names = f.names /\ f'.recs = f.recs /\ f'.page = f.page /\ f'.best = f.best /\ f'.sets = f.sets
  BY <1>1, <1>2, <1>3 DEF Frame
<1>5. WalletsRead'  BY <1>1, <1>2, <1>4, SamePast DEF WalletsRead
<1> QED  BY <1>1, <1>2, <1>4, <1>5, KeptStep DEF Stages, Turn, Final

(* The first handle and the chosen one of every holder on the page. *)
LEMMA HeadsStep == ASSUME QueryInv, ReadHeads PROVE QueryInv'
<1> DEFINE s == Heads
<1>1. /\ pc = "heads" /\ pc' = "sets" /\ UNCHANGED <<scanner, q, seen>>
      /\ f' = [f EXCEPT !.names = s]
  BY DEF ReadHeads, Goes, Served
<1>2. f \in Frame /\ StoreInv /\ WalletsRead /\ q.kind = "holders" /\ f.recs = <<>>
  <2>1. q.kind \in {"search", "handle", "holder", "holders"} /\ pc \in Stages[q.kind]  BY QueryKinds
  <2>2. q.kind = "holders"  BY <1>1, <2>1 DEF Stages, Turn
  <2>3. f.recs = <<>>  BY <1>1, <2>2 DEF QueryInv, RecordsRead, Stages
  <2> QED  BY <2>2, <2>3, QueryKinds DEF QueryInv
<1>3. DOMAIN s = DOMAIN f.page /\ DOMAIN f.page = 1 .. Len(f.page) /\ Len(f.page) \in Nat
  BY <1>2 DEF Heads, Frame
<1>4. ASSUME NEW i \in DOMAIN f.page
      PROVE  s[i] \in Name \union {None} /\ (s[i] # None => WasIn(s[i], f.page[i]))
  <2> DEFINE S == InWallet(f.page[i])
  <2>1. s[i] = IF S = {} THEN None ELSE CHOOSE n \in S : \A m \in S : n <= m  BY <1>4 DEF Heads
  <2>2. S \subseteq Name /\ S \subseteq Nat  BY Finite, Givens
  <2>3. \A n \in S : WasIn(n, f.page[i])  BY <1>2, HeldThen
  <2> HIDE DEF S, s
  <2>4. S # {} => \E n \in S : \A m \in S : n <= m  BY <2>2, LeastOf
  <2>5. s[i] = None \/ s[i] \in S  BY <2>1, <2>4
  <2> QED  BY <2>2, <2>3, <2>5
<1> HIDE DEF s
<1>5. s \in Seq(Name \union {None})
  <2>1. DOMAIN s = 1 .. Len(f.page) /\ \A i \in DOMAIN s : s[i] \in Name \union {None}  BY <1>3, <1>4
  <2>2. s = [i \in 1 .. Len(f.page) |-> s[i]]  BY <1>3, <2>1 DEF s, Heads
  <2>3. s \in [1 .. Len(f.page) -> Name \union {None}]  BY <2>1, <2>2
  <2> QED  BY <1>3, <2>3
<1>6. f' \in Frame /\ f'.names = s /\ f'.recs = <<>> /\ f'.page = f.page /\ f'.best = f.best /\ f'.sets = f.sets
  BY <1>1, <1>2, <1>5 DEF Frame
<1>7. RecordsRead'  BY <1>1, <1>2, <1>3, <1>4, <1>6, SamePast DEF RecordsRead
<1>8. WalletsRead'  BY <1>1, <1>2, <1>6, SamePast DEF WalletsRead
<1> QED  BY <1>1, <1>2, <1>6, <1>7, <1>8, AnswerStep DEF Stages, Turn

(* The defaults of the holders that chose none. *)
LEMMA FirstsStep == ASSUME QueryInv, ReadFirsts PROVE QueryInv'
<1> DEFINE recs == [i \in DOMAIN f.names |-> IF f.names[i] = None THEN None
                                            ELSE index["handle"][f.names[i]]]
<1>1. /\ pc = "firsts" /\ pc' = "prefer" /\ UNCHANGED <<scanner, q, seen>>
      /\ f' = [f EXCEPT !.recs = recs]
  BY DEF ReadFirsts, Goes, Served
<1>2. f \in Frame /\ StoreInv /\ WalletsRead /\ q.kind = "holders" /\ RecordsRead
  <2>1. q.kind \in {"search", "handle", "holder", "holders"} /\ pc \in Stages[q.kind]  BY QueryKinds
  <2>2. q.kind = "holders"  BY <1>1, <2>1 DEF Stages, Turn
  <2> QED  BY <2>2, QueryKinds DEF QueryInv
<1>3. f.names \in Seq(Name \union {None}) /\ DOMAIN f.names = 1 .. Len(f.names) /\ Len(f.names) \in Nat
  BY <1>2 DEF Frame
<1>4. \A i \in DOMAIN f.names : f.names[i] # None => index["handle"][f.names[i]] \in Record \union {None}
  BY <1>2, <1>3 DEF StoreInv, StoreTypes, Handles, Indexes
<1>5. recs \in [1 .. Len(f.names) -> Record \union {None}]  BY <1>3, <1>4
<1>6. recs \in Seq(Record \union {None})  BY <1>3, <1>5
<1>7. ASSUME NEW i \in DOMAIN recs
      PROVE  i \in DOMAIN f.names /\ (recs[i] # None => f.names[i] # None /\ recs[i] \in seen[f.names[i]])
  <2>1. i \in DOMAIN f.names /\ (recs[i] # None => f.names[i] # None /\ recs[i] = index["handle"][f.names[i]])
    OBVIOUS
  <2>2. f.names[i] # None => f.names[i] \in Name  BY <1>3, <2>1
  <2>3. ASSUME recs[i] # None PROVE recs[i] \in seen[f.names[i]]
    <3>1. f.names[i] \in Present("handle")  BY <2>1, <2>2, <2>3 DEF Present
    <3> QED  BY <1>2, <2>1, <2>3, <3>1, Mirrored DEF Indexes
  <2> QED  BY <2>1, <2>3
<1> HIDE DEF recs
<1>8. f' \in Frame /\ f'.names = f.names /\ f'.recs = recs /\ f'.page = f.page /\ f'.best = f.best /\ f'.sets = f.sets
  BY <1>1, <1>2, <1>6 DEF Frame
<1>9. RecordsRead'
  <2>1. \A i \in DOMAIN f.names : i \in DOMAIN f.page /\ (f.names[i] # None => WasIn(f.names[i], f.page[i]))
    BY <1>2 DEF RecordsRead
  <2> QED  BY <1>1, <1>2, <1>7, <1>8, <2>1, SamePast DEF RecordsRead
<1>10. WalletsRead'  BY <1>1, <1>2, <1>8, SamePast DEF WalletsRead
<1> QED  BY <1>1, <1>2, <1>8, <1>9, <1>10, AnswerStep DEF Stages, Turn

(* One holder. *)
LEMMA MembersStep == ASSUME QueryInv, ReadMembers PROVE QueryInv'
<1>1. /\ pc = "members" /\ pc' = "chosen" /\ UNCHANGED <<scanner, q, seen>>
      /\ f' = [f EXCEPT !.sets[q.wallet] = InWallet(q.wallet), !.todo = {q.wallet},
                        !.total = Cardinality(InWallet(q.wallet))]
  BY DEF ReadMembers, Goes, Served
<1>2. f \in Frame /\ StoreInv /\ WalletsRead /\ q.kind = "holder" /\ q.wallet \in Wallet
  <2>1. q.kind \in {"search", "handle", "holder", "holders"} /\ pc \in Stages[q.kind]  BY QueryKinds
  <2>2. q.kind = "holder"  BY <1>1, <2>1 DEF Stages, Turn
  <2> QED  BY <2>2, QueryKinds DEF QueryInv
<1> DEFINE sets == [f.sets EXCEPT ![q.wallet] = InWallet(q.wallet)]
           total == Cardinality(InWallet(q.wallet))
<1>3. sets \in [Wallet -> SUBSET Name] /\ \A w \in Wallet : \A n \in sets[w] : WasIn(n, w)
  <2>1. InWallet(q.wallet) \subseteq Name /\ \A n \in InWallet(q.wallet) : WasIn(n, q.wallet)
    BY <1>2, Finite, HeldThen
  <2>2. f.sets \in [Wallet -> SUBSET Name]  BY <1>2 DEF Frame
  <2> QED  BY <1>2, <2>1, <2>2 DEF WalletsRead
<1>4. total \in Nat  BY Finite
<1>5. f' = [f EXCEPT !.sets = sets, !.todo = {q.wallet}, !.total = total]  BY <1>1, <1>2 DEF Frame
<1> HIDE DEF sets, total
<1>6. {q.wallet} \in SUBSET Wallet  BY <1>2
<1>7. f' \in Frame  BY <1>2, <1>3, <1>4, <1>5, <1>6, FrameAtWallets
<1>8. f'.names = f.names /\ f'.recs = f.recs /\ f'.page = f.page /\ f'.best = f.best /\ f'.sets = sets
  BY <1>2, <1>5 DEF Frame
<1>9. WalletsRead'  BY <1>1, <1>2, <1>3, <1>8, SamePast DEF WalletsRead
<1> QED  BY <1>1, <1>2, <1>7, <1>8, <1>9, KeptStep DEF Stages, Turn, Final

(* The same for the one holder that is asked for. *)
LEMMA FirstStep == ASSUME QueryInv, ReadFirst PROVE QueryInv'
<1>1. pc = "first" /\ UNCHANGED <<scanner, q, seen>> /\ pc' \in {"done", "prefer"}
  BY DEF ReadFirst, Goes, Served
<1>2. f \in Frame /\ StoreInv /\ WalletsRead /\ q.kind = "holder" /\ q.wallet \in Wallet
  <2>1. q.kind \in {"search", "handle", "holder", "holders"} /\ pc \in Stages[q.kind]  BY QueryKinds
  <2>2. q.kind = "holder"  BY <1>1, <2>1 DEF Stages, Turn
  <2> QED  BY <2>2, QueryKinds DEF QueryInv
<1>3. PICK n \in IF f.sets[q.wallet] = {} THEN {None} ELSE f.sets[q.wallet] :
        f' = [f EXCEPT !.names = <<None>>, !.recs = <<IF n = None THEN None ELSE index["handle"][n]>>]
  BY DEF ReadFirst
<1> DEFINE rec == IF n = None THEN None ELSE index["handle"][n]
           T == Name \union {None}
           R == Record \union {None}
<1>4. n \in T  BY <1>2, <1>3 DEF Frame
<1>5. rec \in R  BY <1>2, <1>4 DEF StoreInv, StoreTypes, Handles, Indexes
<1>6. None \in T  OBVIOUS
<1>7. f' = [f EXCEPT !.names = <<None>>, !.recs = <<rec>>]  BY <1>3
<1>8. <<None>> \in Seq(T) /\ <<rec>> \in Seq(R)
  <2> HIDE DEF T, R, rec
  <2> QED  BY <1>5, <1>6
<1> HIDE DEF rec
<1>9. f' \in Frame /\ f'.names = <<None>> /\ f'.recs = <<rec>> /\ f'.best = f.best /\ f'.sets = f.sets
  <2>1. f' \in Frame  BY <1>2, <1>7, <1>8, FrameAtRecords
  <2> QED  BY <1>2, <1>7, <2>1 DEF Frame
<1>10. rec # None => Member(rec, q.wallet)
  <2> SUFFICES ASSUME rec # None PROVE Member(rec, q.wallet)  OBVIOUS
  <2>1. n # None /\ rec = index["handle"][n]  BY DEF rec
  <2>2. n \in Name /\ n \in f.sets[q.wallet]  BY <1>3, <1>4, <2>1
  <2>3. rec \in seen[n]
    <3>1. n \in Present("handle")  BY <2>1, <2>2 DEF Present
    <3> QED  BY <1>2, <2>1, <3>1, Mirrored DEF Indexes
  <2>4. WasIn(n, q.wallet)  BY <1>2, <2>2 DEF WalletsRead
  <2> QED  BY <2>2, <2>3, <2>4 DEF Member
<1>11. RecordsRead'
  <2>1. DOMAIN f'.recs = {1} /\ DOMAIN f'.names = {1} /\ f'.recs[1] = rec /\ f'.names[1] = None  BY <1>9
  <2> QED  BY <1>1, <1>2, <1>10, <2>1, SamePast DEF RecordsRead, Member
<1>12. WalletsRead'  BY <1>1, <1>2, <1>9, SamePast DEF WalletsRead
<1> QED  BY <1>1, <1>2, <1>9, <1>11, <1>12, AnswerStep DEF Stages, Turn

-----------------------------------------------------------------------------

(* Every step of the request keeps the invariant. *)
LEMMA RequestStep == ASSUME QueryInv, Reader PROVE QueryInv'
BY BeginStep, TermSteps, TotalStep, NamesStep, BoundsStep, RangeStep, EndRangeStep, RecordsStep,
   ChosenStep, SetsStep, PreferStep, EndSteps, PageStep, ScoresStep, HeadsStep, FirstsStep,
   MembersStep, FirstStep
   DEF Reader

(***************************************************************************)
(* What a request has read was so: every name it goes on with matches the  *)
(* terms read, every record, default handle and member is one of the       *)
(* handle or wallet since the request came, whatever the scanner writes    *)
(* between two calls.                                                      *)
(***************************************************************************)
THEOREM QueryInvariant == QuerySpec => []QueryInv
<1>1. ASSUME QueryInv, UNCHANGED queryVars PROVE QueryInv'
  <2>1. StoreInv'  BY <1>1, StoreSame DEF queryVars, QueryInv
  <2> QED  BY <1>1, <2>1, PastKept DEF queryVars
<1>2. ASSUME QueryInv, [QueryNext]_queryVars PROVE QueryInv'
  BY <1>1, <1>2, RequestStep, ScannerStep DEF QueryNext
<1> QED  BY <1>2, QueryInitInv, PTL DEF QuerySpec

(* Properties of the answer: a record sent is one the handle had, and the  *)
(* handle matched, since the request came.                                 *)
THEOREM QueriesTrue == QuerySpec => []AnswersWereTrue
<1>1. ASSUME QueryInv PROVE AnswersWereTrue
  <2> SUFFICES ASSUME Done, q.kind = "search", NEW i \in Sent
      PROVE  LET had == seen[f.names[i]] \ {None}
             IN /\ f.recs[i] \in had
                /\ q.length # 0 => Length[f.names[i]] = q.length
                /\ q.wallet # None => \E r \in had : r.wallet = q.wallet
                /\ q.by # None => \E r \in had : r.wallet = q.by
                /\ q.term # None => f.names[i] \in InText[q.term] \union InHex[q.term]
                /\ q.slot # NoSlot => \E r \in had : IF q.sort = "asc" THEN r.slot >= q.slot
                                                    ELSE r.slot <= q.slot
    BY DEF AnswersWereTrue
  <2>1. pc = "done" /\ pc \in Answering /\ i \in DOMAIN f.recs /\ f.recs[i] # None
    BY DEF Done, Sent, Answering
  <2>2. i \in DOMAIN f.names /\ f.recs[i] \in seen[f.names[i]] \union {None}
    BY <1>1, <2>1 DEF QueryInv, RecordsRead
  <2>3. Asked(f.names[i])  BY <1>1, <2>1, <2>2 DEF QueryInv, NamesAsked, Taken
  <2> DEFINE n == f.names[i]
             had == seen[n] \ {None}
  <2>4. q.length # 0 => Length[n] = q.length
    <3>1. q.length # 0 => Needed("length") /\ "length" \in Terms  BY DEF Needed, Terms
    <3> QED  BY <2>3, <3>1 DEF Asked, TrueOf
  <2>5. q.wallet # None => \E r \in had : r.wallet = q.wallet
    <3>1. q.wallet # None => Needed("wallet") /\ "wallet" \in Terms  BY DEF Needed, Terms
    <3> QED  BY <2>3, <3>1 DEF Asked, TrueOf, WasIn
  <2>6. q.by # None => \E r \in had : r.wallet = q.by
    <3>1. q.by # None => Needed("list") /\ "list" \in Terms  BY DEF Needed, Terms
    <3> QED  BY <2>3, <3>1 DEF Asked, TrueOf, WasIn
  <2>7. q.term # None => n \in InText[q.term] \union InHex[q.term]
    <3>1. q.term # None => Needed("hexes") /\ "hexes" \in Terms  BY DEF Needed, Terms
    <3> QED  BY <2>3, <3>1 DEF Asked, TrueOf
  <2>8. q.slot # NoSlot => \E r \in had : IF q.sort = "asc" THEN r.slot >= q.slot ELSE r.slot <= q.slot
    BY <2>3 DEF Asked, WasAtSlot
  <2> QED  BY <2>1, <2>2, <2>4, <2>5, <2>6, <2>7, <2>8
<1> QED  BY <1>1, QueryInvariant, PTL

(* The default handle of an entry was in the wallet it was looked up for,  *)
(* and a wallet named beside it that is another one is one that a handle   *)
(* of the wallet asked for went to.                                        *)
THEOREM DefaultsHeld == QuerySpec => []DefaultWasHeld
<1>1. ASSUME QueryInv PROVE DefaultWasHeld
  <2> SUFFICES ASSUME Done, NEW i \in Sent
      PROVE  /\ (q.kind = "holder" /\ DefaultOf(i) = None) \/ WasIn(DefaultOf(i), AskedFor(i))
             /\ ShownFor(i) # AskedFor(i) => Member(f.recs[i], AskedFor(i))
    <3>1. ASSUME NEW j \in Sent, Member(f.recs[j], AskedFor(j))
          PROVE  \E n \in Name : \E r, s \in seen[n] \ {None} :
                    r.wallet = AskedFor(j) /\ s.wallet = ShownFor(j)
      <4>1. PICK n \in Name : WasIn(n, AskedFor(j)) /\ f.recs[j] \in seen[n]  BY <3>1 DEF Member
      <4>2. PICK r \in seen[n] : r # None /\ r.wallet = AskedFor(j)  BY <4>1 DEF WasIn
      <4>3. f.recs[j] \in seen[n] \ {None} /\ r \in seen[n] \ {None}  BY <4>1, <4>2 DEF Sent
      <4> QED  BY <4>2, <4>3 DEF ShownFor
    <3>2. \A j : WasIn(DefaultOf(j), AskedFor(j)) =>
                  \E r \in seen[DefaultOf(j)] \ {None} : r.wallet = AskedFor(j)
      BY DEF WasIn
    <3> QED  BY <3>1, <3>2 DEF DefaultWasHeld
  <2>1. /\ pc = "done" /\ pc \in Answering /\ i \in DOMAIN f.recs /\ f.recs[i] # None
        /\ RecordsRead /\ WalletsRead /\ NamesAsked /\ StoreInv
        /\ f \in Frame /\ q.kind \in {"search", "handle", "holder", "holders"}
        /\ q.kind = "holder" => q.wallet \in Wallet
    BY <1>1, QueryKinds DEF Done, Sent, Answering, QueryInv
  <2>2. f.recs \in Seq(Record \union {None}) /\ f.page \in Seq(Wallet)  BY <2>1 DEF Frame
  <2>3. CASE q.kind \in {"search", "handle"}
    <3>1. i \in DOMAIN f.names /\ f.recs[i] \in seen[f.names[i]] \union {None}
      BY <2>1, <2>3 DEF RecordsRead
    <3>2. f.recs[i] \in Record /\ f.recs[i].wallet \in Wallet  BY <2>1, <2>2, Givens
    <3>3. f.names[i] \in Name  BY <2>1, <2>3, <3>1 DEF RecordsRead, NamesAsked, Taken, Asked
    <3>4. WasIn(f.names[i], f.recs[i].wallet)  BY <2>1, <3>1, <3>3 DEF WasIn
    <3>5. AskedFor(i) = f.recs[i].wallet  BY <2>3 DEF AskedFor
    <3>6. WasIn(DefaultOf(i), AskedFor(i))  BY <2>1, <3>2, <3>4, <3>5 DEF DefaultOf, WalletsRead
    <3> QED  BY <3>5, <3>6 DEF ShownFor
  <2>4. CASE q.kind = "holder"
    <3>1. i \in DOMAIN f.names /\ f.names[i] = None /\ Member(f.recs[i], q.wallet)
      BY <2>1, <2>4 DEF RecordsRead
    <3>2. AskedFor(i) = q.wallet /\ q.wallet \in Wallet  BY <2>1, <2>4 DEF AskedFor
    <3>3. DefaultOf(i) = None \/ WasIn(DefaultOf(i), AskedFor(i))
      BY <2>1, <3>1, <3>2 DEF DefaultOf, WalletsRead
    <3> QED  BY <2>4, <3>1, <3>2, <3>3
  <2>5. CASE q.kind = "holders"
    <3>1. i \in DOMAIN f.names /\ f.names[i] # None /\ f.recs[i] \in seen[f.names[i]]
      BY <2>1, <2>5 DEF RecordsRead
    <3>2. i \in DOMAIN f.page /\ WasIn(f.names[i], f.page[i])  BY <2>1, <2>5, <3>1 DEF RecordsRead
    <3>3. AskedFor(i) = f.page[i] /\ f.page[i] \in Wallet  BY <2>2, <2>5, <3>2 DEF AskedFor
    <3>4. WasIn(DefaultOf(i), AskedFor(i))  BY <2>1, <3>2, <3>3 DEF DefaultOf, WalletsRead
    <3>5. Member(f.recs[i], AskedFor(i))  BY <3>1, <3>2, <3>3 DEF Member, WasIn
    <3> QED  BY <3>4, <3>5
  <2> QED  BY <2>1, <2>3, <2>4, <2>5
<1> QED  BY <1>1, QueryInvariant, PTL

-----------------------------------------------------------------------------
(***************************************************************************)
(* Where nothing was written under the request and every index it read was *)
(* whole, what it has read is the handles as they are.                     *)
(***************************************************************************)
Suits(c, n) ==
    CASE c = "list" -> Held(n) /\ truth[n].wallet = q.by
      [] c = "length" -> Held(n) /\ Length[n] = q.length
      [] c = "wallet" -> Held(n) /\ truth[n].wallet = q.wallet
      [] c = "keys" -> Held(n)
      [] c = "hexes" -> n \in InText[q.term] \union InHex[q.term]
AllTerms == Terms \union {"keys"}
Fitting == {n \in Name : \A c \in AllTerms : Needed(c) /\ Over(c) => Suits(c, n)}

SearchExact == q.kind = "search" =>
    /\ pc \in DOMAIN Turn \union {"range"} => Matching = Fitting
    /\ pc = "names" \/ Taken => f.total = Cardinality(Wanted)
    /\ Taken => /\ \A i \in DOMAIN f.names : f.names[i] \in Wanted
                /\ q.slot = NoSlot => f.names = Page(Ordered(Wanted, ByName))

RecordsExact == q.kind \in {"search", "handle"} /\ pc \in Answering =>
    DOMAIN f.recs = DOMAIN f.names /\ \A i \in DOMAIN f.names : f.recs[i] = truth[f.names[i]]

HandleExact == q.kind = "handle" =>
    /\ pc # "begin" => f.names = <<q.name>>
    /\ pc \in Answering \ {"done"} => Held(q.name)
    /\ pc = "done" => (status = 404 <=> ~Held(q.name))

MemberRead == f.recs[1] # None /\ f.recs[1].wallet = q.wallet
HolderExact == q.kind = "holder" =>
    /\ pc \notin {"begin", "members"} => f.total = Cardinality(Purse(q.wallet))
    /\ pc \in {"chosen", "first"} => f.sets[q.wallet] = Purse(q.wallet)
    /\ pc \in Final => DOMAIN f.recs = {1} /\ DOMAIN f.names = {1}
    /\ pc \in {"prefer", "status"} => Purse(q.wallet) # {} /\ MemberRead
    /\ pc = "done" => /\ status = 404 <=> Purse(q.wallet) = {}
                      /\ status # 404 => MemberRead

Holding == {w \in Wallet : Purse(w) # {}}
ByPurse == {p \in Wallet \X Wallet :
               Sorted(Cardinality(Purse(p[1])), Cardinality(Purse(p[2])), p[1], p[2])}
HoldersExact == q.kind = "holders" =>
    /\ pc \notin {"begin", "page"} => f.page = Page(Ordered(Holding, ByPurse))
    /\ pc \in {"heads", "sets", "firsts"} \union Final =>
          \A w \in Wallet : f.scores[w] = IF w \in ToSet(f.page) THEN Cardinality(Purse(w)) ELSE 0
    /\ pc \in {"sets", "firsts"} \union Final =>
          DOMAIN f.names = DOMAIN f.page /\ \A i \in DOMAIN f.page : f.names[i] \in Purse(f.page[i])
    /\ pc \in Final =>
          DOMAIN f.recs = DOMAIN f.names /\ \A i \in DOMAIN f.names : f.recs[i] = truth[f.names[i]]

(* The wallets of the answer: their default is right, or not worked out    *)
(* yet, or the head of the list stands for it.                             *)
Shown == CASE q.kind = "holder" -> {q.wallet}
           [] q.kind = "holders" -> ToSet(f.page)
           [] OTHER -> {f.recs[i].wallet : i \in Sent}
Resolved(w) == RightDefault(f.best[w], w) /\ w \notin f.todo
Unchosen(w) == w \in f.todo /\ Favourites(w) = {} /\ f.best[w] = None
Headed(w) == /\ q.kind = "holders" /\ Favourites(w) = {} /\ f.best[w] = None
             /\ Cardinality(Purse(w)) \notin 2..Big /\ w \notin f.todo

DefaultsExact == \A w \in Shown :
    /\ pc = "chosen" \/ (pc = "sets" /\ q.kind = "handle") => w \in f.todo
    /\ pc = "chosen" /\ q.kind = "handle" => f.sets[w] = Purse(w)
    /\ pc \in {"scores", "heads", "first"} \/ (pc = "sets" /\ q.kind # "handle") =>
          Resolved(w) \/ Unchosen(w)
    /\ pc \in {"firsts", "prefer"} =>
          Resolved(w) \/ (Unchosen(w) /\ f.sets[w] = Purse(w)) \/ Headed(w)
    /\ pc = "status" \/ (pc = "done" /\ status # 404) => Resolved(w) \/ Headed(w)

Exact == /\ SearchExact /\ RecordsExact /\ HandleExact /\ HolderExact /\ HoldersExact
         /\ DefaultsExact
ExactInv == Quiet => Exact

-----------------------------------------------------------------------------
(* Where every index is whole, a call reads the handles as they are. *)
LEMMA ReadWhole ==
  ASSUME Whole
  PROVE  /\ \A i \in Indexes : index[i] = truth /\ Present(i) = {n \in Name : Held(n)}
         /\ \A w : InWallet(w) = Purse(w) /\ ChosenIn(w) = Favourites(w)
         /\ \A k : OfLength(k) = {n \in Name : Held(n) /\ Length[n] = k}
<1>1. \A i \in Indexes : index[i] = truth  BY DEF Whole
<1>2. \A i \in Indexes : Present(i) = {n \in Name : Held(n)}  BY <1>1 DEF Present, Held
<1>3. \A w : InWallet(w) = Purse(w)  BY <1>1, <1>2 DEF InWallet, Purse, Indexes
<1>4. \A w : ChosenIn(w) = Favourites(w)  BY <1>1, <1>3 DEF ChosenIn, Favourites, Indexes
<1>5. \A k : OfLength(k) = {n \in Name : Held(n) /\ Length[n] = k}  BY <1>2 DEF OfLength, Indexes
<1> QED  BY <1>1, <1>2, <1>3, <1>4, <1>5

(* What is said of the handles and the request alone stays true. *)
LEMMA SameTruth ==
  ASSUME UNCHANGED <<truth, q>>
  PROVE  /\ \A n : Held(n)' <=> Held(n)
         /\ \A n : \A c \in AllTerms : Suits(c, n)' <=> Suits(c, n)
         /\ \A w : Purse(w)' = Purse(w) /\ Favourites(w)' = Favourites(w)
         /\ \A n, w : RightDefault(n, w)' <=> RightDefault(n, w)
         /\ \A s : Page(s)' = Page(s)
         /\ Wanted' = Wanted /\ Holding' = Holding /\ ByPurse' = ByPurse /\ ByName' = ByName
         /\ \A c : Needed(c)' <=> Needed(c)
<1>1. \A n : Held(n)' <=> Held(n)  BY DEF Held
<1>2. \A n : \A c \in AllTerms : Suits(c, n)' <=> Suits(c, n)  BY <1>1 DEF Suits, AllTerms, Terms
<1>3. \A w : Purse(w)' = Purse(w)  BY <1>1 DEF Purse
<1>4. \A w : Favourites(w)' = Favourites(w)  BY <1>3 DEF Favourites
<1>5. \A n, w : RightDefault(n, w)' <=> RightDefault(n, w)  BY <1>3, <1>4 DEF RightDefault, Beats
<1>6. Wanted' = Wanted  BY <1>1 DEF Wanted
<1>7. Holding' = Holding /\ ByPurse' = ByPurse  BY <1>3 DEF Holding, ByPurse, Sorted, Scored
<1>8. ByName' = ByName  BY DEF ByName
<1>9. \A s : Page(s)' = Page(s)  BY DEF Page
<1>10. \A c : Needed(c)' <=> Needed(c)  BY DEF Needed, Unfiltered
<1> QED  BY <1>1, <1>2, <1>3, <1>4, <1>5, <1>6, <1>7, <1>8, <1>9, <1>10

(* What changes neither the handles nor what was read keeps the answer exact. *)
LEMMA ExactSame ==
  ASSUME Exact, UNCHANGED <<truth, q, pc, f, status>>
  PROVE  Exact'
<1>0. SearchExact /\ RecordsExact /\ HandleExact /\ HolderExact /\ HoldersExact /\ DefaultsExact  BY DEF Exact
<1>1. SearchExact'
  <2>1. Matching' = Matching /\ (Taken' <=> Taken)  BY DEF Matching, Taken, Unfiltered
  <2>2. Fitting' = Fitting  BY SameTruth DEF Fitting, Over
  <2> QED  BY <1>0, <2>1, <2>2, SameTruth DEF SearchExact
<1>2. RecordsExact' /\ HandleExact'  BY <1>0, SameTruth DEF RecordsExact, HandleExact
<1>3. HolderExact'  BY <1>0, SameTruth DEF HolderExact, MemberRead
<1>4. HoldersExact'  BY <1>0, SameTruth DEF HoldersExact
<1>5. DefaultsExact'
  <2>1. Shown' = Shown  BY DEF Shown, Sent
  <2>2. \A w : /\ Resolved(w)' <=> Resolved(w)
               /\ Unchosen(w)' <=> Unchosen(w)
               /\ Headed(w)' <=> Headed(w)
    BY SameTruth DEF Resolved, Unchosen, Headed
  <2> QED  BY <1>0, <2>1, <2>2, SameTruth DEF DefaultsExact
<1> QED  BY <1>1, <1>2, <1>3, <1>4, <1>5 DEF Exact

(* Where nothing is seen written, nothing was. *)
LEMMA QuietBefore ==
  ASSUME QueryInv, QueryNext \/ UNCHANGED queryVars, ~Begin, Quiet'
  PROVE  Quiet /\ truth' = truth /\ (Served => Whole)
<1>0. StoreTypes /\ \A n \in Name : truth[n] \in seen[n]  BY DEF QueryInv, StoreInv, Mirrors
<1>1. partial' = FALSE \/ ~partial'  BY DEF Quiet
<1>2. CASE Reader \/ UNCHANGED queryVars
  <2>1. UNCHANGED <<scanner, seen>> /\ (Served \/ partial' = partial)
    BY <1>2 DEF Reader, ReadList, ReadLength, ReadWallet, ReadKeys, ReadHexes, ReadTerm, ReadTotal, ReadNames,
                ReadBounds, ReadRange, EndRange, ReadRecords, ReadChosen, ReadSets, Prefer, EndPrefer,
                ReadPage, ReadScores, ReadHeads, ReadFirsts, ReadMembers, ReadFirst, ReadStatus,
                queryVars, Served
  <2>2. ~partial  BY <2>1 DEF Quiet, Served
  <2>3. Served => Whole  BY DEF Quiet, Served
  <2> QED  BY <2>1, <2>2, <2>3 DEF Quiet, scanner
<1>3. CASE Scanner
  <2>1. partial' = partial  BY <1>3 DEF Scanner, Save, Burn, LockReindex, Wipe, WriteBack, EndReindex, FailReindex, others
  <2>2. \/ UNCHANGED <<truth, seen>>
        \/ \E n \in Name, r \in Record \union {None} : Write(n, r)
    BY <1>3 DEF Scanner, Save, Burn, LockReindex, Wipe, WriteBack, EndReindex, FailReindex
  <2>3. CASE UNCHANGED <<truth, seen>>
    <3>1. Quiet /\ truth' = truth  BY <2>1, <2>3 DEF Quiet
    <3> QED  BY <3>1 DEF Quiet, Served
  <2>4. ASSUME NEW n \in Name, NEW r \in Record \union {None}, Write(n, r) PROVE truth' = truth /\ seen' = seen
    <3>1. truth' = [truth EXCEPT ![n] = r] /\ seen' = [seen EXCEPT ![n] = @ \union {r}]  BY <2>4 DEF Write
    <3>2. truth'[n] = r /\ seen'[n] = seen[n] \union {r}  BY <1>0, <3>1 DEF StoreTypes, Handles
    <3>3. seen'[n] = {truth'[n]}  BY DEF Quiet
    <3>4. truth[n] = r /\ seen[n] = {r}  BY <1>0, <3>2, <3>3
    <3> QED  BY <1>0, <3>1, <3>4 DEF StoreTypes, Handles
  <2>5. CASE \E n \in Name, r \in Record \union {None} : Write(n, r)
    <3>1. truth' = truth /\ seen' = seen  BY <2>4, <2>5
    <3>2. Quiet  BY <2>1, <3>1 DEF Quiet
    <3> QED  BY <3>1, <3>2 DEF Quiet, Served
  <2> QED  BY <2>2, <2>3, <2>5
<1> QED  BY <1>2, <1>3 DEF QueryNext

-----------------------------------------------------------------------------

(* Nothing is read when the request comes. *)
LEMMA InitExact == ASSUME QueryInit PROVE Exact
<1>1. pc = "begin" /\ f = Fresh /\ f.read = <<>>  BY DEF QueryInit, Fresh
<1>2. \A c \in AllTerms : ~Over(c)  BY <1>1 DEF AllTerms, Terms, Over, Turn
<1>3. Matching = Fitting
  <2>1. DOMAIN f.read = {}  BY <1>1
  <2> QED  BY <1>2, <2>1 DEF Matching, Fitting
<1> QED  BY <1>1, <1>3 DEF Exact, SearchExact, RecordsExact, HandleExact, HolderExact, HoldersExact,
                           DefaultsExact, Taken, Answering, Final, Shown, Sent, Fresh

(* Nor when it is taken. *)
LEMMA BeginExact == ASSUME QueryInv, Begin PROVE Exact'
<1>1. /\ pc = "begin" /\ f = Fresh /\ f \in Frame /\ UNCHANGED <<scanner, q, status>>
      /\ f' = [f EXCEPT !.names = IF q.kind = "handle" THEN <<q.name>> ELSE <<>>]
      /\ pc' = CASE q.kind = "search" -> CallAfter("begin")
                 [] q.kind = "handle" -> "records"
                 [] q.kind = "holder" -> "members"
                 [] q.kind = "holders" -> "page"
  BY DEF Begin, Goes, QueryInv, StageTypes
<1>2. q.kind \in {"search", "handle", "holder", "holders"}  BY QueryKinds
<1>3. /\ f'.names = (IF q.kind = "handle" THEN <<q.name>> ELSE <<>>) /\ f'.recs = <<>> /\ f'.read = <<>>
  BY <1>1 DEF Fresh
<1>4. q.kind = "search" => /\ pc' \in DOMAIN Turn \ {"begin", "names"}
                           /\ \A c \in AllTerms : Needed(c) => ~Over(c)'
                           /\ pc' = "records" => ~Unfiltered /\ q.slot = NoSlot
  <2> SUFFICES ASSUME q.kind = "search"
               PROVE  /\ pc' \in DOMAIN Turn \ {"begin", "names"}
                      /\ \A c \in AllTerms : Needed(c) => ~Over(c)'
                      /\ pc' = "records" => ~Unfiltered /\ q.slot = NoSlot
    OBVIOUS
  <2>1. "begin" \in DOMAIN Turn /\ pc' = CallAfter("begin") /\ "begin" # "records"  BY <1>1 DEF Turn
  <2>2. /\ pc' \in DOMAIN Turn /\ Turn[pc'] > Turn["begin"] /\ Needed(pc')
        /\ \A e \in DOMAIN Turn : Turn[e] > Turn["begin"] /\ Needed(e) => Turn[pc'] <= Turn[e]
    BY <2>1, NextCall
  <2>3. ASSUME NEW c \in AllTerms, Needed(c) PROVE ~Over(c)'
    <3>1. c \in DOMAIN Turn  BY DEF AllTerms, Terms, Turn
    <3>2. Turn[pc'] > Turn[c] => c = "begin" \/ Turn["begin"] > Turn[c]  BY <2>1, <2>3, <3>1, TermsBefore
    <3>3. c # "begin" /\ ~(Turn["begin"] > Turn[c])  BY DEF AllTerms, Terms, Turn
    <3>4. pc' # "range"  BY <2>2 DEF Turn
    <3> QED  BY <3>2, <3>3, <3>4 DEF Over
  <2>4. /\ {"total", "names", "bounds"} \subseteq DOMAIN Turn
        /\ Turn["begin"] = 0 /\ Turn["total"] = 6 /\ Turn["names"] = 7 /\ Turn["bounds"] = 8 /\ Turn["records"] = 9
    BY DEF Turn
  <2>5. /\ Unfiltered <=> Needed("total")
        /\ Unfiltered <=> Needed("names")
        /\ q.slot # NoSlot <=> Needed("bounds")
    BY DEF Needed
  <2>6. /\ Unfiltered => Turn[pc'] <= 6
        /\ q.slot # NoSlot => Turn[pc'] <= 8
    BY <2>2, <2>4, <2>5
  <2>7. pc' # "begin"  BY <2>2, <2>4
  <2>8. pc' # "names"  BY <2>2, <2>4, <2>5, <2>6
  <2>9. pc' = "records" => ~Unfiltered /\ q.slot = NoSlot  BY <2>4, <2>6
  <2> QED  BY <2>2, <2>3, <2>7, <2>8, <2>9
<1>5. SearchExact'
  <2> SUFFICES ASSUME q.kind = "search" PROVE SearchExact'  BY <1>1 DEF SearchExact
  <2>1. \A c : Needed(c)' <=> Needed(c)  BY <1>1 DEF Needed, Unfiltered
  <2>2. Matching' = Name
    <3>1. DOMAIN f'.read = {}  BY <1>3
    <3> QED  BY <3>1 DEF Matching
  <2>3. Fitting' = Name  BY <1>4, <2>1 DEF Fitting
  <2>4. pc' \notin Answering /\ pc' # "range"  BY <1>4 DEF Answering, Turn
  <2>5. ~Taken' /\ pc' # "names"  BY <1>1, <1>4, <2>4 DEF Taken, Unfiltered
  <2> QED  BY <2>2, <2>3, <2>5 DEF SearchExact
<1>6. pc' \notin Answering /\ pc' \notin Final /\ pc' # "scores" /\ pc' # "heads" /\ pc' # "first" /\ pc' # "firsts"
      /\ (q.kind = "holder" => pc' = "members") /\ (q.kind = "holders" => pc' = "page")
  BY <1>1, <1>2, <1>4 DEF Answering, Final, Turn
<1>7. RecordsExact' /\ HandleExact' /\ HolderExact' /\ HoldersExact'
  BY <1>1, <1>3, <1>6 DEF RecordsExact, HandleExact, HolderExact, HoldersExact, Answering
<1>8. DefaultsExact'  BY <1>6 DEF DefaultsExact, Answering
<1> QED  BY <1>5, <1>7, <1>8 DEF Exact

(* A term is read: what matches is what the terms fit. *)
LEMMA TermExact ==
  ASSUME QueryInv, Exact, UNCHANGED truth, NEW c \in DOMAIN Turn \ {"begin", "total", "names", "bounds", "records"},
         NEW S, ReadTerm(c, S), \A n \in Matching : n \in S <=> Suits(c, n)
  PROVE  Exact'
<1>1. /\ pc = c /\ pc' = CallAfter(c) /\ f' = [f EXCEPT !.read = Append(@, S)] /\ UNCHANGED <<scanner, q, seen>>
  BY DEF ReadTerm, Goes, Served
<1>2. q.kind = "search" /\ f \in Frame /\ Needed(c) /\ Matching = Fitting /\ c \in AllTerms
  <2>1. c \in Listing /\ c \in AllTerms  BY DEF Turn, Listing, AllTerms, Terms
  <2>2. q.kind = "search" /\ f \in Frame  BY <1>1, <2>1, QueryKinds
  <2>3. Needed(c)  BY <1>1, <2>1 DEF QueryInv, StageTypes
  <2> QED  BY <1>1, <2>1, <2>2, <2>3 DEF Exact, SearchExact
<1>3. /\ pc' \in DOMAIN Turn /\ Turn[pc'] > Turn[c] /\ Needed(pc')
      /\ \A e \in DOMAIN Turn : Turn[e] > Turn[c] /\ Needed(e) => Turn[pc'] <= Turn[e]
  BY <1>1, NextCall DEF Turn
<1>4. f.read \in Seq(SUBSET (Name \union {None})) /\ f'.read = Append(f.read, S)  BY <1>1, <1>2 DEF Frame
<1>5. Matching' = Matching \intersect S
  <2>1. /\ DOMAIN f'.read = 1 .. Len(f.read) + 1 /\ f'.read[Len(f.read) + 1] = S
        /\ DOMAIN f.read = 1 .. Len(f.read) /\ Len(f.read) \in Nat
        /\ \A i \in DOMAIN f.read : f'.read[i] = f.read[i]
    BY <1>4
  <2>2. \A n : (\A i \in DOMAIN f'.read : n \in f'.read[i]) <=> (n \in S /\ \A i \in DOMAIN f.read : n \in f.read[i])
    BY <2>1
  <2> QED  BY <2>2 DEF Matching
<1>6. \A d \in AllTerms : Needed(d) => (Over(d)' <=> Over(d) \/ d = c)
  <2> SUFFICES ASSUME NEW d \in AllTerms, Needed(d) PROVE Over(d)' <=> Over(d) \/ d = c  OBVIOUS
  <2>1. d \in DOMAIN Turn /\ c # "records"  BY DEF AllTerms, Terms, Turn
  <2>2. Turn[pc'] > Turn[d] => d = c \/ Turn[c] > Turn[d]  BY <1>1, <2>1, TermsBefore
  <2>3. \A e \in DOMAIN Turn : Turn[e] \in Nat  BY DEF Turn
  <2>4. Over(d)' <=> Turn[pc'] > Turn[d]  BY <1>3 DEF Over, Turn
  <2>5. Over(d) <=> Turn[c] > Turn[d]  BY <1>1 DEF Over, Turn
  <2> QED  BY <1>3, <2>1, <2>2, <2>3, <2>4, <2>5
<1>7. Fitting' = Fitting \intersect S
  <2>1. UNCHANGED <<truth, q>>  BY <1>1
  <2>2. \A n \in Name : n \in Fitting' <=> n \in Fitting /\ Suits(c, n)
    BY <1>2, <1>6, <2>1, SameTruth DEF Fitting
  <2>3. \A n \in Fitting : n \in S <=> Suits(c, n)  BY <1>2
  <2>4. Fitting' \subseteq Name /\ Fitting \subseteq Name  BY DEF Fitting
  <2> QED  BY <2>2, <2>3, <2>4
<1>8. ~Unfiltered
  BY <1>2 DEF Needed, Unfiltered, AllTerms, Terms
<1>9. pc' # "names" /\ (pc' = "records" => q.slot = NoSlot)
  <2>1. Turn["bounds"] = 8 /\ Turn["records"] = 9 /\ "bounds" \in DOMAIN Turn /\ Turn[c] < 8
    BY DEF Turn
  <2>2. q.slot # NoSlot => Turn[pc'] <= 8  BY <1>3, <2>1 DEF Needed
  <2>3. pc' # "names"  BY <1>3, <1>8 DEF Needed
  <2> QED  BY <2>1, <2>2, <2>3
<1>10. ~Taken'
  <2>1. pc' \notin Answering /\ pc' # "range"  BY <1>3 DEF Answering, Turn
  <2> QED  BY <1>1, <1>8, <1>9, <2>1 DEF Taken, Unfiltered
<1>11. SearchExact'  BY <1>2, <1>5, <1>7, <1>9, <1>10 DEF SearchExact
<1>12. pc' \notin Answering /\ pc' # "scores" /\ pc' # "heads" /\ pc' # "first" /\ pc' # "firsts"
  BY <1>3 DEF Answering, Turn
<1>13. RecordsExact' /\ HandleExact' /\ HolderExact' /\ HoldersExact'
  BY <1>1, <1>2 , <1>12 DEF RecordsExact, HandleExact, HolderExact, HoldersExact
<1>14. DefaultsExact'  BY <1>12 DEF DefaultsExact, Answering
<1> QED  BY <1>11, <1>13, <1>14 DEF Exact

(* Handles alone match a request with a term. *)
LEMMA FittingHeld ==
  ASSUME ~Unfiltered, Over("length"), Over("wallet"), Over("keys"), q.kind = "search"
  PROVE  \A n \in Fitting : Held(n)
<1>1. CASE q.length # 0
  <2>1. Needed("length") /\ "length" \in AllTerms  BY <1>1 DEF Needed, AllTerms, Terms
  <2> QED  BY <2>1 DEF Fitting, Suits
<1>2. CASE q.wallet # None
  <2>1. Needed("wallet") /\ "wallet" \in AllTerms  BY <1>2 DEF Needed, AllTerms, Terms
  <2> QED  BY <2>1 DEF Fitting, Suits
<1>3. CASE q.length = 0 /\ q.wallet = None
  <2>1. Needed("keys") /\ "keys" \in AllTerms  BY <1>3 DEF Needed, AllTerms
  <2> QED  BY <2>1 DEF Fitting, Suits
<1> QED  BY <1>1, <1>2, <1>3

(* When every term is read, the names left are those that match them all. *)
LEMMA AllFit ==
  ASSUME ~Unfiltered, q.kind = "search", pc \in {"bounds", "range", "records"}
  PROVE  Fitting = Wanted
<1>1. \A c \in AllTerms : Over(c)  BY DEF AllTerms, Terms, Over, Turn
<1>2. "length" \in AllTerms /\ "wallet" \in AllTerms /\ "keys" \in AllTerms /\ "list" \in AllTerms /\ "hexes" \in AllTerms
  BY DEF AllTerms, Terms
<1>3. \A n \in Fitting : Held(n)  BY <1>1, <1>2, FittingHeld
<1>4. /\ Needed("length") <=> q.length # 0
      /\ Needed("wallet") <=> q.wallet # None
      /\ Needed("list") <=> q.by # None
      /\ Needed("hexes") <=> q.term # None
  BY DEF Needed
<1>5. Fitting \subseteq Wanted
  <2> SUFFICES ASSUME NEW n \in Fitting PROVE n \in Wanted  OBVIOUS
  <2>1. n \in Name /\ Held(n) /\ \A c \in AllTerms : Needed(c) => Suits(c, n)  BY <1>1, <1>3 DEF Fitting
  <2>2. q.length # 0 => Length[n] = q.length  BY <1>2, <1>4, <2>1 DEF Suits
  <2>3. q.wallet # None => truth[n].wallet = q.wallet  BY <1>2, <1>4, <2>1 DEF Suits
  <2>4. q.by # None => truth[n].wallet = q.by  BY <1>2, <1>4, <2>1 DEF Suits
  <2>5. q.term # None => n \in InText[q.term] \union InHex[q.term]  BY <1>2, <1>4, <2>1 DEF Suits
  <2> QED  BY <2>1, <2>2, <2>3, <2>4, <2>5 DEF Wanted
<1>6. Wanted \subseteq Fitting
  <2> SUFFICES ASSUME NEW n \in Wanted, NEW c \in AllTerms, Needed(c) PROVE Suits(c, n)
    BY DEF Fitting, Wanted
  <2>1. c \in {"list", "length", "wallet", "keys", "hexes"}  BY DEF AllTerms, Terms
  <2> QED  BY <1>4, <2>1 DEF Suits, Wanted
<1> QED  BY <1>5, <1>6

(* Each of the calls of the terms leaves what matches the terms so far. *)
LEMMA TermExacts ==
  ASSUME QueryInv, Exact, Whole, UNCHANGED truth,
         ReadList \/ ReadLength \/ ReadWallet \/ ReadKeys \/ ReadHexes
  PROVE  Exact'
<1> DEFINE Of(c, S) == ReadTerm(c, S) /\ \A n \in Matching : n \in S <=> Suits(c, n)
<1>1. ASSUME NEW c \in {"list", "length", "wallet", "keys", "hexes"}, NEW S, Of(c, S) PROVE Exact'
  <2>1. c \in DOMAIN Turn \ {"begin", "total", "names", "bounds", "records"}  BY <1>1 DEF Turn
  <2> QED  BY <1>1, <2>1, TermExact
<1>2. \A S : \A n \in Matching : n \in Marked(S) <=> n \in S
  <2>1. \A n \in Matching : n # None  BY Givens DEF Matching
  <2> QED  BY <2>1 DEF Marked
<1>3. \A n \in Matching : n \in Name  BY DEF Matching
<1>4. CASE ReadList
  <2>1. Of("list", Marked(InWallet(q.by)))  BY <1>2, <1>3, <1>4, ReadWhole DEF ReadList, Suits, Purse
  <2> QED  BY <1>1, <2>1
<1>5. CASE ReadLength
  <2>1. Of("length", Marked(OfLength(q.length)))  BY <1>2, <1>3, <1>5, ReadWhole DEF ReadLength, Suits
  <2> QED  BY <1>1, <2>1
<1>6. CASE ReadWallet
  <2>1. Of("wallet", Marked(InWallet(q.wallet)))  BY <1>2, <1>3, <1>6, ReadWhole DEF ReadWallet, Suits, Purse
  <2> QED  BY <1>1, <2>1
<1>7. CASE ReadKeys
  <2>1. Present("handle") = {n \in Name : Held(n)}  BY ReadWhole DEF Indexes
  <2>2. Of("keys", Present("handle"))  BY <1>3, <1>7, <2>1 DEF ReadKeys, Suits
  <2> QED  BY <1>1, <2>2
<1>8. CASE ReadHexes
  <2> DEFINE S == {n \in Matching :
                     \/ n \in InText[q.term]
                     \/ n \in (IF n \in Present("handle") THEN InHex[q.term] ELSE InBytes[q.term])}
  <2>1. ReadTerm("hexes", S)  BY <1>8 DEF ReadHexes
  <2>2. pc = "hexes" /\ q.kind = "search" /\ q.term # None /\ Matching = Fitting
    <3>1. pc = "hexes" /\ pc \in Listing /\ pc \in DOMAIN Turn  BY <2>1 DEF ReadTerm, Listing, Turn
    <3>2. q.kind = "search" /\ Needed(pc)  BY <3>1, QueryKinds DEF QueryInv, StageTypes
    <3> QED  BY <3>1, <3>2 DEF Needed, Exact, SearchExact
  <2>3. \A n \in Matching : n \in Present("handle")
    <3>1. Over("length") /\ Over("wallet") /\ Over("keys") /\ ~Unfiltered
      BY <2>2 DEF Over, Turn, Unfiltered
    <3>2. \A n \in Matching : Held(n)  BY <2>2, <3>1, FittingHeld
    <3>3. Present("handle") = {n \in Name : Held(n)}  BY ReadWhole DEF Indexes
    <3> QED  BY <1>3, <3>2, <3>3
  <2>4. \A n \in Matching : n \in S <=> Suits("hexes", n)  BY <2>3 DEF Suits
  <2> HIDE DEF S
  <2> QED  BY <1>1, <2>1, <2>4
<1> QED  BY <1>4, <1>5, <1>6, <1>7, <1>8

-----------------------------------------------------------------------------

(* A step that makes the list of names: what it has to show. *)
LEMMA ListExact ==
  ASSUME QueryInv, Exact, pc \in {"total", "names", "bounds", "range"}, UNCHANGED <<truth, q>>,
         pc' \in {"names", "range", "records"}, f'.read = f.read,
         pc' = "names" \/ Taken' => f'.total = Cardinality(Wanted),
         Taken' => /\ \A i \in DOMAIN f'.names : f'.names[i] \in Wanted
                   /\ q.slot = NoSlot => f'.names = Page(Ordered(Wanted, ByName))
  PROVE  Exact'
<1>1. q.kind = "search"  BY QueryKinds DEF Listing
<1>2. SearchExact'
  <2>1. Matching' = Matching  BY DEF Matching
  <2>2. \A c \in AllTerms : Over(c) /\ Over(c)'  BY DEF AllTerms, Terms, Over, Turn
  <2>3. Fitting' = Fitting  BY <2>2, SameTruth DEF Fitting
  <2>4. Matching = Fitting  BY <1>1 DEF Exact, SearchExact, Turn
  <2> QED  BY <2>1, <2>3, <2>4, SameTruth DEF SearchExact
<1>3. RecordsExact' /\ HandleExact' /\ HolderExact' /\ HoldersExact' /\ DefaultsExact'
  BY <1>1 DEF RecordsExact, HandleExact, HolderExact, HoldersExact, DefaultsExact, Answering
<1> QED  BY <1>2, <1>3 DEF Exact

(* A search without terms wants all handles. *)
LEMMA UnfilteredWants == ASSUME Unfiltered PROVE Wanted = {n \in Name : Held(n)}
BY DEF Unfiltered, Wanted

(* The calls that make the list of names. *)
LEMMA ListExacts ==
  ASSUME QueryInv, Exact, Whole, UNCHANGED truth, ReadTotal \/ ReadNames \/ ReadBounds
  PROVE  Exact'
<1>1. UNCHANGED <<truth, q>> /\ f \in Frame  BY QueryKinds DEF ReadTotal, ReadNames, ReadBounds, Served
<1>2. Present("handle") = {n \in Name : Held(n)}  BY ReadWhole DEF Indexes
<1>3. CASE ReadTotal
  <2>1. pc = "total" /\ pc' = "names" /\ f' = [f EXCEPT !.total = Cardinality(Present("handle"))]
    BY <1>3 DEF ReadTotal, Goes
  <2>2. Unfiltered  BY <2>1 DEF QueryInv, StageTypes, Listing, Needed
  <2>3. f'.total = Cardinality(Wanted) /\ f'.read = f.read  BY <1>1, <1>2, <2>1, <2>2, UnfilteredWants DEF Frame
  <2>4. ~Taken'  BY <2>1 DEF Taken, Answering
  <2> QED  BY <1>1, <2>1, <2>3, <2>4, ListExact
<1>4. CASE ReadNames
  <2>1. pc = "names" /\ pc' = "records" /\ f' = [f EXCEPT !.names = Page(Ordered(Present("handle"), ByName))]
    BY <1>4 DEF ReadNames, Goes
  <2>2. Unfiltered /\ q.kind = "search" /\ q \in Request
    <3>1. pc \in Listing  BY <2>1 DEF Listing
    <3> QED  BY <2>1, <3>1, QueryKinds DEF QueryInv, StageTypes, Needed
  <2>3. f'.names = Page(Ordered(Wanted, ByName)) /\ f'.read = f.read /\ f'.total = f.total
    BY <1>1, <1>2, <2>1, <2>2, UnfilteredWants DEF Frame
  <2>4. f.total = Cardinality(Wanted)  BY <2>1, <2>2 DEF Exact, SearchExact
  <2>5. \A i \in DOMAIN f'.names : f'.names[i] \in Wanted
    <3>1. Wanted \subseteq Name /\ IsFiniteSet(Wanted)  BY Finite DEF Wanted
    <3>2. Ordered(Wanted, ByName) \in Seq(Wanted)  BY <3>1, NameOrder, ListOf
    <3>3. f'.names \in Seq(Wanted)  BY <2>2, <2>3, <3>2, PageHas
    <3> QED  BY <3>3
  <2> QED  BY <1>1, <2>1, <2>3, <2>4, <2>5, ListExact
<1>5. CASE ReadBounds
  <2>1. /\ pc = "bounds" /\ pc' = "range"
        /\ f' = [f EXCEPT !.count = Cardinality(Present("handle")), !.from = q.slot,
                          !.total = Cardinality(Matching)]
    BY <1>5 DEF ReadBounds, Goes
  <2>2. q.slot # NoSlot /\ q.kind = "search" /\ f.names = <<>>
    <3>1. pc \in Listing  BY <2>1 DEF Listing
    <3> QED  BY <2>1, <3>1, QueryKinds DEF QueryInv, StageTypes, Needed
  <2>3. ~Unfiltered  BY <2>2 DEF Unfiltered
  <2>4. Matching = Wanted  BY <2>1, <2>2, <2>3, AllFit DEF Exact, SearchExact, Turn
  <2>5. f'.total = Cardinality(Wanted) /\ f'.read = f.read /\ f'.names = <<>>  BY <1>1, <2>1, <2>2, <2>4 DEF Frame
  <2>6. DOMAIN f'.names = {}  BY <2>5
  <2> QED  BY <1>1, <2>1, <2>2, <2>5, <2>6, ListExact
<1> QED  BY <1>3, <1>4, <1>5

(* The calls that follow the slots. *)
LEMMA RangeExacts ==
  ASSUME QueryInv, Exact, UNCHANGED truth, ReadRange => Whole, ReadRange \/ EndRange
  PROVE  Exact'
<1>1. pc = "range" /\ pc' \in {"range", "records"} /\ UNCHANGED <<truth, q>>
  BY DEF ReadRange, EndRange, Goes, Served
<1>2. /\ q.slot # NoSlot /\ q.kind = "search" /\ f \in Frame /\ q \in Request /\ Taken /\ StoreInv
      /\ Matching = Fitting /\ f.total = Cardinality(Wanted)
      /\ \A i \in DOMAIN f.names : f.names[i] \in Wanted
  BY <1>1, QueryKinds DEF QueryInv, StageTypes, Exact, SearchExact, Taken
<1>3. ~Unfiltered  BY <1>2 DEF Unfiltered
<1>4. Matching = Wanted  BY <1>1, <1>2, <1>3, AllFit
<1>5. CASE ReadRange
  <2> DEFINE s == InRange(Matching)
  <2>1. f' = [f EXCEPT !.names = @ \o s, !.from = Folded(NextStart)]  BY <1>5 DEF ReadRange
  <2>2. s \in Seq(Wanted)
    <3> DEFINE S == (RangeNames \ Numeric) \intersect Matching
    <3>1. S \subseteq Present("trait") /\ S \subseteq Wanted  BY <1>4 DEF RangeNames, Between
    <3>2. IsFiniteSet(S)  BY <1>4, <3>1, Finite
    <3>3. s = Ordered(S, BySlot)  BY DEF InRange
    <3>4. s \in Seq(S)  BY <1>2, <3>1, <3>2, <3>3, SlotOrder, ListOf
    <3> HIDE DEF S, s
    <3> QED  BY <3>1, <3>4, Wider
  <2> HIDE DEF s
  <2>3. f'.names = f.names \o s /\ f'.read = f.read /\ f'.total = f.total  BY <1>2, <2>1 DEF Frame
  <2>4. f.names \in Seq(Wanted)
    <3>1. f.names \in Seq(Name \union {None})  BY <1>2 DEF Frame
    <3> QED  BY <1>2, <3>1
  <2>5. f'.names \in Seq(Wanted)  BY <2>2, <2>3, <2>4
  <2> QED  BY <1>1, <1>2, <2>3, <2>5, ListExact
<1>6. CASE EndRange
  <2>1. f' = [f EXCEPT !.names = Page(@), !.from = 0, !.count = 0]  BY <1>6 DEF EndRange
  <2>2. f'.names = Page(f.names) /\ f'.read = f.read /\ f'.total = f.total  BY <1>2, <2>1 DEF Frame
  <2>3. \A i \in DOMAIN f'.names : f'.names[i] \in Wanted
    <3>1. f.names \in Seq(Name \union {None})  BY <1>2 DEF Frame
    <3> QED  BY <1>2, <2>2, <3>1, PageHas
  <2> QED  BY <1>1, <1>2, <2>2, <2>3, ListExact
<1> QED  BY <1>5, <1>6

-----------------------------------------------------------------------------

(* The records of the page are those of the handles wanted. *)
LEMMA RecordsExacts ==
  ASSUME QueryInv, Exact, Whole, UNCHANGED truth, ReadRecords
  PROVE  Exact'
<1> DEFINE s == PageNames
           recs == [i \in DOMAIN s |-> index["handle"][s[i]]]
           todo == {r.wallet : r \in ToSet(recs) \ {None}}
           total == IF Unfiltered \/ q.slot # NoSlot THEN f.total ELSE Cardinality(Matching)
<1>1. /\ pc = "records" /\ UNCHANGED <<truth, q>>
      /\ f' = [f EXCEPT !.names = s, !.recs = recs, !.read = <<>>, !.total = total, !.todo = todo]
      /\ IF q.kind = "handle" /\ recs = <<None>> THEN pc' = "done" /\ status' = 404
         ELSE pc' = (IF q.kind = "handle" THEN "sets" ELSE "chosen")
  BY DEF ReadRecords, Goes, Served
<1>2. f \in Frame /\ q \in Request /\ q.kind \in {"search", "handle"} /\ q.name \in Name
      /\ SearchExact /\ HandleExact
  <2>1. q.kind \in {"search", "handle", "holder", "holders"} /\ pc \in Stages[q.kind]  BY QueryKinds
  <2>2. q.kind \in {"search", "handle"}  BY <1>1, <2>1 DEF Stages
  <2> QED  BY <2>2, QueryKinds DEF Exact
<1>3. q.kind = "search" => /\ total = Cardinality(Wanted)
                           /\ \A i \in DOMAIN s : s[i] \in Wanted
                           /\ q.slot = NoSlot => s = Page(Ordered(Wanted, ByName))
  <2> SUFFICES ASSUME q.kind = "search"
               PROVE  /\ total = Cardinality(Wanted)
                      /\ \A i \in DOMAIN s : s[i] \in Wanted
                      /\ q.slot = NoSlot => s = Page(Ordered(Wanted, ByName))
    OBVIOUS
  <2>1. CASE Unfiltered \/ q.slot # NoSlot
    <3>1. Taken /\ s = f.names  BY <1>1, <2>1 DEF Taken, PageNames
    <3> HIDE DEF s
    <3> QED  BY <1>2, <2>1, <3>1 DEF SearchExact
  <2>2. CASE ~Unfiltered /\ q.slot = NoSlot
    <3>1. Matching = Wanted  BY <1>1, <1>2, <2>2, AllFit DEF SearchExact, Turn
    <3>2. s = Page(Ordered(Wanted, ByName))  BY <2>2, <3>1 DEF PageNames
    <3>3. Wanted \subseteq Name /\ IsFiniteSet(Wanted)  BY Finite DEF Wanted
    <3>4. Ordered(Wanted, ByName) \in Seq(Wanted)  BY <3>3, NameOrder, ListOf
    <3>5. s \in Seq(Wanted)  BY <1>2, <3>2, <3>4, PageHas
    <3> HIDE DEF s
    <3> QED  BY <2>2, <3>1, <3>2, <3>5
  <2> QED  BY <2>1, <2>2
<1>4. q.kind = "handle" => s = <<q.name>>  BY <1>1, <1>2 DEF HandleExact, PageNames
<1>5. \A i \in DOMAIN s : recs[i] = truth[s[i]]  BY ReadWhole DEF Indexes
<1>6. q.kind = "handle" => (recs = <<None>> <=> ~Held(q.name))
  <2> SUFFICES ASSUME q.kind = "handle" PROVE recs = <<None>> <=> ~Held(q.name)  OBVIOUS
  <2>1. s = <<q.name>> /\ DOMAIN s = 1 .. 1 /\ s[1] = q.name  BY <1>4
  <2>2. recs = [i \in 1 .. 1 |-> truth[q.name]]
    <3>1. \A i \in 1 .. 1 : s[i] = q.name  BY <2>1
    <3>2. index["handle"] = truth  BY ReadWhole DEF Indexes
    <3> HIDE DEF s
    <3> QED  BY <2>1, <3>1, <3>2
  <2> HIDE DEF recs
  <2>3. <<None>> = [i \in 1 .. 1 |-> None]  OBVIOUS
  <2>4. recs = <<None>> => recs[1] = None  OBVIOUS
  <2>5. recs[1] = truth[q.name]  BY <2>2
  <2> QED  BY <2>2, <2>3, <2>4, <2>5 DEF Held
<1>7. DOMAIN recs = DOMAIN s  OBVIOUS
<1>8. \A i \in DOMAIN recs : recs[i] # None => recs[i].wallet \in todo  BY DEF ToSet
<1> HIDE DEF s, recs, todo, total
<1>9. f'.names = s /\ f'.recs = recs /\ f'.todo = todo /\ f'.total = total  BY <1>1, <1>2 DEF Frame
<1>10. pc' \in {"done", "sets", "chosen"} /\ pc' \in Answering /\ pc' # "names"
       /\ (pc' = "done" => status' = 404)
  BY <1>1 DEF Answering
<1>11. SearchExact'
  <2>1. ~(pc' \in DOMAIN Turn \union {"range"})  BY <1>10 DEF Turn
  <2> QED  BY <1>1, <1>3, <1>9, <1>10, <2>1, SameTruth DEF SearchExact
<1>12. RecordsExact'  BY <1>1, <1>5, <1>7, <1>9 DEF RecordsExact
<1>13. HandleExact'
  <2>1. q.kind = "handle" => f'.names = <<q.name>>  BY <1>4, <1>9
  <2>2. q.kind = "handle" /\ pc' # "done" => Held(q.name)  BY <1>1, <1>6
  <2>3. q.kind = "handle" /\ pc' = "done" => status' = 404 /\ ~Held(q.name)  BY <1>1, <1>6
  <2> QED  BY <1>1, <2>1, <2>2, <2>3, SameTruth DEF HandleExact
<1>14. HolderExact' /\ HoldersExact'  BY <1>1, <1>2 DEF HolderExact, HoldersExact
<1>15. DefaultsExact'
  <2>1. \A w \in Shown' : w \in f'.todo  BY <1>1, <1>2, <1>8, <1>9 DEF Shown, Sent
  <2>2. pc' = "chosen" => q.kind = "search"  BY <1>1, <1>2
  <2>3. pc' = "sets" => q.kind = "handle"  BY <1>1, <1>2
  <2> QED  BY <1>1, <1>10, <2>1, <2>2, <2>3 DEF DefaultsExact
<1> QED  BY <1>11, <1>12, <1>13, <1>14, <1>15 DEF Exact

(* The wallets shown hold something. *)
LEMMA ShownIn ==
  ASSUME QueryInv, Exact
  PROVE  /\ q.kind \in {"search", "handle"} /\ pc \in Answering => \A w \in Shown : w \in Wallet /\ Purse(w) # {}
         /\ q.kind \in {"holder", "holders"} => \A w \in Shown : w \in Wallet
         /\ pc = "prefer" => \A w \in Shown : Purse(w) # {}
<1>1. f \in Frame /\ StoreInv /\ q.kind \in {"search", "handle", "holder", "holders"}
      /\ (q.kind = "holder" => q.wallet \in Wallet) /\ q.name \in Name
  BY QueryKinds DEF QueryInv
<1>2. ASSUME q.kind \in {"search", "handle"}, pc \in Answering, NEW w \in Shown PROVE w \in Wallet /\ Purse(w) # {}
  <2>1. PICK i \in DOMAIN f.recs : f.recs[i] # None /\ w = f.recs[i].wallet  BY <1>2 DEF Shown, Sent
  <2>2. i \in DOMAIN f.names /\ f.recs[i] = truth[f.names[i]]  BY <1>2, <2>1 DEF Exact, RecordsExact
  <2>3. f.names[i] \in Name
    <3>1. CASE q.kind = "search"  BY <1>2, <2>2, <3>1 DEF Exact, SearchExact, Taken, Wanted
    <3>2. CASE q.kind = "handle"
      <4>1. f.names = <<q.name>>  BY <1>2, <3>2 DEF Exact, HandleExact, Answering
      <4>2. i = 1  BY <2>2, <4>1
      <4> QED  BY <1>1, <4>1, <4>2
    <3> QED  BY <1>2, <3>1, <3>2
  <2>4. f.names[i] \in Purse(w)  BY <2>1, <2>2, <2>3 DEF Purse, Held
  <2>5. truth[f.names[i]] \in Record  BY <1>1, <2>1, <2>2, <2>3 DEF StoreInv, StoreTypes, Handles
  <2> QED  BY <2>1, <2>2, <2>4, <2>5, Givens
<1>3. ASSUME q.kind \in {"holder", "holders"}, NEW w \in Shown
      PROVE  w \in Wallet /\ (pc = "prefer" => Purse(w) # {})
  <2>1. CASE q.kind = "holder"  BY <1>1, <1>3, <2>1 DEF Shown, Exact, HolderExact
  <2>2. CASE q.kind = "holders"
    <3>1. PICK i \in DOMAIN f.page : w = f.page[i]  BY <1>3, <2>2 DEF Shown, ToSet
    <3>2. f.page \in Seq(Wallet)  BY <1>1 DEF Frame
    <3>3. pc = "prefer" => f.names[i] \in Purse(w)  BY <2>2, <3>1 DEF Exact, HoldersExact, Final
    <3> QED  BY <3>1, <3>2, <3>3
  <2> QED  BY <1>3, <2>1, <2>2
<1> QED  BY <1>1, <1>2, <1>3 DEF Answering

(* The steps that leave the names, the records and the page as they are. *)
LEMMA KeptExact ==
  ASSUME QueryInv, Exact, UNCHANGED <<truth, q>>, pc \in {"chosen", "sets", "prefer", "status"},
         f'.names = f.names, f'.recs = f.recs, f'.page = f.page, f'.total = f.total, f'.scores = f.scores,
         pc' \in Answering \union {"first", "scores", "firsts"},
         q.kind \in {"search", "handle"} => pc' \in Answering,
         q.kind = "holder" => /\ pc' \in {"first"} \union Final
                              /\ pc' = "first" => pc = "chosen" /\ f'.sets = f.sets,
         q.kind = "holders" => /\ pc' \in {"scores", "firsts"} \union Final
                               /\ pc' = "firsts" => pc = "sets",
         q.kind \in {"holder", "holders"} /\ pc' \in Final => pc \in Final,
         pc' = "done" => pc = "status" /\ status' # 404,
         DefaultsExact'
  PROVE  Exact'
<1>0. SearchExact /\ RecordsExact /\ HandleExact /\ HolderExact /\ HoldersExact  BY DEF Exact
<1>1. q.kind \in {"search", "handle", "holder", "holders"}  BY QueryKinds
<1>2. pc' \notin DOMAIN Turn \union {"range"}  BY DEF Answering, Turn
<1>3. CASE q.kind \in {"search", "handle"}
  <2>1. pc \in Answering \ {"done"} /\ pc' \in Answering  BY <1>3 DEF Answering
  <2>2. SearchExact'
    <3>1. Taken /\ pc' # "names"  BY <2>1 DEF Taken, Answering
    <3> QED  BY <1>0, <1>2, <3>1, SameTruth DEF SearchExact
  <2>3. RecordsExact'  BY <1>0, <2>1 DEF RecordsExact
  <2>4. HandleExact'
    <3>1. q.kind = "handle" => f.names = <<q.name>> /\ Held(q.name)  BY <1>0, <2>1 DEF HandleExact, Answering
    <3> QED  BY <3>1, SameTruth DEF HandleExact
  <2>5. HolderExact' /\ HoldersExact'  BY <1>3 DEF HolderExact, HoldersExact
  <2> QED  BY <2>2, <2>3, <2>4, <2>5 DEF Exact
<1>4. CASE q.kind = "holder"
  <2>1. HolderExact'
    <3>1. f.total = Cardinality(Purse(q.wallet))  BY <1>0, <1>4 DEF HolderExact
    <3>2. pc' \in {"chosen", "first"} => f'.sets[q.wallet] = Purse(q.wallet)
      BY <1>0, <1>4 DEF HolderExact, Final
    <3>3. pc' \in Final => /\ DOMAIN f.recs = {1} /\ DOMAIN f.names = {1}
                          /\ Purse(q.wallet) # {} /\ MemberRead
      BY <1>0, <1>4 DEF HolderExact, Final
    <3>4. pc' = "done" \/ pc' \in {"prefer", "status"} => pc' \in Final  BY DEF Final
    <3>5. MemberRead' <=> MemberRead  BY <1>0, <1>4 DEF MemberRead
    <3> QED  BY <1>4, <3>1, <3>2, <3>3, <3>4, <3>5, SameTruth DEF HolderExact
  <2>2. SearchExact' /\ RecordsExact' /\ HandleExact' /\ HoldersExact'
    BY <1>4 DEF SearchExact, RecordsExact, HandleExact, HoldersExact
  <2> QED  BY <2>1, <2>2 DEF Exact
<1>5. CASE q.kind = "holders"
  <2>1. HoldersExact'
    <3>1. f.page = Page(Ordered(Holding, ByPurse))  BY <1>0, <1>5 DEF HoldersExact
    <3>2. pc' \in {"heads", "sets", "firsts"} \union Final => pc \in {"heads", "sets", "firsts"} \union Final
      BY <1>5 DEF Final
    <3>3. pc' \in {"sets", "firsts"} \union Final => pc \in {"sets", "firsts"} \union Final
      BY <1>5 DEF Final
    <3>4. pc' \in {"heads", "sets", "firsts"} \union Final =>
            \A w \in Wallet : f.scores[w] = IF w \in ToSet(f.page) THEN Cardinality(Purse(w)) ELSE 0
      BY <1>0, <1>5, <3>2 DEF HoldersExact
    <3>5. pc' \in {"sets", "firsts"} \union Final =>
            DOMAIN f.names = DOMAIN f.page /\ \A i \in DOMAIN f.page : f.names[i] \in Purse(f.page[i])
      BY <1>0, <1>5, <3>3 DEF HoldersExact
    <3>6. pc' \in Final =>
            DOMAIN f.recs = DOMAIN f.names /\ \A i \in DOMAIN f.names : f.recs[i] = truth[f.names[i]]
      BY <1>0, <1>5 DEF HoldersExact
    <3> QED  BY <3>1, <3>4, <3>5, <3>6, SameTruth DEF HoldersExact
  <2>2. SearchExact' /\ RecordsExact' /\ HandleExact' /\ HolderExact'
    BY <1>5 DEF SearchExact, RecordsExact, HandleExact, HolderExact
  <2> QED  BY <2>1, <2>2 DEF Exact
<1> QED  BY <1>1, <1>3, <1>4, <1>5

(* The holders shown depend on the records and the page alone. *)
LEMMA SameShown ==
  ASSUME UNCHANGED <<truth, q>>, f'.recs = f.recs, f'.page = f.page
  PROVE  Shown' = Shown
BY DEF Shown, Sent

(* The chosen defaults are right where there is one. *)
LEMMA ChosenExact ==
  ASSUME QueryInv, Exact, Whole, UNCHANGED truth, ReadChosen
  PROVE  Exact'
<1>1. PICK p \in Picks(f.todo) : f' = [f EXCEPT !.best = p, !.todo = {w \in f.todo : p[w] = None}]
  BY DEF ReadChosen
<1>2. /\ pc = "chosen" /\ UNCHANGED <<truth, q>>
      /\ pc' = CASE q.kind = "search" -> "sets"
                 [] q.kind = "handle" -> "prefer"
                 [] q.kind = "holder" -> "first"
                 [] q.kind = "holders" -> "scores"
  BY DEF ReadChosen, Goes, Served
<1>3. f \in Frame /\ q.kind \in {"search", "handle", "holder", "holders"}  BY QueryKinds
<1>4. /\ f'.names = f.names /\ f'.recs = f.recs /\ f'.page = f.page /\ f'.total = f.total
      /\ f'.scores = f.scores /\ f'.sets = f.sets
      /\ f'.best = p /\ f'.todo = {w \in f.todo : p[w] = None}
  BY <1>1, <1>3 DEF Frame
<1>5. \A w \in Wallet : w \in f.todo /\ Favourites(w) # {} => p[w] \in Favourites(w)
  BY ReadWhole DEF Picks
<1>6. \A w \in Wallet : Favourites(w) = {} => p[w] = None
  BY ReadWhole DEF Picks
<1>7. ASSUME NEW w \in Shown
      PROVE  Resolved(w)' \/ (Unchosen(w)' /\ (q.kind = "handle" => f'.sets[w] = Purse(w)))
  <2>1. w \in Wallet /\ w \in f.todo /\ (q.kind = "handle" => f.sets[w] = Purse(w))
    BY <1>2, <1>3, <1>7, ShownIn DEF Exact, DefaultsExact, Answering
  <2>2. CASE Favourites(w) # {}
    <3>1. p[w] \in Favourites(w) /\ p[w] \in Purse(w)  BY <1>5, <2>1, <2>2 DEF Favourites
    <3>2. RightDefault(p[w], w)  BY <2>2, <3>1 DEF RightDefault
    <3>3. p[w] # None  BY <3>1, Givens DEF Purse
    <3> QED  BY <1>2, <1>4, <3>2, <3>3, SameTruth DEF Resolved
  <2>3. CASE Favourites(w) = {}
    <3>1. p[w] = None  BY <1>6, <2>1, <2>3
    <3> QED  BY <1>2, <1>4, <2>1, <2>3, <3>1, SameTruth DEF Unchosen
  <2> QED  BY <2>2, <2>3
<1>8. DefaultsExact'
  <2>1. Shown' = Shown  BY <1>2, <1>4, SameShown
  <2>2. pc' \in {"sets", "prefer", "first", "scores"} /\ (pc' = "sets" => q.kind # "handle")
        /\ (pc' = "prefer" => q.kind = "handle")
    BY <1>2, <1>3
  <2> QED  BY <1>2, <1>7, <2>1, <2>2, SameTruth DEF DefaultsExact
<1> QED  BY <1>2, <1>3, <1>4, <1>8, KeptExact DEF Answering, Final

(* The lists read are the handles of the holders. *)
LEMMA SetsExact ==
  ASSUME QueryInv, Exact, Whole, UNCHANGED truth, ReadSets
  PROVE  Exact'
<1> DEFINE sets == [w \in Wallet |-> IF w \in Computed THEN InWallet(w) ELSE {}]
<1>1. /\ pc = "sets" /\ UNCHANGED <<truth, q>>
      /\ f' = [f EXCEPT !.sets = sets, !.todo = Computed]
      /\ pc' = CASE q.kind = "search" -> "prefer"
                 [] q.kind = "handle" -> "chosen"
                 [] q.kind = "holders" -> "firsts"
  BY DEF ReadSets, Goes, Served
<1>2. f \in Frame /\ q.kind \in {"search", "handle", "holders"}
  <2>1. q.kind \in {"search", "handle", "holder", "holders"} /\ pc \in Stages[q.kind]  BY QueryKinds
  <2>2. q.kind # "holder"  BY <1>1, <2>1 DEF Stages
  <2> QED  BY <2>1, <2>2, QueryKinds
<1>3. \A w \in Computed : w \in Wallet /\ w \in f.todo /\ sets[w] = Purse(w)
  BY <1>2, ReadWhole DEF Computed, Frame
<1> HIDE DEF sets
<1>4. /\ f'.names = f.names /\ f'.recs = f.recs /\ f'.page = f.page /\ f'.total = f.total
      /\ f'.scores = f.scores /\ f'.best = f.best /\ f'.sets = sets /\ f'.todo = Computed
  BY <1>1, <1>2 DEF Frame
<1>5. ASSUME NEW w \in Shown, q.kind # "handle"
      PROVE  Resolved(w)' \/ (Unchosen(w)' /\ f'.sets[w] = Purse(w)) \/ Headed(w)'
  <2>1. Resolved(w) \/ Unchosen(w)  BY <1>1, <1>5 DEF Exact, DefaultsExact
  <2>2. CASE Resolved(w)
    <3>1. w \notin Computed  BY <1>3, <2>2 DEF Resolved
    <3> QED  BY <1>1, <1>4, <2>2, <3>1, SameTruth DEF Resolved
  <2>3. CASE Unchosen(w) /\ w \in Computed
    BY <1>1, <1>3, <1>4, <2>3, SameTruth DEF Unchosen
  <2>4. CASE Unchosen(w) /\ w \notin Computed
    <3>1. q.kind = "holders" /\ f.scores[w] \notin 2..Big  BY <1>2, <1>5, <2>4 DEF Computed, Unchosen
    <3>2. w \in Wallet /\ w \in ToSet(f.page)  BY <1>5, <3>1, ShownIn DEF Shown
    <3>3. f.scores[w] = Cardinality(Purse(w))  BY <1>1, <3>1, <3>2 DEF Exact, HoldersExact
    <3> QED  BY <1>1, <1>4, <2>4, <3>1, <3>3, SameTruth DEF Headed, Unchosen
  <2> QED  BY <2>1, <2>2, <2>3, <2>4
<1>6. ASSUME NEW w \in Shown, q.kind = "handle"
      PROVE  w \in f'.todo /\ f'.sets[w] = Purse(w)
  <2>1. w \in Computed  BY <1>1, <1>6 DEF Exact, DefaultsExact, Computed
  <2> QED  BY <1>3, <1>4, <2>1
<1>7. DefaultsExact'
  <2>1. Shown' = Shown  BY <1>1, <1>4, SameShown
  <2>2. \/ pc' \in {"prefer", "firsts"} /\ q.kind # "handle"
        \/ pc' = "chosen" /\ q.kind = "handle"
    BY <1>1, <1>2
  <2>3. CASE pc' \in {"prefer", "firsts"} /\ q.kind # "handle"
    BY <1>1, <1>5, <2>1, <2>3, SameTruth DEF DefaultsExact
  <2>4. CASE pc' = "chosen" /\ q.kind = "handle"
    BY <1>1, <1>6, <2>1, <2>4, SameTruth DEF DefaultsExact
  <2> QED  BY <2>2, <2>3, <2>4
<1> QED  BY <1>1, <1>2, <1>4, <1>7, KeptExact DEF Answering, Final

(* What is worked out for a wallet is what it should be. *)
LEMMA PreferredRight ==
  ASSUME NEW S, S \subseteq Name, S # {}
  PROVE  Preferred(S) \in S /\ \A m \in S \ {Preferred(S)} : Beats(Preferred(S), m)
<1>1. Length \in [Name -> Nat] /\ Og \in [Name -> Nat] /\ Born \in [Name -> Nat]
      /\ \A m, n \in Name : Og[m] = Og[n] /\ Og[m] # 0 => m = n
  BY QueriesAssumption
<1>2. \A n \in S : n \in Nat /\ Og[n] \in Nat /\ Length[n] \in Nat /\ Born[n] \in Nat  BY <1>1, Givens
<1> DEFINE ogs == {n \in S : Og[n] # 0}
           shortest == Least(S, Length)
           oldest == Least(shortest, Born)
           p == Preferred(S)
<1>3. CASE ogs # {}
  <2>1. \E n \in Least(ogs, Og) : TRUE  BY <1>1, <1>3, SomeLeast
  <2>2. p = CHOOSE n \in Least(ogs, Og) : TRUE  BY <1>3 DEF Preferred
  <2>3. p \in Least(ogs, Og)  BY <2>1, <2>2
  <2> HIDE DEF p
  <2>4. p \in S /\ Og[p] # 0 /\ \A m \in S : Og[m] # 0 => Og[p] <= Og[m]  BY <2>3 DEF Least
  <2>5. ASSUME NEW m \in S \ {p} PROVE Beats(p, m)
    <3>1. Og[m] # 0 => Og[p] # Og[m]  BY <1>1, <2>4
    <3> QED  BY <1>2, <2>4, <3>1 DEF Beats
  <2> QED  BY <2>4, <2>5 DEF p
<1>4. CASE ogs = {}
  <2>1. shortest # {} /\ shortest \subseteq S  BY <1>1, SomeLeast DEF Least
  <2>2. oldest # {} /\ oldest \subseteq shortest
    <3> HIDE DEF shortest
    <3> QED  BY <1>1, <2>1, SomeLeast DEF Least
  <2>3. oldest \subseteq Nat  BY <1>2, <2>1, <2>2
  <2>4. p = CHOOSE n \in oldest : \A m \in oldest : n <= m  BY <1>4 DEF Preferred
  <2>5. \A n \in oldest : \A m \in shortest : Born[n] <= Born[m]  BY DEF Least
  <2>6. \A n \in shortest : \A m \in S : Length[n] <= Length[m]  BY DEF Least
  <2>7. \A m \in shortest : (\A k \in shortest : Born[m] <= Born[k]) => m \in oldest  BY DEF Least
  <2>8. \A m \in S : (\A k \in S : Length[m] <= Length[k]) => m \in shortest  BY DEF Least
  <2> HIDE DEF oldest, p
  <2>9. p \in oldest /\ \A m \in oldest : p <= m
    <3>1. \E n \in oldest : \A m \in oldest : n <= m  BY <2>2, <2>3, LeastOf
    <3> QED  BY <2>4, <3>1
  <2> HIDE DEF shortest
  <2>10. ASSUME NEW m \in S \ {p} PROVE Beats(p, m)
    <3>1. p \in shortest /\ p \in S /\ Og[p] = 0 /\ Og[m] = 0  BY <1>4, <2>1, <2>2, <2>9
    <3>2. Length[p] <= Length[m]  BY <2>6, <3>1
    <3>3. Length[m] = Length[p] => m \in shortest /\ Born[p] <= Born[m]
      BY <2>5, <2>6, <2>8, <2>9, <3>1
    <3>4. Length[m] = Length[p] /\ Born[m] = Born[p] => m \in oldest /\ p <= m
      BY <2>5, <2>7, <2>9, <3>3
    <3> QED  BY <1>2, <3>1, <3>2, <3>3, <3>4 DEF Beats
  <2> QED  BY <2>1, <2>2, <2>9, <2>10 DEF p
<1> QED  BY <1>3, <1>4

(* A default computed from the list of a holder is right. *)
LEMMA PreferExact ==
  ASSUME QueryInv, Exact, Whole, UNCHANGED truth, NEW v \in Wallet, Prefer(v)
  PROVE  Exact'
<1>1. PICK n \in Candidates(f.sets[v]) :
        f' = [f EXCEPT !.best[v] = IF n # None THEN n ELSE f.best[v], !.todo = f.todo \ {v}, !.sets[v] = {}]
  BY DEF Prefer
<1>2. pc = "prefer" /\ pc' = "prefer" /\ v \in f.todo /\ UNCHANGED <<truth, q>>
  BY DEF Prefer, Goes, Served
<1>3. f \in Frame /\ q.kind \in {"search", "handle", "holder", "holders"}  BY QueryKinds
<1>4. /\ f'.names = f.names /\ f'.recs = f.recs /\ f'.page = f.page /\ f'.total = f.total
      /\ f'.scores = f.scores /\ f'.todo = f.todo \ {v}
      /\ f'.best[v] = (IF n # None THEN n ELSE f.best[v])
      /\ \A w \in Wallet \ {v} : f'.best[w] = f.best[w] /\ f'.sets[w] = f.sets[w]
  BY <1>1, <1>3 DEF Frame
<1>5. ASSUME NEW w \in Shown
      PROVE  Resolved(w)' \/ (Unchosen(w)' /\ f'.sets[w] = Purse(w)) \/ Headed(w)'
  <2>1. Resolved(w) \/ (Unchosen(w) /\ f.sets[w] = Purse(w)) \/ Headed(w)
    BY <1>2, <1>5 DEF Exact, DefaultsExact
  <2>2. w \in Wallet /\ Purse(w) # {}  BY <1>2, <1>3, <1>5, ShownIn DEF Answering
  <2>3. CASE w # v
    <3>1. f'.best[w] = f.best[w] /\ f'.sets[w] = f.sets[w] /\ (w \in f'.todo <=> w \in f.todo)
      BY <1>4, <2>2, <2>3
    <3> QED  BY <1>2, <2>1, <3>1, SameTruth DEF Resolved, Unchosen, Headed
  <2>4. CASE w = v
    <3>1. Favourites(v) = {} /\ f.sets[v] = Purse(v)  BY <1>2, <2>1, <2>4 DEF Resolved, Unchosen, Headed
    <3>2. Purse(v) \subseteq Name /\ Present("handle") = {m \in Name : Held(m)}
          /\ Purse(v) \subseteq Present("handle") /\ IsFiniteSet(Purse(v))
      BY ReadWhole, Finite DEF Purse, Indexes
    <3>3. n \in Purse(v) /\ RightDefault(n, v)
      <4>1. CASE Cardinality(Purse(v)) > Big
        <5>1. Candidates(Purse(v)) = {IF q.kind = "search" \/ m \in Present("handle") THEN m ELSE None : m \in Purse(v)}
          BY <4>1 DEF Candidates
        <5>2. n \in Purse(v)  BY <1>1, <3>1, <3>2, <5>1
        <5> QED  BY <3>1, <4>1, <5>2 DEF RightDefault
      <4>2. CASE ~(Cardinality(Purse(v)) > Big) /\ Cardinality(Purse(v)) = 1 /\ q.kind = "search"
        <5>1. n \in Purse(v)  BY <1>1, <3>1, <4>2 DEF Candidates
        <5>2. \A m \in Purse(v) : m = n
          <6>1. PICK x : Purse(v) = {x}  BY <3>2, <4>2, FS_Singleton
          <6> QED  BY <5>1, <6>1
        <5> QED  BY <3>1, <5>1, <5>2 DEF RightDefault
      <4>3. CASE ~(Cardinality(Purse(v)) > Big) /\ ~(Cardinality(Purse(v)) = 1 /\ q.kind = "search")
        <5>1. n = Preferred(Purse(v) \intersect Present("handle"))  BY <1>1, <3>1, <4>3 DEF Candidates
        <5>2. Purse(v) \intersect Present("handle") = Purse(v)  BY <3>2
        <5>3. n \in Purse(v) /\ \A m \in Purse(v) \ {n} : Beats(n, m)
          BY <2>2, <2>4, <3>2, <5>1, <5>2, PreferredRight
        <5> QED  BY <3>1, <5>3 DEF RightDefault
      <4> QED  BY <4>1, <4>2, <4>3
    <3>4. n # None  BY <3>2, <3>3, Givens
    <3> QED  BY <1>2, <1>4, <2>4, <3>3, <3>4, SameTruth DEF Resolved
  <2> QED  BY <2>3, <2>4
<1>6. DefaultsExact'
  <2>1. Shown' = Shown  BY <1>2, <1>4, SameShown
  <2> QED  BY <1>2, <1>5, <2>1, SameTruth DEF DefaultsExact
<1> QED  BY <1>2, <1>3, <1>4, <1>6, KeptExact DEF Answering, Final

(* When none is left to compute, every holder shown has its default. *)
LEMMA EndExacts ==
  ASSUME QueryInv, Exact, UNCHANGED truth, EndPrefer \/ ReadStatus
  PROVE  Exact'
<1>1. f \in Frame /\ q.kind \in {"search", "handle", "holder", "holders"}  BY QueryKinds
<1>2. UNCHANGED <<truth, q>>  BY DEF EndPrefer, ReadStatus
<1>3. CASE EndPrefer
  <2>1. pc = "prefer" /\ pc' = "status" /\ f.todo = {} /\ f' = [f EXCEPT !.sets = Fresh.sets]
    BY <1>3 DEF EndPrefer, Goes
  <2>2. /\ f'.names = f.names /\ f'.recs = f.recs /\ f'.page = f.page /\ f'.total = f.total
        /\ f'.scores = f.scores /\ f'.best = f.best /\ f'.todo = f.todo
    BY <1>1, <2>1 DEF Frame
  <2>3. \A w \in Shown : Resolved(w) \/ Headed(w)  BY <2>1 DEF Exact, DefaultsExact, Unchosen
  <2>4. Shown' = Shown  BY <1>2, <2>2, SameShown
  <2>5. \A w : (Resolved(w)' <=> Resolved(w)) /\ (Headed(w)' <=> Headed(w))
    BY <1>2, <2>2, SameTruth DEF Resolved, Headed
  <2>6. DefaultsExact'  BY <2>1, <2>3, <2>4, <2>5 DEF DefaultsExact
  <2> QED  BY <1>1, <1>2, <2>1, <2>2, <2>6, KeptExact DEF Answering, Final
<1>4. CASE ReadStatus
  <2>1. pc = "status" /\ pc' = "done" /\ f' = f /\ status' # 404
    BY <1>4 DEF ReadStatus, StatusNow
  <2>2. \A w \in Shown : Resolved(w) \/ Headed(w)  BY <2>1 DEF Exact, DefaultsExact
  <2>3. Shown' = Shown  BY <1>2, <2>1, SameShown
  <2>4. \A w : (Resolved(w)' <=> Resolved(w)) /\ (Headed(w)' <=> Headed(w))
    BY <1>2, <2>1, SameTruth DEF Resolved, Headed
  <2>5. DefaultsExact'  BY <2>1, <2>2, <2>3, <2>4 DEF DefaultsExact
  <2> QED  BY <1>1, <1>2, <2>1, <2>5, KeptExact DEF Answering, Final
<1> QED  BY <1>3, <1>4

-----------------------------------------------------------------------------
(* The list of holders. *)
LEMMA PurseOrder == ASSUME NEW S, S \subseteq Wallet PROVE Total(S, ByPurse)
<1> DEFINE c(w) == Cardinality(Purse(w))
<1>1. \A w : Purse(w) \subseteq Name  BY DEF Purse
<1>2. \A x \in S : x \in Nat /\ c(x) \in Nat  BY <1>1, Givens, Finite
<1>3. \A x, y \in S : <<x, y>> \in ByPurse <=> Sorted(c(x), c(y), x, y)  BY DEF ByPurse
<1> HIDE DEF c
<1>4. \A x, y \in S : <<x, y>> \in ByPurse <=>
          IF q.sort = "desc" THEN c(y) < c(x) \/ (c(y) = c(x) /\ y < x)
          ELSE c(x) < c(y) \/ (c(x) = c(y) /\ x < y)
  BY <1>3 DEF Sorted, Scored
<1> QED  BY <1>2, <1>4 DEF Total

(* Every entry of a list is one of its members. *)
LEMMA Members == ASSUME NEW T, NEW s \in Seq(T) PROVE \A i \in DOMAIN s : s[i] \in T
OBVIOUS

(* The holders on a page hold something. *)
LEMMA PageHolds ==
  ASSUME q \in Request, f.page = Page(Ordered(Holding, ByPurse))
  PROVE  \A i \in DOMAIN f.page : f.page[i] \in Wallet /\ Purse(f.page[i]) # {}
<1>1. Holding \subseteq Wallet /\ IsFiniteSet(Holding)  BY Finite DEF Holding
<1>2. Ordered(Holding, ByPurse) \in Seq(Holding)  BY <1>1, PurseOrder, ListOf
<1>3. f.page \in Seq(Holding)  BY <1>2, PageHas
<1>4. \A i \in DOMAIN f.page : f.page[i] \in Holding  BY <1>3, Members
<1> QED  BY <1>4 DEF Holding

(* The calls that only requests about holders make. *)
LEMMA HolderKinds ==
  ASSUME QueryInv
  PROVE  /\ pc \in {"page", "scores", "heads", "firsts"} => q.kind = "holders"
         /\ pc \in {"members", "first"} => q.kind = "holder"
<1>1. q.kind \in {"search", "handle", "holder", "holders"} /\ pc \in Stages[q.kind]  BY QueryKinds
<1> QED  BY <1>1 DEF Stages, Turn

(* The calls that list the holders. *)
LEMMA HoldersExacts ==
  ASSUME QueryInv, Exact, Whole, UNCHANGED truth, ReadPage \/ ReadScores \/ ReadHeads \/ ReadFirsts
  PROVE  Exact'
<1>1. UNCHANGED <<truth, q>> /\ f \in Frame /\ q.kind = "holders" /\ q \in Request
  BY QueryKinds, HolderKinds DEF ReadPage, ReadScores, ReadHeads, ReadFirsts, Served
<1>2. SearchExact' /\ RecordsExact' /\ HandleExact' /\ HolderExact'
  BY <1>1 DEF SearchExact, RecordsExact, HandleExact, HolderExact
<1>3. SUFFICES HoldersExact' /\ DefaultsExact'  BY <1>2 DEF Exact
<1>4. \A w : InWallet(w) = Purse(w)  BY ReadWhole
<1>5. CASE ReadPage
  <2> DEFINE held == {w \in Wallet : InWallet(w) # {}}
             page == Page(Ordered(held, ByCount))
  <2>1. pc' = "chosen" /\ f' = [f EXCEPT !.page = page, !.todo = ToSet(page)]
    BY <1>5 DEF ReadPage, Goes
  <2>2. held = Holding /\ ByCount = ByPurse  BY <1>4 DEF Holding, ByCount, ByPurse
  <2>3. page = Page(Ordered(Holding, ByPurse))  BY <2>2
  <2> HIDE DEF page
  <2>4. f'.page = page /\ f'.todo = ToSet(page)  BY <1>1, <2>1 DEF Frame
  <2>5. HoldersExact'  BY <1>1, <2>1, <2>3, <2>4, SameTruth DEF HoldersExact, Final
  <2>6. DefaultsExact'  BY <1>1, <2>1, <2>4 DEF DefaultsExact, Shown
  <2> QED  BY <2>5, <2>6
<1>6. CASE ReadScores
  <2> DEFINE scores == [w \in Wallet |-> IF w \in ToSet(f.page) THEN Cardinality(InWallet(w)) ELSE 0]
  <2>1. pc = "scores" /\ pc' = "heads" /\ f' = [f EXCEPT !.scores = scores]  BY <1>6 DEF ReadScores, Goes
  <2>2. \A w \in Wallet : scores[w] = IF w \in ToSet(f.page) THEN Cardinality(Purse(w)) ELSE 0  BY <1>4
  <2> HIDE DEF scores
  <2>3. f'.scores = scores /\ f'.page = f.page /\ f'.recs = f.recs /\ f'.best = f.best /\ f'.todo = f.todo
    BY <1>1, <2>1 DEF Frame
  <2>4. f.page = Page(Ordered(Holding, ByPurse))  BY <1>1, <2>1 DEF Exact, HoldersExact
  <2>5. HoldersExact'  BY <1>1, <2>1, <2>2, <2>3, <2>4, SameTruth DEF HoldersExact, Final
  <2>6. \A w \in Shown : Resolved(w)' \/ Unchosen(w)'
    BY <1>1, <2>1, <2>3, SameTruth DEF Exact, DefaultsExact, Resolved, Unchosen
  <2>7. Shown' = Shown  BY <1>1, <2>3, SameShown
  <2>8. DefaultsExact'  BY <2>1, <2>6, <2>7 DEF DefaultsExact
  <2> QED  BY <2>5, <2>8
<1>7. CASE ReadHeads
  <2> DEFINE s == Heads
  <2>1. pc = "heads" /\ pc' = "sets" /\ f' = [f EXCEPT !.names = s]  BY <1>7 DEF ReadHeads, Goes
  <2>2. f.page = Page(Ordered(Holding, ByPurse))
        /\ \A w \in Wallet : f.scores[w] = IF w \in ToSet(f.page) THEN Cardinality(Purse(w)) ELSE 0
    BY <1>1, <2>1 DEF Exact, HoldersExact
  <2>3. ASSUME NEW i \in DOMAIN f.page PROVE s[i] \in Purse(f.page[i])
    <3> DEFINE S == InWallet(f.page[i])
    <3>1. s[i] = IF S = {} THEN None ELSE CHOOSE n \in S : \A m \in S : n <= m  BY <2>3 DEF Heads
    <3>2. S = Purse(f.page[i])  BY <1>4
    <3>3. S # {} /\ S \subseteq Nat  BY <1>1, <2>2, <2>3, <3>2, PageHolds, Givens DEF Purse
    <3> HIDE DEF S, s
    <3>4. \E n \in S : \A m \in S : n <= m  BY <3>3, LeastOf
    <3> QED  BY <3>1, <3>2, <3>3, <3>4
  <2>4. DOMAIN s = DOMAIN f.page  BY DEF Heads
  <2> HIDE DEF s
  <2>5. /\ f'.names = s /\ f'.page = f.page /\ f'.recs = f.recs /\ f'.best = f.best /\ f'.todo = f.todo
        /\ f'.scores = f.scores
    BY <1>1, <2>1 DEF Frame
  <2>6. HoldersExact'  BY <1>1, <2>1, <2>2, <2>3, <2>4, <2>5, SameTruth DEF HoldersExact, Final
  <2>7. \A w \in Shown : Resolved(w)' \/ Unchosen(w)'
    BY <1>1, <2>1, <2>5, SameTruth DEF Exact, DefaultsExact, Resolved, Unchosen
  <2>8. Shown' = Shown  BY <1>1, <2>5, SameShown
  <2>9. DefaultsExact'  BY <1>1, <2>1, <2>7, <2>8 DEF DefaultsExact
  <2> QED  BY <2>6, <2>9
<1>8. CASE ReadFirsts
  <2> DEFINE recs == [i \in DOMAIN f.names |-> IF f.names[i] = None THEN None ELSE index["handle"][f.names[i]]]
  <2>1. pc = "firsts" /\ pc' = "prefer" /\ f' = [f EXCEPT !.recs = recs]  BY <1>8 DEF ReadFirsts, Goes
  <2>2. /\ f.page = Page(Ordered(Holding, ByPurse))
        /\ \A w \in Wallet : f.scores[w] = IF w \in ToSet(f.page) THEN Cardinality(Purse(w)) ELSE 0
        /\ DOMAIN f.names = DOMAIN f.page /\ \A i \in DOMAIN f.page : f.names[i] \in Purse(f.page[i])
    BY <1>1, <2>1 DEF Exact, HoldersExact
  <2>3. \A i \in DOMAIN f.names : f.names[i] # None  BY <2>2, Givens DEF Purse
  <2>4. DOMAIN recs = DOMAIN f.names /\ \A i \in DOMAIN f.names : recs[i] = truth[f.names[i]]
    BY <2>3, ReadWhole DEF Indexes
  <2> HIDE DEF recs
  <2>5. /\ f'.names = f.names /\ f'.page = f.page /\ f'.recs = recs /\ f'.best = f.best /\ f'.todo = f.todo
        /\ f'.scores = f.scores /\ f'.sets = f.sets
    BY <1>1, <2>1 DEF Frame
  <2>6. HoldersExact'  BY <1>1, <2>1, <2>2, <2>4, <2>5, SameTruth DEF HoldersExact
  <2>7. \A w \in Shown : Resolved(w)' \/ (Unchosen(w)' /\ f'.sets[w] = Purse(w)) \/ Headed(w)'
    BY <1>1, <2>1, <2>5, SameTruth DEF Exact, DefaultsExact, Resolved, Unchosen, Headed
  <2>8. Shown' = Shown  BY <1>1, <2>5 DEF Shown
  <2>9. DefaultsExact'  BY <1>1, <2>1, <2>7, <2>8, SameTruth DEF DefaultsExact
  <2> QED  BY <2>6, <2>9
<1> QED  BY <1>5, <1>6, <1>7, <1>8

(* One holder. *)
LEMMA HolderExacts ==
  ASSUME QueryInv, Exact, Whole, UNCHANGED truth, ReadMembers \/ ReadFirst
  PROVE  Exact'
<1>1. UNCHANGED <<truth, q>> /\ f \in Frame /\ q.kind = "holder" /\ q.wallet \in Wallet
  BY QueryKinds, HolderKinds DEF ReadMembers, ReadFirst, Served
<1>2. SearchExact' /\ RecordsExact' /\ HandleExact' /\ HoldersExact'
  BY <1>1 DEF SearchExact, RecordsExact, HandleExact, HoldersExact
<1>3. SUFFICES HolderExact' /\ DefaultsExact'  BY <1>2 DEF Exact
<1>4. \A w : InWallet(w) = Purse(w)  BY ReadWhole
<1>5. Shown = {q.wallet} /\ Shown' = {q.wallet}  BY <1>1 DEF Shown
<1>6. CASE ReadMembers
  <2>1. /\ pc' = "chosen"
        /\ f' = [f EXCEPT !.sets[q.wallet] = InWallet(q.wallet), !.todo = {q.wallet},
                          !.total = Cardinality(InWallet(q.wallet))]
    BY <1>6 DEF ReadMembers, Goes
  <2>2. f'.sets[q.wallet] = Purse(q.wallet) /\ f'.todo = {q.wallet} /\ f'.total = Cardinality(Purse(q.wallet))
    BY <1>1, <1>4, <2>1 DEF Frame
  <2>3. HolderExact'  BY <1>1, <2>1, <2>2, SameTruth DEF HolderExact, Final
  <2>4. DefaultsExact'  BY <1>1, <1>5, <2>1, <2>2 DEF DefaultsExact
  <2> QED  BY <2>3, <2>4
<1>7. CASE ReadFirst
  <2> DEFINE S == f.sets[q.wallet]
  <2>1. pc = "first"  BY <1>7 DEF ReadFirst
  <2>2. S = Purse(q.wallet) /\ f.total = Cardinality(Purse(q.wallet))  BY <1>1, <2>1 DEF Exact, HolderExact
  <2>3. PICK n \in IF S = {} THEN {None} ELSE S :
          /\ f' = [f EXCEPT !.names = <<None>>, !.recs = <<IF n = None THEN None ELSE index["handle"][n]>>]
          /\ IF (IF n = None THEN None ELSE index["handle"][n]) = None THEN pc' = "done" /\ status' = 404
             ELSE pc' = "prefer" /\ UNCHANGED status
    BY <1>7, Zenon DEF ReadFirst, Goes
  <2> DEFINE rec == IF n = None THEN None ELSE index["handle"][n]
  <2>4. (rec = None <=> S = {}) /\ (rec # None => rec.wallet = q.wallet)
    <3>1. CASE S = {}  BY <2>3, <3>1
    <3>2. CASE S # {}
      <4>1. n \in Purse(q.wallet)  BY <2>2, <2>3, <3>2
      <4>2. n # None /\ truth[n] # None /\ truth[n].wallet = q.wallet  BY <4>1, Givens DEF Purse, Held
      <4> QED  BY <3>2, <4>2, ReadWhole DEF Indexes
    <3> QED  BY <3>1, <3>2
  <2>5. /\ f' = [f EXCEPT !.names = <<None>>, !.recs = <<rec>>]
        /\ rec = None => pc' = "done" /\ status' = 404
        /\ rec # None => pc' = "prefer"
    BY <2>3
  <2> HIDE DEF rec
  <2>6. /\ f'.names = <<None>> /\ f'.recs = <<rec>> /\ f'.best = f.best /\ f'.todo = f.todo
        /\ f'.sets = f.sets /\ f'.total = f.total
    BY <1>1, <2>5 DEF Frame
  <2>7. DOMAIN f'.recs = {1} /\ DOMAIN f'.names = {1} /\ f'.recs[1] = rec  BY <2>6
  <2>8. HolderExact'
    <3>1. pc' \in {"done", "prefer"}  BY <2>5
    <3>2. pc' = "prefer" => Purse(q.wallet) # {} /\ MemberRead'
      BY <1>1, <2>2, <2>4, <2>5, <2>7 DEF MemberRead
    <3>3. pc' = "done" => status' = 404 /\ Purse(q.wallet) = {}  BY <2>2, <2>4, <2>5
    <3> QED  BY <1>1, <2>2, <2>6, <2>7, <3>1, <3>2, <3>3, SameTruth DEF HolderExact
  <2>9. DefaultsExact'
    <3>1. Resolved(q.wallet) \/ Unchosen(q.wallet)  BY <1>5, <2>1 DEF Exact, DefaultsExact
    <3>2. Resolved(q.wallet)' \/ (Unchosen(q.wallet)' /\ f'.sets[q.wallet] = Purse(q.wallet))
      <4>1. UNCHANGED <<truth, q>> /\ f'.sets[q.wallet] = Purse(q.wallet)  BY <1>1, <2>2, <2>6
      <4> QED  BY <2>6, <3>1, <4>1, SameTruth DEF Resolved, Unchosen
    <3> QED  BY <1>1, <1>5, <2>5, <3>2, SameTruth DEF DefaultsExact
  <2> QED  BY <2>8, <2>9
<1> QED  BY <1>6, <1>7

-----------------------------------------------------------------------------

(* Every step of the request and of the scanner keeps the answer exact. *)
LEMMA ExactStep ==
  ASSUME QueryInv, ExactInv, QueryNext \/ UNCHANGED queryVars
  PROVE  ExactInv'
<1>1. CASE Begin  BY <1>1, BeginExact DEF ExactInv
<1>2. CASE ~Begin
  <2> SUFFICES ASSUME Quiet' PROVE Exact'  BY DEF ExactInv
  <2>1. Exact /\ UNCHANGED truth /\ (Served => Whole)  BY <1>2, QuietBefore DEF ExactInv
  <2>2. CASE Scanner \/ UNCHANGED queryVars
    <3>1. UNCHANGED <<q, pc, f, status>>
      BY <2>2 DEF Scanner, Save, Burn, LockReindex, Wipe, WriteBack, EndReindex, FailReindex, others, queryVars
    <3> QED  BY <2>1, <3>1, ExactSame
  <2>3. CASE ReadList \/ ReadLength \/ ReadWallet \/ ReadKeys \/ ReadHexes
    <3>1. Served  BY <2>3 DEF ReadList, ReadLength, ReadWallet, ReadKeys, ReadHexes, ReadTerm
    <3> QED  BY <2>1, <2>3, <3>1, TermExacts
  <2>4. CASE ReadTotal \/ ReadNames \/ ReadBounds
    <3>1. Served  BY <2>4 DEF ReadTotal, ReadNames, ReadBounds
    <3> QED  BY <2>1, <2>4, <3>1, ListExacts
  <2>5. CASE ReadRange \/ EndRange
    <3>1. ReadRange => Whole  BY <2>1 DEF ReadRange
    <3> QED  BY <2>1, <2>5, <3>1, RangeExacts
  <2>6. CASE ReadRecords
    <3>1. Served  BY <2>6 DEF ReadRecords
    <3> QED  BY <2>1, <2>6, <3>1, RecordsExacts
  <2>7. CASE ReadChosen
    <3>1. Served  BY <2>7 DEF ReadChosen
    <3> QED  BY <2>1, <2>7, <3>1, ChosenExact
  <2>8. CASE ReadSets
    <3>1. Served  BY <2>8 DEF ReadSets
    <3> QED  BY <2>1, <2>8, <3>1, SetsExact
  <2>9. ASSUME NEW w \in Wallet, Prefer(w) PROVE Exact'
    <3>1. Served  BY <2>9 DEF Prefer
    <3> QED  BY <2>1, <2>9, <3>1, PreferExact
  <2>10. CASE EndPrefer \/ ReadStatus  BY <2>1, <2>10, EndExacts
  <2>11. CASE ReadPage \/ ReadScores \/ ReadHeads \/ ReadFirsts
    <3>1. Served  BY <2>11 DEF ReadPage, ReadScores, ReadHeads, ReadFirsts
    <3> QED  BY <2>1, <2>11, <3>1, HoldersExacts
  <2>12. CASE ReadMembers \/ ReadFirst
    <3>1. Served  BY <2>12 DEF ReadMembers, ReadFirst
    <3> QED  BY <2>1, <2>12, <3>1, HolderExacts
  <2> QED  BY <1>2, <2>2, <2>3, <2>4, <2>5, <2>6, <2>7, <2>8, <2>9, <2>10, <2>11, <2>12 DEF QueryNext, Reader
<1> QED  BY <1>1, <1>2

(***************************************************************************)
(* Where nothing is written under a request and no index it reads is       *)
(* wiped, every call brings it what the handles say.                       *)
(***************************************************************************)
THEOREM QuietInvariant == QuerySpec => []ExactInv
<1>1. QueryInit => ExactInv  BY InitExact DEF ExactInv
<1>2. QueryInv /\ ExactInv /\ [QueryNext]_queryVars => ExactInv'  BY ExactStep
<1> QED  BY <1>1, <1>2, QueryInvariant, PTL DEF QuerySpec

-----------------------------------------------------------------------------
(* A page of an ordered set has the members whose number is on the page,   *)
(* each at its place.                                                      *)
LEMMA PageRanked ==
  ASSUME NEW S, IsFiniteSet(S), NEW R, Total(S, R), q \in Request
  PROVE  LET s == Page(Ordered(S, R)) IN
         /\ Len(s) = Cardinality({x \in S : OnPage(Cardinality(Below(S, R, x)))})
         /\ \A x \in S : OnPage(Cardinality(Below(S, R, x)))
                => s[Cardinality(Below(S, R, x)) - (q.page - 1) * PerPage + 1] = x
<1> DEFINE n == Cardinality(S)
           t == Ordered(S, R)
           s == Page(t)
           k(x) == Cardinality(Below(S, R, x))
           a == (q.page - 1) * PerPage
           b == q.page * PerPage
           e == IF b < n THEN b ELSE n
           P == {x \in S : OnPage(k(x))}
<1>1. n \in Nat  BY FS_CardinalityType
<1>2. /\ t \in [1 .. n -> S]
      /\ \A i, j \in DOMAIN t : i < j => <<t[i], t[j]>> \in R
      /\ \A x \in S : \E i \in DOMAIN t : t[i] = x
      /\ \A i \in DOMAIN t : k(t[i]) = i - 1
  BY OrderedIs
<1>3. a \in Nat /\ b \in Nat /\ b = a + PerPage /\ PerPage \in Nat \ {0}
  <2>1. q.page \in Nat \ {0} /\ PerPage \in Nat \ {0}  BY QueriesAssumption
  <2> QED  BY <2>1
<1>4. s = SubSeq(t, a + 1, e)
  <2>1. Len(t) = n  BY <1>1, <1>2
  <2> QED  BY <2>1 DEF Page
<1>5. \A x : OnPage(x) <=> x \in a .. b - 1  BY DEF OnPage
<1> HIDE DEF n, t, s, k, a, b
<1>6. e \in Nat /\ e <= n /\ e <= b  BY <1>1, <1>3
<1>7. \A j \in a + 1 .. e : j \in 1 .. n /\ j - 1 \in a .. b - 1  BY <1>1, <1>3, <1>6
<1>8. \A j \in a + 1 .. e : t[j] \in P
  BY <1>2, <1>5, <1>7
<1>9. ASSUME NEW x \in P PROVE k(x) + 1 \in a + 1 .. e /\ t[k(x) + 1] = x /\ k(x) \in Nat
  <2>1. x \in S /\ k(x) \in a .. b - 1  BY <1>5
  <2>2. PICK i \in 1 .. n : t[i] = x  BY <1>2, <2>1
  <2>3. k(x) = i - 1  BY <1>2, <2>2
  <2>4. i = k(x) + 1 /\ k(x) \in Nat  BY <1>1, <2>3
  <2>5. i \in a + 1 .. e  BY <1>1, <1>3, <2>1, <2>2, <2>3
  <2> QED  BY <2>2, <2>4, <2>5
<1> HIDE DEF e
<1>10. Len(s) = (IF a + 1 <= e THEN e - a ELSE 0) /\ \A i \in 1 .. e - a : s[i] = t[a + i]
  <2>1. t \in Seq(S) /\ Len(t) = n  BY <1>1, <1>2
  <2>2. a + 1 \in Nat /\ a + 1 >= 1 /\ e \in Nat /\ e <= Len(t)  BY <1>3, <1>6, <2>1
  <2>3. /\ Len(SubSeq(t, a + 1, e)) = (IF a + 1 <= e THEN e - (a + 1) + 1 ELSE 0)
        /\ \A i \in 1 .. e - (a + 1) + 1 : SubSeq(t, a + 1, e)[i] = t[(a + 1) + i - 1]
    BY <2>1, <2>2
  <2>4. e - (a + 1) + 1 = e - a /\ \A i \in 1 .. e - a : (a + 1) + i - 1 = a + i  BY <1>3, <1>6
  <2> QED  BY <1>4, <2>3, <2>4
<1>11. Cardinality(P) = IF a + 1 <= e THEN e - a ELSE 0
  <2> DEFINE I == a + 1 .. e
             g == [j \in I |-> t[j]]
  <2>1. g \in [I -> P] /\ \A j \in I : g[j] = t[j]  BY <1>8
  <2> HIDE DEF P
  <2>2. \A j, l \in I : g[j] = g[l] => j = l
    <3> SUFFICES ASSUME NEW j \in I, NEW l \in I, t[j] = t[l] PROVE j = l  BY <2>1
    <3>1. j \in 1 .. n /\ l \in 1 .. n  BY <1>7
    <3>2. k(t[j]) = j - 1 /\ k(t[l]) = l - 1  BY <1>2, <3>1
    <3> QED  BY <1>1, <3>1, <3>2
  <2>3. \A x \in P : \E j \in I : g[j] = x  BY <1>9, <2>1
  <2> HIDE DEF g
  <2>4. g \in Bijection(I, P)
    BY <2>1, <2>2, <2>3 DEF Bijection, Injection, IsInjective, Surjection
  <2>5. IsFiniteSet(I) /\ Cardinality(I) = IF a + 1 > e THEN 0 ELSE e - (a + 1) + 1
    <3>1. a + 1 \in Int /\ e \in Int  BY <1>3, <1>6
    <3> QED  BY <3>1, FS_Interval
  <2>6. Cardinality(P) = Cardinality(I)
    <3>1. ExistsBijection(I, P)  BY <2>4 DEF ExistsBijection
    <3> HIDE DEF I
    <3> QED  BY <2>5, <3>1, FS_Bijection
  <2> QED  BY <1>3, <1>6, <2>5, <2>6
<1>12. ASSUME NEW x \in S, OnPage(k(x)) PROVE s[k(x) - a + 1] = x
  <2>1. x \in P  BY <1>12
  <2> HIDE DEF P
  <2>2. k(x) + 1 \in a + 1 .. e /\ t[k(x) + 1] = x /\ k(x) \in Nat  BY <1>9, <2>1
  <2>3. k(x) - a + 1 \in 1 .. e - a /\ a + (k(x) - a + 1) = k(x) + 1  BY <1>3, <1>6, <2>2
  <2> QED  BY <1>10, <2>2, <2>3
<1> QED  BY <1>10, <1>11, <1>12 DEF s, t, k, a

(* The page of names has each name wanted at its place. *)
LEMMA NamesRanked ==
  ASSUME q \in Request, f.names = Page(Ordered(Wanted, ByName))
  PROVE  Ranked(Wanted, f.names, Up)
<1> DEFINE S == Wanted
           s == f.names
<1>1. S \subseteq Name /\ IsFiniteSet(S) /\ Total(S, ByName)  BY Finite, NameOrder DEF Wanted
<1>2. \A x \in S : Below(S, ByName, x) = {y \in S : Up(y, x)}
  BY <1>1 DEF Below, ByName, Up
<1>3. \A x \in S : Cardinality(Below(S, ByName, x)) = Before(S, x, Up)  BY <1>2 DEF Before
<1>4. /\ Len(s) = Cardinality({x \in S : OnPage(Cardinality(Below(S, ByName, x)))})
      /\ \A x \in S : OnPage(Cardinality(Below(S, ByName, x)))
             => s[Cardinality(Below(S, ByName, x)) - (q.page - 1) * PerPage + 1] = x
  BY <1>1, PageRanked
<1> HIDE DEF s, S
<1>5. {x \in S : OnPage(Cardinality(Below(S, ByName, x)))} = {x \in S : OnPage(Before(S, x, Up))}
  BY <1>3
<1>6. Ranked(S, s, Up)  BY <1>3, <1>4, <1>5 DEF Ranked
<1> QED  BY <1>6 DEF S, s

(* The page of holders has each of them at its place. *)
LEMMA HoldersRanked ==
  ASSUME q \in Request, f.page = Page(Ordered(Holding, ByPurse))
  PROVE  Ranked(Holding, f.page, Richer)
<1> DEFINE S == Holding
           s == f.page
<1>1. S \subseteq Wallet /\ IsFiniteSet(S) /\ Total(S, ByPurse)  BY Finite, PurseOrder DEF Holding
<1>2. \A x \in S : Below(S, ByPurse, x) = {y \in S : Richer(y, x)}
  <2> SUFFICES ASSUME NEW x \in S, NEW y \in S PROVE <<y, x>> \in ByPurse <=> Richer(y, x)  BY DEF Below
  <2>1. <<y, x>> \in ByPurse <=> Sorted(Cardinality(Purse(y)), Cardinality(Purse(x)), y, x)  BY <1>1 DEF ByPurse
  <2>2. \A w : Purse(w) \subseteq Name  BY DEF Purse
  <2>3. x \in Nat /\ y \in Nat /\ Cardinality(Purse(y)) \in Nat /\ Cardinality(Purse(x)) \in Nat
    BY <1>1, <2>2, Givens, Finite
  <2> QED  BY <2>1, <2>3 DEF Sorted, Scored, Richer
<1>3. \A x \in S : Cardinality(Below(S, ByPurse, x)) = Before(S, x, Richer)  BY <1>2 DEF Before
<1>4. /\ Len(s) = Cardinality({x \in S : OnPage(Cardinality(Below(S, ByPurse, x)))})
      /\ \A x \in S : OnPage(Cardinality(Below(S, ByPurse, x)))
             => s[Cardinality(Below(S, ByPurse, x)) - (q.page - 1) * PerPage + 1] = x
  BY <1>1, PageRanked
<1> HIDE DEF s, S
<1>5. {x \in S : OnPage(Cardinality(Below(S, ByPurse, x)))} = {x \in S : OnPage(Before(S, x, Richer))}
  BY <1>3
<1>6. Ranked(S, s, Richer)  BY <1>3, <1>4, <1>5 DEF Ranked
<1> QED  BY <1>6 DEF S, s

(***************************************************************************)
(* A request under which nothing is written, and none of whose indexes was *)
(* wiped, is answered exactly: its matches on their page and in their      *)
(* order, its holders by what they hold, and the right default handles.    *)
(***************************************************************************)
THEOREM QuietExact == QuerySpec => []QuietAnswersAreExact
<1>1. ASSUME QueryInv, ExactInv PROVE QuietAnswersAreExact
  <2> SUFFICES ASSUME pc = "done", Quiet
      PROVE
        /\ q.kind = "handle" => (status = 404 <=> ~Held(q.name))
        /\ q.kind = "holder" => /\ status = 404 <=> Purse(q.wallet) = {}
                               /\ f.total = Cardinality(Purse(q.wallet))
        /\ q.kind = "search" =>
            /\ f.total = Cardinality(Wanted)
            /\ q.slot = NoSlot => Ranked(Wanted, f.names, Up)
        /\ q.kind = "holders" =>
            /\ Ranked({w \in Wallet : Purse(w) # {}}, f.page, Richer)
            /\ \A w \in ToSet(f.page) : f.scores[w] = Cardinality(Purse(w))
        /\ status # 404 => Sent = (IF q.kind = "holders" THEN DOMAIN f.page ELSE DOMAIN f.names)
        /\ \A i \in Sent : status # 404 => RightDefault(DefaultOf(i), ShownFor(i))
    BY DEF QuietAnswersAreExact
  <2>1. /\ SearchExact /\ RecordsExact /\ HandleExact /\ HolderExact /\ HoldersExact /\ DefaultsExact
        /\ pc \in Answering /\ pc \in Final /\ pc \notin {"begin", "members", "page"} /\ Exact
    BY <1>1 DEF ExactInv, Exact, Answering, Final
  <2>2. /\ q \in Request /\ q.kind \in {"search", "handle", "holder", "holders"} /\ f \in Frame
        /\ q.name \in Name
    BY <1>1, QueryKinds
  <2>3. q.kind = "search" =>
          /\ f.total = Cardinality(Wanted)
          /\ \A i \in DOMAIN f.names : f.names[i] \in Wanted
          /\ q.slot = NoSlot => Ranked(Wanted, f.names, Up)
    BY <2>1, <2>2, NamesRanked DEF SearchExact, Taken
  <2>4. q.kind = "holders" =>
          /\ Ranked({w \in Wallet : Purse(w) # {}}, f.page, Richer)
          /\ \A w \in ToSet(f.page) : f.scores[w] = Cardinality(Purse(w))
    <3> SUFFICES ASSUME q.kind = "holders"
                 PROVE  /\ Ranked({w \in Wallet : Purse(w) # {}}, f.page, Richer)
                        /\ \A w \in ToSet(f.page) : f.scores[w] = Cardinality(Purse(w))
      OBVIOUS
    <3>1. f.page = Page(Ordered(Holding, ByPurse))  BY <2>1 DEF HoldersExact
    <3>2. Ranked(Holding, f.page, Richer)  BY <2>2, <3>1, HoldersRanked
    <3>3. \A w \in ToSet(f.page) : w \in Wallet
      <4>1. f.page \in Seq(Wallet)  BY <2>2 DEF Frame
      <4> QED  BY <4>1 DEF ToSet
    <3>4. \A w \in Wallet : f.scores[w] = IF w \in ToSet(f.page) THEN Cardinality(Purse(w)) ELSE 0
      BY <2>1 DEF HoldersExact
    <3> QED  BY <3>2, <3>3, <3>4 DEF Holding
  <2>5. status # 404 =>
          Sent = (IF q.kind = "holders" THEN DOMAIN f.page ELSE DOMAIN f.names)
    <3> SUFFICES ASSUME status # 404
                 PROVE  Sent = (IF q.kind = "holders" THEN DOMAIN f.page ELSE DOMAIN f.names)
      OBVIOUS
    <3>1. CASE q.kind = "search"
      <4>1. DOMAIN f.recs = DOMAIN f.names /\ \A i \in DOMAIN f.names : f.recs[i] = truth[f.names[i]]
        BY <2>1, <3>1 DEF RecordsExact
      <4>2. \A i \in DOMAIN f.names : f.recs[i] # None  BY <2>3, <3>1, <4>1 DEF Wanted, Held
      <4> QED  BY <3>1, <4>1, <4>2 DEF Sent
    <3>2. CASE q.kind = "handle"
      <4>1. DOMAIN f.recs = DOMAIN f.names /\ \A i \in DOMAIN f.names : f.recs[i] = truth[f.names[i]]
        BY <2>1, <3>2 DEF RecordsExact
      <4>2. f.names = <<q.name>> /\ Held(q.name)  BY <2>1, <3>2 DEF HandleExact
      <4>3. \A i \in DOMAIN f.names : f.names[i] = q.name  BY <4>2
      <4>4. \A i \in DOMAIN f.names : f.recs[i] # None  BY <4>1, <4>2, <4>3 DEF Held
      <4> QED  BY <3>2, <4>1, <4>4 DEF Sent
    <3>3. CASE q.kind = "holder"
      <4>1. DOMAIN f.recs = {1} /\ DOMAIN f.names = {1} /\ f.recs[1] # None
        BY <2>1, <3>3 DEF HolderExact, MemberRead
      <4> QED  BY <3>3, <4>1 DEF Sent
    <3>4. CASE q.kind = "holders"
      <4>1. /\ DOMAIN f.names = DOMAIN f.page /\ \A i \in DOMAIN f.page : f.names[i] \in Purse(f.page[i])
            /\ DOMAIN f.recs = DOMAIN f.names /\ \A i \in DOMAIN f.names : f.recs[i] = truth[f.names[i]]
        BY <2>1, <3>4 DEF HoldersExact
      <4>2. \A i \in DOMAIN f.names : f.recs[i] # None  BY <4>1 DEF Purse, Held
      <4> QED  BY <3>4, <4>1, <4>2 DEF Sent
    <3> QED  BY <2>2, <3>1, <3>2, <3>3, <3>4
  <2>6. ASSUME NEW i \in Sent, status # 404 PROVE RightDefault(DefaultOf(i), ShownFor(i))
    <3> DEFINE w == AskedFor(i)
    <3>0. ShownFor(i) = w
      <4>1. CASE q.kind \in {"search", "handle"}  BY <4>1 DEF ShownFor, AskedFor
      <4>2. CASE q.kind = "holder"
        <5>1. i \in {1} /\ MemberRead  BY <2>1, <2>6, <4>2 DEF HolderExact, Sent
        <5> QED  BY <4>2, <5>1 DEF ShownFor, AskedFor, MemberRead
      <4>3. CASE q.kind = "holders"
        <5>1. f.names[i] \in Purse(f.page[i]) /\ f.recs[i] = truth[f.names[i]]
          BY <2>1, <2>5, <2>6, <4>3 DEF HoldersExact
        <5> QED  BY <4>3, <5>1 DEF ShownFor, AskedFor, Purse
      <4> QED  BY <2>2, <4>1, <4>2, <4>3
    <3> SUFFICES RightDefault(DefaultOf(i), w)  BY <3>0
    <3>1. w \in Shown
      <4>1. q.kind = "holders" => i \in DOMAIN f.page  BY <2>5, <2>6
      <4> QED  BY <2>2, <2>6, <4>1 DEF Shown, AskedFor, ToSet
    <3>2. Resolved(w) \/ Headed(w)  BY <2>1, <2>6, <3>1 DEF DefaultsExact
    <3>3. CASE Resolved(w)
      <4>1. RightDefault(f.best[w], w) /\ f.best[w] # None
        BY <3>3, Givens DEF Resolved, RightDefault, Purse
      <4> QED  BY <4>1 DEF DefaultOf
    <3>4. CASE Headed(w)
      <4>1. /\ q.kind = "holders" /\ Favourites(w) = {} /\ f.best[w] = None
            /\ Cardinality(Purse(w)) \notin 2 .. Big
        BY <3>4 DEF Headed
      <4>2. w = f.page[i] /\ i \in DOMAIN f.page /\ DefaultOf(i) = f.names[i]
        BY <2>5, <2>6, <4>1 DEF AskedFor, DefaultOf
      <4>3. f.names[i] \in Purse(w)  BY <2>1, <4>1, <4>2 DEF HoldersExact
      <4>4. Purse(w) \subseteq Name /\ IsFiniteSet(Purse(w)) /\ Cardinality(Purse(w)) \in Nat
        BY Finite DEF Purse
      <4>5. Cardinality(Purse(w)) # 0  BY <4>3, <4>4, FS_EmptySet
      <4>6. Cardinality(Purse(w)) = 1 \/ Cardinality(Purse(w)) > Big
        BY <4>1, <4>4, <4>5, QueriesAssumption
      <4>7. Cardinality(Purse(w)) = 1 => \A m \in Purse(w) : m = f.names[i]
        <5>1. Cardinality(Purse(w)) = 1 => \E x : Purse(w) = {x}  BY <4>4, FS_Singleton
        <5> QED  BY <4>3, <5>1
      <4> QED  BY <4>1, <4>2, <4>3, <4>6, <4>7 DEF RightDefault
    <3> QED  BY <3>2, <3>3, <3>4
  <2> QED  BY <2>1, <2>3, <2>4, <2>5, <2>6 DEF HandleExact, HolderExact
<1> QED  BY <1>1, QueryInvariant, QuietInvariant, PTL

-----------------------------------------------------------------------------
(***************************************************************************)
(* A search from a slot under which nothing is written.  Slots are told by *)
(* how far they are from the slot of the request, in the direction it asks *)
(* for; what was read reaches as far as the end of the last range.         *)
(***************************************************************************)
Away(s) == IF q.sort = "asc" THEN s - q.slot ELSE q.slot - s
Earlier == {p \in Name \X Name : Sooner(p[1], p[2])}
Edged == \E n \in Reached : OnEdge(n)

(* Nothing that comes sooner than an entry is missing before it. *)
NoGaps(s) == \A i \in DOMAIN s : \A n \in Reached :
                Sooner(n, s[i]) => \E j \in 1..i : s[j] = n
Rising(s) == \A i, j \in DOMAIN s : i < j => <<s[i], s[j]>> \in Earlier

RangesExact == q.slot # NoSlot /\ pc = "range" =>
    /\ f.count = Cardinality({n \in Name : Held(n)})
    /\ \E k \in Nat : Away(f.from) = k * Span
    /\ Away(f.from) = 0 => f.names = <<>>
    /\ \A i \in DOMAIN f.names : /\ f.names[i] \in Reached
                                 /\ Away(truth[f.names[i]].slot) <= Away(f.from)
    /\ \A n \in Reached : Away(f.from) # 0 /\ Away(truth[n].slot) <= Away(f.from)
                            => \E i \in DOMAIN f.names : f.names[i] = n
    /\ NoGaps(f.names)
    /\ ~Edged => Rising(f.names)

SlotsExact == q.slot # NoSlot /\ (pc = "records" \/ pc \in Answering) =>
    IF Edged THEN NoGaps(f.names) ELSE f.names = Page(Ordered(Reached, Earlier))

SlotExact == RangesExact /\ SlotsExact
SlotInv == Quiet => SlotExact

-----------------------------------------------------------------------------
(* A multiple leaves nothing when it is divided. *)
LEMMA Multiple ==
  ASSUME NEW k \in Nat, NEW d \in Nat \ {0}
  PROVE  (k * d) % d = 0 /\ k * d \in Nat /\ (k * d = 0 <=> k = 0)
OBVIOUS

(* A list that rises and leaves none out begins the ordered list. *)
LEMMA Prefix ==
  ASSUME NEW S, IsFiniteSet(S), NEW R, Total(S, R), NEW s \in Seq(S),
         \A i, j \in DOMAIN s : i < j => <<s[i], s[j]>> \in R,
         \A i \in DOMAIN s : \A x \in S : <<x, s[i]>> \in R => \E j \in 1..i : s[j] = x
  PROVE  Len(s) <= Cardinality(S) /\ \A i \in DOMAIN s : s[i] = Ordered(S, R)[i]
<1> DEFINE n == Cardinality(S)
           t == Ordered(S, R)
<1>1. n \in Nat  BY FS_CardinalityType
<1>2. /\ t \in [1 .. n -> S]
      /\ \A x \in S : \E i \in DOMAIN t : t[i] = x
      /\ \A i \in DOMAIN t : Cardinality(Below(S, R, t[i])) = i - 1
  BY OrderedIs
<1> HIDE DEF n, t
<1>3. ASSUME NEW i \in DOMAIN s PROVE i \in 1 .. n /\ s[i] = t[i]
  <2>0. Len(s) \in Nat /\ DOMAIN s = 1 .. Len(s) /\ i \in Nat /\ i >= 1 /\ i <= Len(s)  OBVIOUS
  <2>1. \A j \in 1 .. i - 1 : j \in DOMAIN s /\ s[j] \in Below(S, R, s[i])
    BY <2>0 DEF Below
  <2>2. ASSUME NEW x \in Below(S, R, s[i]) PROVE \E j \in 1 .. i - 1 : s[j] = x
    <3>1. x \in S /\ <<x, s[i]>> \in R  BY <2>2 DEF Below
    <3>2. PICK j \in 1 .. i : s[j] = x  BY <3>1
    <3>3. j # i  BY <3>1, <3>2 DEF Total
    <3>4. j \in 1 .. i - 1  BY <2>0, <3>3
    <3> QED  BY <3>2, <3>4
  <2>3. \A j, k \in 1 .. i - 1 : s[j] = s[k] => j = k
    <3> SUFFICES ASSUME NEW j \in 1 .. i - 1, NEW k \in 1 .. i - 1, s[j] = s[k], j # k PROVE FALSE
      OBVIOUS
    <3>1. j \in DOMAIN s /\ k \in DOMAIN s /\ (j < k \/ k < j)  BY <2>0, <2>1
    <3>2. <<s[j], s[j]>> \in R /\ s[j] \in S  BY <3>1
    <3> QED  BY <3>2 DEF Total
  <2> DEFINE g == [j \in 1 .. i - 1 |-> s[j]]
  <2>4. g \in Bijection(1 .. i - 1, Below(S, R, s[i]))
    <3>1. g \in [1 .. i - 1 -> Below(S, R, s[i])]  BY <2>1
    <3>2. \A j \in 1 .. i - 1 : g[j] = s[j]  OBVIOUS
    <3> HIDE DEF g
    <3> QED  BY <2>2, <2>3, <3>1, <3>2 DEF Bijection, Injection, IsInjective, Surjection
  <2>5. IsFiniteSet(1 .. i - 1) /\ Cardinality(1 .. i - 1) = i - 1
    <3>1. i - 1 \in Int /\ 1 \in Int /\ i >= 1  BY <2>0
    <3>2. Cardinality(1 .. i - 1) = (IF 1 > i - 1 THEN 0 ELSE (i - 1) - 1 + 1) /\ IsFiniteSet(1 .. i - 1)
      BY <3>1, FS_Interval
    <3> QED  BY <3>1, <3>2
  <2> HIDE DEF g
  <2>6. ExistsBijection(1 .. i - 1, Below(S, R, s[i]))  BY <2>4 DEF ExistsBijection
  <2>7. Cardinality(Below(S, R, s[i])) = i - 1  BY <2>5, <2>6, FS_Bijection
  <2>8. s[i] \in S  OBVIOUS
  <2>9. PICK j \in DOMAIN t : t[j] = s[i]  BY <1>2, <2>8
  <2>10. Cardinality(Below(S, R, s[i])) = j - 1 /\ j \in 1 .. n  BY <1>2, <2>9
  <2>11. j = i  BY <1>1, <2>0, <2>7, <2>10
  <2> QED  BY <2>9, <2>10, <2>11
<1>4. Len(s) <= n
  <2>1. Len(s) \in Nat /\ (Len(s) = 0 \/ Len(s) \in DOMAIN s)  OBVIOUS
  <2> QED  BY <1>1, <1>3, <2>1
<1> QED  BY <1>3, <1>4 DEF n, t

(* So its page is a page of the ordered list, if it fills the page or is   *)
(* all of it.                                                              *)
LEMMA CutPage ==
  ASSUME NEW S, IsFiniteSet(S), NEW R, Total(S, R), NEW s \in Seq(S), q.page = 1,
         \A i, j \in DOMAIN s : i < j => <<s[i], s[j]>> \in R,
         \A i \in DOMAIN s : \A x \in S : <<x, s[i]>> \in R => \E j \in 1..i : s[j] = x,
         \/ Len(s) >= PerPage \/ Len(s) >= Cardinality(S)
         \/ \A x \in S : \E i \in DOMAIN s : s[i] = x
  PROVE  Page(s) = Page(Ordered(S, R))
<1> DEFINE n == Cardinality(S)
           t == Ordered(S, R)
           cut(u) == IF PerPage < Len(u) THEN PerPage ELSE Len(u)
<1>1. n \in Nat /\ PerPage \in Nat \ {0}  BY FS_CardinalityType, Givens
<1>2. /\ t \in [1 .. n -> S]
      /\ \A i \in DOMAIN t : Cardinality(Below(S, R, t[i])) = i - 1
  BY OrderedIs
<1>3. Len(s) <= n /\ \A i \in DOMAIN s : s[i] = t[i]  BY Prefix
<1>4. \A u : Page(u) = SubSeq(u, 1, cut(u))
  <2>1. (1 - 1) * PerPage + 1 = 1 /\ 1 * PerPage = PerPage  BY <1>1
  <2> QED  BY <2>1 DEF Page
<1> HIDE DEF n, t
<1>5. t \in Seq(S) /\ Len(t) = n /\ Len(s) \in Nat /\ DOMAIN s = 1 .. Len(s)  BY <1>1, <1>2
<1> DEFINE l == Len(s)
<1>5a. l \in Nat /\ n \in Nat /\ PerPage \in Nat /\ l <= n  BY <1>1, <1>3, <1>5
<1> HIDE DEF l
<1>6. l >= PerPage \/ l = n
  <2>1. CASE \A x \in S : \E i \in DOMAIN s : s[i] = x
    <3>1. CASE n = 0  BY <1>5a, <3>1
    <3>2. CASE n # 0
      <4>1. n \in DOMAIN t /\ t[n] \in S  BY <1>1, <1>2, <3>2
      <4>2. PICK i \in DOMAIN s : s[i] = t[n]  BY <2>1, <4>1
      <4>3. i \in DOMAIN t /\ t[i] = t[n]  BY <1>1, <1>2, <1>3, <1>5, <4>2
      <4>4. i - 1 = n - 1  BY <1>2, <4>1, <4>3
      <4>5. i \in 1 .. n /\ i \in 1 .. l  BY <1>2, <1>5, <4>2, <4>3 DEF l
      <4> QED  BY <1>5a, <4>4, <4>5
    <3> QED  BY <3>1, <3>2
  <2>2. CASE Len(s) >= Cardinality(S)
    <3>1. l >= n  BY <2>2 DEF n, l
    <3> QED  BY <1>5a, <3>1
  <2>3. CASE Len(s) >= PerPage  BY <2>3 DEF l
  <2> QED  BY <2>1, <2>2, <2>3
<1>7. cut(s) = cut(t) /\ cut(s) \in 0 .. Len(s)
  <2>1. cut(s) = (IF PerPage < l THEN PerPage ELSE l) /\ cut(t) = (IF PerPage < n THEN PerPage ELSE n)
    BY <1>5 DEF l
  <2> HIDE DEF cut
  <2> QED  BY <1>5a, <1>6, <2>1 DEF l
<1> HIDE DEF cut
<1>8. \A i \in 1 .. cut(s) : s[i] = t[i]  BY <1>3, <1>5, <1>7
<1>9. ASSUME NEW u \in Seq(S), cut(u) \in 0 .. Len(u)
      PROVE  /\ SubSeq(u, 1, cut(u)) \in Seq(S) /\ Len(SubSeq(u, 1, cut(u))) = cut(u)
             /\ \A i \in 1 .. cut(u) : SubSeq(u, 1, cut(u))[i] = u[i]
  <2> DEFINE c == cut(u)
  <2>1. c \in Int /\ c \in 0 .. Len(u) /\ Len(u) \in Nat /\ \A i \in 1 .. c : u[i] \in S  BY <1>9
  <2> HIDE DEF c
  <2>2. /\ SubSeq(u, 1, c) \in Seq(S) /\ Len(SubSeq(u, 1, c)) = IF 1 <= c THEN c - 1 + 1 ELSE 0
        /\ \A i \in 1 .. c - 1 + 1 : SubSeq(u, 1, c)[i] = u[1 + i - 1]
    BY <2>1, SubSeqProperties
  <2>3. c - 1 + 1 = c /\ \A i \in 1 .. c : 1 + i - 1 = i  BY <2>1
  <2>4. Len(SubSeq(u, 1, c)) = c  BY <2>1, <2>2, <2>3
  <2>5. \A i \in 1 .. c : SubSeq(u, 1, c)[i] = u[i]  BY <2>2, <2>3
  <2> QED  BY <2>2, <2>4, <2>5 DEF c
<1>10. /\ SubSeq(s, 1, cut(s)) \in Seq(S) /\ Len(SubSeq(s, 1, cut(s))) = cut(s)
       /\ \A i \in 1 .. cut(s) : SubSeq(s, 1, cut(s))[i] = s[i]
  BY <1>7, <1>9
<1>11. /\ SubSeq(t, 1, cut(t)) \in Seq(S) /\ Len(SubSeq(t, 1, cut(t))) = cut(t)
       /\ \A i \in 1 .. cut(t) : SubSeq(t, 1, cut(t))[i] = t[i]
  <2>1. cut(t) \in 0 .. Len(t)  BY <1>1, <1>3, <1>5, <1>7
  <2> QED  BY <1>5, <1>9, <2>1
<1>12. Page(s) = Page(t)
  <2> DEFINE a == SubSeq(s, 1, cut(s))  b == SubSeq(t, 1, cut(t))
  <2>1. a \in Seq(S) /\ b \in Seq(S) /\ Len(a) = Len(b) /\ \A i \in 1 .. Len(a) : a[i] = b[i]
    BY <1>7, <1>8, <1>10, <1>11
  <2>2. Page(s) = a /\ Page(t) = b  BY <1>4
  <2> HIDE DEF a, b
  <2>3. a = b  BY <2>1
  <2> QED  BY <2>2, <2>3
<1> QED  BY <1>12 DEF t

-----------------------------------------------------------------------------
(* The handles a slot search may list, and how far away they are. *)
LEMMA ReachedAre ==
  ASSUME StoreInv, q \in Request, q.slot # NoSlot
  PROVE  /\ q.slot \in Nat /\ q.sort \in {"asc", "desc"} /\ q.page = 1 /\ q.kind = "search"
         /\ Reached \subseteq Wanted /\ Wanted \subseteq Name /\ IsFiniteSet(Reached)
         /\ \A n \in Wanted : /\ Held(n) /\ truth[n].slot \in 0 .. MaxSlot
                              /\ Away(truth[n].slot) \in Int
         /\ \A n \in Wanted : n \in Reached <=> n \notin Numeric /\ Away(truth[n].slot) >= 0
<1>1. q.slot \in Nat /\ q.sort \in {"asc", "desc"} /\ q.page = 1 /\ q.kind = "search"  BY QueriesAssumption
<1>2. Reached \subseteq Wanted /\ Wanted \subseteq Name /\ IsFiniteSet(Reached)
  <2>1. Reached \subseteq Wanted /\ Wanted \subseteq Name  BY DEF Reached, Wanted
  <2> QED  BY <2>1, Finite
<1>3. ASSUME NEW n \in Wanted
      PROVE  /\ Held(n) /\ truth[n].slot \in 0 .. MaxSlot /\ Away(truth[n].slot) \in Int
             /\ n \in Reached <=> n \notin Numeric /\ Away(truth[n].slot) >= 0
  <2>1. Held(n) /\ n \in Name  BY DEF Wanted
  <2>2. truth[n] \in Record  BY <2>1 DEF StoreInv, StoreTypes, Handles, Held
  <2>3. truth[n].slot \in 0 .. MaxSlot  BY <2>2 DEF Record, Slots
  <2>4. MaxSlot \in Nat  BY Givens
  <2>5. Away(truth[n].slot) \in Int  BY <1>1, <2>3, <2>4 DEF Away
  <2>6. n \in Reached <=> n \notin Numeric /\ Away(truth[n].slot) >= 0
    BY <1>1, <2>3, <2>4 DEF Reached, Away
  <2> QED  BY <2>1, <2>3, <2>5, <2>6
<1> QED  BY <1>1, <1>2, <1>3

(* What comes sooner is nearer, or as near and before it in the alphabet. *)
LEMMA SoonerIs ==
  ASSUME StoreInv, q \in Request, q.slot # NoSlot, NEW m \in Wanted, NEW n \in Wanted
  PROVE  Sooner(m, n) <=>
            \/ Away(truth[m].slot) < Away(truth[n].slot)
            \/ /\ Away(truth[m].slot) = Away(truth[n].slot)
               /\ IF q.sort = "asc" THEN m < n ELSE m > n
<1>1. q.slot \in Nat /\ q.sort \in {"asc", "desc"}  BY ReachedAre
<1>2. truth[m].slot \in Nat /\ truth[n].slot \in Nat /\ m \in Nat /\ n \in Nat
  <2>1. m \in Name /\ n \in Name  BY DEF Wanted
  <2>2. truth[m].slot \in 0 .. MaxSlot /\ truth[n].slot \in 0 .. MaxSlot  BY ReachedAre
  <2> QED  BY <2>1, <2>2, Givens
<1> DEFINE a == truth[m].slot  b == truth[n].slot
<1>3. Sooner(m, n) <=> IF q.sort = "asc" THEN a < b \/ (a = b /\ m < n) ELSE a > b \/ (a = b /\ m > n)
  BY DEF Sooner
<1>4. a \in Nat /\ b \in Nat  BY <1>2
<1> HIDE DEF a, b
<1>5. /\ Away(a) < Away(b) <=> IF q.sort = "asc" THEN a < b ELSE a > b
      /\ Away(a) = Away(b) <=> a = b
  BY <1>1, <1>4 DEF Away
<1> QED  BY <1>1, <1>3, <1>5 DEF a, b

(* No two handles are level. *)
LEMMA SoonerOrder ==
  ASSUME StoreInv, q \in Request, q.slot # NoSlot, NEW S, S \subseteq Wanted
  PROVE  Total(S, Earlier) /\ \A m, n \in S : <<m, n>> \in Earlier <=> Sooner(m, n)
<1> DEFINE L(n) == Away(truth[n].slot)
<1>1. \A n \in S : n \in Wanted /\ n \in Name /\ n \in Nat /\ L(n) \in Int  BY ReachedAre, Givens
<1>2. \A m, n \in S : <<m, n>> \in Earlier <=> Sooner(m, n)  BY <1>1 DEF Earlier
<1>3. \A m, n \in S : <<m, n>> \in Earlier <=>
          L(m) < L(n) \/ (L(m) = L(n) /\ IF q.sort = "asc" THEN m < n ELSE m > n)
  BY <1>1, <1>2, SoonerIs
<1> HIDE DEF L
<1>4. Total(S, Earlier)  BY <1>1, <1>3 DEF Total
<1> QED  BY <1>2, <1>4

(* The next range begins one span further on, or, where nothing is left to *)
(* be read, a number of them further or less far.                          *)
LEMMA NextAway ==
  ASSUME q.slot \in Nat, q.sort \in {"asc", "desc"}, f.from \in Int, firstSlot \in {0, NoSlot},
         NEW k \in Nat, Away(f.from) = k * Span, ~Beyond
  PROVE  LET g == Folded(NextStart) IN
         /\ \E m \in Nat : Away(g) = m * Span
         /\ g \in Int /\ Away(g) > 0
         /\ \A x \in 0 .. MaxSlot : Away(x) <= Away(g) <=> Away(x) <= Away(f.from) + Span
<1> DEFINE g == Folded(NextStart)
           a == k * Span
           Right(m) == /\ Away(g) = m * Span /\ g \in Int /\ m * Span > 0
                       /\ \A x \in 0 .. MaxSlot : Away(x) <= Away(g) <=> Away(x) <= Away(f.from) + Span
<1>1. MaxSlot \in Nat /\ Span \in Nat \ {0}  BY Givens
<1>2. a \in Nat /\ (k + 1) * Span = a + Span /\ (k + 3) * Span = a + 3 * Span
      /\ (k - 1) * Span = a - Span /\ (a > Span => k > 1)
  BY <1>1
<1>3. a + Span > 0 /\ a + 3 * Span > 0  BY <1>1, <1>2
<1>4. \E m \in Nat : Right(m)
  <2>1. CASE q.sort = "asc"
    <3>1. f.from = q.slot + a /\ f.from <= MaxSlot /\ NextStart = f.from + Span
      <4>1. f.from - q.slot = a  BY <2>1 DEF Away
      <4> HIDE DEF a
      <4>2. f.from = q.slot + a  BY <1>2, <4>1
      <4>3. f.from <= MaxSlot  BY <1>1, <2>1 DEF Beyond
      <4> QED  BY <2>1, <4>2, <4>3 DEF NextStart
    <3> HIDE DEF a
    <3>2. g = f.from + Span  BY <1>1, <1>2, <3>1 DEF Folded
    <3> HIDE DEF g
    <3>3. Away(g) = a + Span /\ g \in Int  BY <1>1, <1>2, <2>1, <3>1, <3>2 DEF Away
    <3>4. Away(f.from) + Span = a + Span  BY <1>1 DEF a
    <3>5. Right(k + 1)  BY <1>2, <1>3, <3>3, <3>4
    <3> HIDE DEF Right
    <3> QED  BY <3>5
  <2>2. CASE q.sort = "desc"
    <3>1. f.from = q.slot - a /\ NextStart = q.slot - a - Span  BY <1>2, <2>2 DEF Away, NextStart
    <3>2. \A x : Away(x) = q.slot - x  BY <2>2 DEF Away
    <3>3. Away(f.from) + Span = a + Span  BY <1>1 DEF a
    <3> DEFINE s == NextStart
    <3>4. s = q.slot - a - Span /\ s \in Int  BY <1>1, <1>2, <3>1
    <3> HIDE DEF s
    <3>5. g = CASE s < -2 * Span -> s + 2 * Span
                [] s > MaxSlot + 2 * Span -> s - 2 * Span
                [] OTHER -> s
      BY DEF Folded, s
    <3> HIDE DEF g, a
    <3>6. CASE s < -2 * Span
      <4>1. g = s + 2 * Span
        <5>1. ~(s > MaxSlot + 2 * Span)  BY <1>1, <3>4, <3>6
        <5> QED  BY <3>5, <3>6, <5>1
      <4>2. g < 0 /\ s < 0 /\ g \in Int /\ Away(g) = a - Span /\ a > Span
        BY <1>1, <1>2, <3>2, <3>4, <3>6, <4>1
      <4>3. \A x \in 0 .. MaxSlot : Away(x) <= Away(g) /\ Away(x) <= a + Span
        BY <1>1, <1>2, <3>2, <3>4, <4>2
      <4>4. a - Span > 0 /\ k - 1 \in Nat  BY <1>1, <1>2, <4>2
      <4>5. Right(k - 1)  BY <1>2, <3>3, <4>2, <4>3, <4>4
      <4> HIDE DEF Right
      <4> QED  BY <4>4, <4>5
    <3>7. CASE s > MaxSlot + 2 * Span
      <4>1. g = s - 2 * Span
        <5>1. ~(s < -2 * Span)  BY <1>1, <3>4, <3>7
        <5> QED  BY <3>5, <3>7, <5>1
      <4>2. g > MaxSlot /\ s > MaxSlot /\ g \in Int /\ Away(g) = a + 3 * Span
        BY <1>1, <1>2, <3>2, <3>4, <3>7, <4>1
      <4>3. \A x \in 0 .. MaxSlot : ~(Away(x) <= Away(g)) /\ ~(Away(x) <= a + Span)
        BY <1>1, <1>2, <3>2, <3>4, <4>2
      <4>4. Right(k + 3)  BY <1>2, <1>3, <3>3, <4>2, <4>3
      <4> HIDE DEF Right
      <4> QED  BY <4>4
    <3>8. CASE ~(s < -2 * Span) /\ ~(s > MaxSlot + 2 * Span)
      <4>1. g = s  BY <3>5, <3>8
      <4>2. g \in Int /\ Away(g) = a + Span  BY <1>1, <1>2, <3>2, <3>4, <4>1
      <4>3. Right(k + 1)  BY <1>2, <1>3, <3>3, <4>2
      <4> HIDE DEF Right
      <4> QED  BY <4>3
    <3> QED  BY <3>6, <3>7, <3>8
  <2> QED  BY <2>1, <2>2
<1> HIDE DEF g
<1> QED  BY <1>4 DEF g

(* What a range brings: the handles to be listed that are neither nearer   *)
(* than where it begins nor further than where it ends, in order.          *)
LEMMA RangeBrings ==
  ASSUME StoreInv, Whole, q \in Request, q.slot # NoSlot, f.from \in Int, Away(f.from) >= 0,
         Matching = Wanted
  PROVE  LET t == InRange(Matching)
             S == {n \in Reached : Away(truth[n].slot) \in Away(f.from) .. Away(f.from) + Span}
         IN /\ t \in Seq(S)
            /\ \A n \in S : \E i \in DOMAIN t : t[i] = n
            /\ \A i, j \in DOMAIN t : i < j => <<t[i], t[j]>> \in Earlier
<1> DEFINE S == {n \in Reached : Away(truth[n].slot) \in Away(f.from) .. Away(f.from) + Span}
           T == (RangeNames \ Numeric) \intersect Matching
           t == Ordered(T, BySlot)
<1>1. q.slot \in Nat /\ q.sort \in {"asc", "desc"} /\ Span \in Nat \ {0} /\ MaxSlot \in Nat
  BY ReachedAre, Givens
<1>2. Present("trait") = {n \in Name : Held(n)} /\ \A n : SlotOf(n) = truth[n].slot
  BY ReadWhole DEF Indexes, SlotOf
<1>3. T = S
  <2> SUFFICES ASSUME NEW n \in Wanted PROVE n \in T <=> n \in S
    BY ReachedAre
  <2> DEFINE x == truth[n].slot
  <2>1. x \in 0 .. MaxSlot /\ Held(n) /\ n \in Name  BY ReachedAre
  <2>2. n \in Reached <=> n \notin Numeric /\ Away(x) >= 0  BY ReachedAre
  <2>3. n \in T <=> n \notin Numeric /\ (IF q.sort = "asc" THEN x \in f.from .. f.from + Span
                                         ELSE x \in f.from - Span .. f.from)
    BY <1>2, <2>1 DEF RangeNames, Between
  <2> HIDE DEF x
  <2>4. (IF q.sort = "asc" THEN x \in f.from .. f.from + Span ELSE x \in f.from - Span .. f.from)
          <=> Away(x) \in Away(f.from) .. Away(f.from) + Span
    BY <1>1, <2>1 DEF Away
  <2>5. Away(x) \in Away(f.from) .. Away(f.from) + Span => Away(x) >= 0
    BY <1>1, <2>1 DEF Away
  <2>6. n \in S <=> n \in Reached /\ Away(x) \in Away(f.from) .. Away(f.from) + Span  BY DEF x
  <2> QED  BY <2>2, <2>3, <2>4, <2>5, <2>6
<1>4. S \subseteq Wanted /\ S \subseteq Present("trait") /\ IsFiniteSet(S)
  <2>1. S \subseteq Wanted /\ S \subseteq Name  BY ReachedAre
  <2>2. S \subseteq Present("trait")  BY <1>2, <2>1, ReachedAre
  <2> QED  BY <2>1, <2>2, Finite
<1> HIDE DEF T, S
<1>5. Total(S, BySlot)  BY <1>4, SlotOrder
<1>6. /\ t \in [1 .. Cardinality(S) -> S] /\ t \in Seq(S)
      /\ \A i, j \in DOMAIN t : i < j => <<t[i], t[j]>> \in BySlot
      /\ \A n \in S : \E i \in DOMAIN t : t[i] = n
  BY <1>3, <1>4, <1>5, OrderedIs, ListOf
<1>7. \A m, n \in S : <<m, n>> \in BySlot => <<m, n>> \in Earlier
  <2> SUFFICES ASSUME NEW m \in S, NEW n \in S, <<m, n>> \in BySlot PROVE Sooner(m, n)
    BY <1>4, SoonerOrder
  <2>1. Sorted(truth[m].slot, truth[n].slot, m, n)  BY <1>2 DEF BySlot
  <2>2. truth[m].slot \in 0 .. MaxSlot /\ truth[n].slot \in 0 .. MaxSlot /\ m \in Nat /\ n \in Nat
    <3>1. m \in Wanted /\ n \in Wanted /\ m \in Name /\ n \in Name  BY <1>4 DEF Wanted
    <3> QED  BY <3>1, ReachedAre, Givens
  <2> QED  BY <1>1, <2>1, <2>2 DEF Sooner, Sorted, Scored
<1> HIDE DEF t
<1>8. \A i, j \in DOMAIN t : i < j => <<t[i], t[j]>> \in Earlier
  BY <1>6, <1>7
<1> QED  BY <1>3, <1>6, <1>8 DEF t, T, S, InRange

-----------------------------------------------------------------------------
(* What is said of the handles and the slots alone stays true. *)
LEMMA SlotsSame ==
  ASSUME UNCHANGED <<truth, q>>
  PROVE  /\ Reached' = Reached /\ Earlier' = Earlier /\ (Edged' <=> Edged)
         /\ \A x : Away(x)' = Away(x)
         /\ \A s : (NoGaps(s)' <=> NoGaps(s)) /\ (Rising(s)' <=> Rising(s)) /\ Page(s)' = Page(s)
         /\ {n \in Name : Held(n)}' = {n \in Name : Held(n)}
<1>1. Reached' = Reached  BY SameTruth DEF Reached
<1>2. \A m, n : Sooner(m, n)' <=> Sooner(m, n)  BY DEF Sooner
<1>3. Earlier' = Earlier  BY <1>2 DEF Earlier
<1>4. Edged' <=> Edged  BY <1>1 DEF Edged, OnEdge
<1>5. \A x : Away(x)' = Away(x)  BY DEF Away
<1>6. \A s : NoGaps(s)' <=> NoGaps(s)  BY <1>1, <1>2 DEF NoGaps
<1>7. \A s : Rising(s)' <=> Rising(s)  BY <1>3 DEF Rising
<1>8. {n \in Name : Held(n)}' = {n \in Name : Held(n)}  BY SameTruth
<1> QED  BY <1>1, <1>3, <1>4, <1>5, <1>6, <1>7, <1>8, SameTruth

(* A step that leaves the names, the count and the start of the range, and *)
(* neither enters nor leaves the ranges.                                   *)
LEMMA SlotKept ==
  ASSUME SlotExact, UNCHANGED <<truth, q>>, f'.names = f.names, f'.count = f.count, f'.from = f.from,
         q.slot # NoSlot => /\ pc' = "range" => pc = "range"
                            /\ pc' = "records" \/ pc' \in Answering => pc = "records" \/ pc \in Answering
  PROVE  SlotExact'
<1>1. RangesExact' 
  <2> SUFFICES ASSUME q.slot # NoSlot, pc = "range" PROVE RangesExact'  BY DEF RangesExact
  <2>1. RangesExact  BY DEF SlotExact
  <2>2. /\ NoGaps(f.names)' <=> NoGaps(f.names)
        /\ Rising(f.names)' <=> Rising(f.names)
        /\ {n \in Name : Held(n)}' = {n \in Name : Held(n)}
        /\ Reached' = Reached /\ (Edged' <=> Edged)
    <3>1. (NoGaps(f.names)' <=> NoGaps(f.names)) /\ (Rising(f.names)' <=> Rising(f.names))
      BY SlotsSame DEF NoGaps, Rising, Sooner
    <3> QED  BY <3>1, SlotsSame
  <2>3. pc' # "range" \/ (q'.slot # NoSlot /\ pc = "range")  OBVIOUS
  <2> QED  BY <2>1, <2>2, <2>3 DEF RangesExact, Away
<1>2. SlotsExact'
  <2> SUFFICES ASSUME q.slot # NoSlot, pc = "records" \/ pc \in Answering PROVE SlotsExact'
    BY DEF SlotsExact, Answering
  <2> QED  BY SlotsSame DEF SlotExact, SlotsExact, Answering
<1> QED  BY <1>1, <1>2 DEF SlotExact

(* The first range begins at the slot of the request, and nothing is read. *)
LEMMA BoundsSlots ==
  ASSUME QueryInv, Whole, UNCHANGED truth, ReadBounds
  PROVE  SlotExact'
<1>1. /\ pc = "bounds" /\ pc' = "range" /\ q' = q /\ f \in Frame
      /\ f' = [f EXCEPT !.count = Cardinality(Present("handle")), !.from = q.slot,
                        !.total = Cardinality(Matching)]
  BY QueryKinds DEF ReadBounds, Goes, Served
<1>2. q.slot # NoSlot /\ q.kind = "search" /\ f.names = <<>> /\ q \in Request /\ StoreInv
  <2>1. pc \in Listing  BY <1>1 DEF Listing
  <2> QED  BY <1>1, <2>1, QueryKinds DEF QueryInv, StageTypes, Needed
<1>3. /\ f'.names = <<>> /\ f'.from = q.slot /\ f'.count = Cardinality({n \in Name : Held(n)})
  <2>1. Present("handle") = {n \in Name : Held(n)}  BY ReadWhole DEF Indexes
  <2> QED  BY <1>1, <1>2, <2>1 DEF Frame
<1>4. Away(q.slot) = 0 /\ 0 * Span = 0
  <2>1. q.slot \in Nat  BY <1>2, ReachedAre
  <2> QED  BY <2>1, Givens DEF Away
<1>5. DOMAIN f'.names = {}  BY <1>3
<1>6. RangesExact'
  <2>1. \A x : Away(x)' = Away(x)  BY <1>1, SlotsSame
  <2>2. Away(f.from)' = 0
    <3>1. Away(f.from)' = IF q'.sort = "asc" THEN f'.from - q'.slot ELSE q'.slot - f'.from  BY DEF Away
    <3> QED  BY <1>1, <1>3, <1>4, <3>1 DEF Away
  <2>3. f'.count = Cardinality({n \in Name : Held(n)})'  BY <1>1, <1>3, SlotsSame
  <2>4. NoGaps(f.names)' /\ Rising(f.names)'  BY <1>5 DEF NoGaps, Rising
  <2>5. \E k \in Nat : Away(f.from)' = k * Span  BY <1>4, <2>2
  <2> QED  BY <1>1, <1>3, <1>5, <2>2, <2>3, <2>4, <2>5 DEF RangesExact
<1>7. SlotsExact'  BY <1>1 DEF SlotsExact, Answering
<1> QED  BY <1>6, <1>7 DEF SlotExact

(* The names read so far and those of a range, one list after the other. *)
LEMMA Appended ==
  ASSUME StoreInv, q \in Request, q.slot # NoSlot, NEW a \in Nat, a % Span = 0,
         NEW s \in Seq(Reached), NEW t \in Seq(Reached),
         a = 0 => s = <<>>,
         \A i \in DOMAIN s : Away(truth[s[i]].slot) <= a,
         \A n \in Reached : a # 0 /\ Away(truth[n].slot) <= a => \E i \in DOMAIN s : s[i] = n,
         NoGaps(s), ~Edged => Rising(s),
         \A i \in DOMAIN t : Away(truth[t[i]].slot) \in a .. a + Span,
         \A n \in Reached : Away(truth[n].slot) \in a .. a + Span => \E i \in DOMAIN t : t[i] = n,
         Rising(t)
  PROVE  /\ \A n \in Reached : Away(truth[n].slot) <= a + Span
                                 => \E i \in DOMAIN (s \o t) : (s \o t)[i] = n
         /\ \A i \in DOMAIN (s \o t) : Away(truth[(s \o t)[i]].slot) <= a + Span
         /\ NoGaps(s \o t) /\ (~Edged => Rising(s \o t))
<1> DEFINE L(n) == Away(truth[n].slot)
           u == s \o t
           l == Len(s)
<1>1. /\ u \in Seq(Reached) /\ l \in Nat /\ Len(t) \in Nat /\ Len(u) = l + Len(t)
      /\ \A i \in 1 .. l : i \in DOMAIN u /\ u[i] = s[i]
      /\ \A i \in 1 .. Len(t) : l + i \in DOMAIN u /\ u[l + i] = t[i]
      /\ \A i \in DOMAIN u : i \in Nat /\ (i \in 1 .. l \/ i - l \in 1 .. Len(t))
  OBVIOUS
<1>2. /\ DOMAIN s = 1 .. l /\ DOMAIN t = 1 .. Len(t) /\ DOMAIN u = 1 .. l + Len(t)
      /\ \A i \in DOMAIN s : s[i] \in Reached
      /\ \A i \in DOMAIN t : t[i] \in Reached
  OBVIOUS
<1>3. a \in Nat /\ Span \in Nat \ {0} /\ a % Span = 0  BY Givens
<1>4. \A n \in Reached : n \in Wanted /\ L(n) \in Nat
  <2> SUFFICES ASSUME NEW n \in Reached PROVE n \in Wanted /\ L(n) \in Nat  OBVIOUS
  <2>1. n \in Wanted /\ L(n) \in Int /\ L(n) >= 0  BY ReachedAre
  <2> QED  BY <2>1
<1>5. Total(Reached, Earlier) /\ \A m, n \in Reached : <<m, n>> \in Earlier <=> Sooner(m, n)
  BY ReachedAre, SoonerOrder
<1>6. \A m, n \in Reached : /\ Sooner(m, n) => L(m) <= L(n)
                            /\ L(m) < L(n) => Sooner(m, n)
  <2> SUFFICES ASSUME NEW m \in Reached, NEW n \in Reached
               PROVE  (Sooner(m, n) => L(m) <= L(n)) /\ (L(m) < L(n) => Sooner(m, n))
    OBVIOUS
  <2>1. Sooner(m, n) <=> \/ L(m) < L(n)
                         \/ L(m) = L(n) /\ IF q.sort = "asc" THEN m < n ELSE m > n
    BY <1>4, SoonerIs
  <2>2. L(m) \in Nat /\ L(n) \in Nat  BY <1>4
  <2> HIDE DEF L
  <2> QED  BY <2>1, <2>2
<1>7. /\ a = 0 => s = <<>>
      /\ \A i \in DOMAIN s : L(s[i]) <= a
      /\ \A n \in Reached : a # 0 /\ L(n) <= a => \E i \in DOMAIN s : s[i] = n
      /\ \A i \in DOMAIN t : L(t[i]) \in a .. a + Span
      /\ \A n \in Reached : L(n) \in a .. a + Span => \E i \in DOMAIN t : t[i] = n
  OBVIOUS
<1>8. \A n \in Reached : L(n) # 0 /\ L(n) = a => OnEdge(n)
  <2> SUFFICES ASSUME NEW n \in Reached, L(n) # 0, L(n) = a PROVE OnEdge(n)  OBVIOUS
  <2>1. truth[n].slot \in Nat /\ q.slot \in Nat
    <3>1. truth[n].slot \in 0 .. MaxSlot  BY <1>4, ReachedAre
    <3> QED  BY <3>1, Givens, ReachedAre
  <2>2. truth[n].slot # q.slot  BY <2>1 DEF Away
  <2> QED  BY <1>3, <2>2 DEF OnEdge, Away
<1> HIDE DEF L, u, l
<1>9. ASSUME NEW n \in Reached, L(n) <= a + Span
      PROVE  (\E i \in 1 .. l : u[i] = n) \/ \E i \in DOMAIN t : t[i] = n
  <2>1. L(n) \in Nat  BY <1>4
  <2>2. CASE a # 0 /\ L(n) <= a
    <3>1. PICK i \in DOMAIN s : s[i] = n  BY <1>7, <2>2
    <3> QED  BY <1>1, <1>2, <3>1
  <2>3. CASE ~(a # 0 /\ L(n) <= a)
    <3>1. L(n) \in a .. a + Span  BY <1>3, <1>9, <2>1, <2>3
    <3> QED  BY <1>7, <3>1
  <2> QED  BY <2>2, <2>3
<1>10. \A n \in Reached : L(n) <= a + Span => \E i \in DOMAIN u : u[i] = n
  <2> SUFFICES ASSUME NEW n \in Reached, L(n) <= a + Span PROVE \E i \in DOMAIN u : u[i] = n  OBVIOUS
  <2>1. CASE \E i \in 1 .. l : u[i] = n
    <3>1. PICK i \in 1 .. l : u[i] = n  BY <2>1
    <3> QED  BY <1>1, <3>1
  <2>2. CASE \E i \in DOMAIN t : t[i] = n
    <3>1. PICK i \in DOMAIN t : t[i] = n  BY <2>2
    <3>2. l + i \in DOMAIN u /\ u[l + i] = n  BY <1>1, <1>2, <3>1
    <3> QED  BY <3>2
  <2> QED  BY <1>9, <2>1, <2>2
<1>11. ASSUME NEW i \in DOMAIN u PROVE L(u[i]) <= a + Span
  <2>1. CASE i \in 1 .. l
    <3>1. L(s[i]) <= a /\ L(s[i]) \in Nat  BY <1>2, <1>4, <1>7, <2>1
    <3> QED  BY <1>1, <1>3, <2>1, <3>1
  <2>2. CASE i - l \in 1 .. Len(t)
    <3>1. u[i] = t[i - l]
      <4>1. l + (i - l) = i  BY <1>1
      <4> QED  BY <1>1, <2>2, <4>1
    <3>2. L(t[i - l]) \in a .. a + Span  BY <1>2, <1>7, <2>2
    <3> QED  BY <1>3, <3>1, <3>2
  <2> QED  BY <1>1, <2>1, <2>2
<1>12. NoGaps(u)
  <2> SUFFICES ASSUME NEW i \in DOMAIN u, NEW n \in Reached, Sooner(n, u[i])
               PROVE  \E j \in 1 .. i : u[j] = n
    BY DEF NoGaps
  <2>1. CASE i \in 1 .. l
    <3>1. i \in DOMAIN s /\ Sooner(n, s[i])  BY <1>1, <1>2, <2>1
    <3>2. PICK j \in 1 .. i : s[j] = n  BY <3>1 DEF NoGaps
    <3>3. j \in 1 .. l  BY <1>1, <2>1, <3>2
    <3> QED  BY <1>1, <3>2, <3>3
  <2>2. CASE i - l \in 1 .. Len(t)
    <3> DEFINE k0 == i - l
    <3>1. l + k0 = i /\ k0 \in 1 .. Len(t) /\ u[i] = t[k0]
      <4>1. l + (i - l) = i  BY <1>1
      <4> QED  BY <1>1, <2>2, <4>1
    <3> HIDE DEF k0
    <3>2. t[k0] \in Reached /\ k0 \in DOMAIN t /\ Sooner(n, t[k0])  BY <1>2, <3>1
    <3>3. L(n) <= a + Span
      <4>1. L(n) <= L(t[k0]) /\ L(t[k0]) \in a .. a + Span /\ L(n) \in Nat  BY <1>4, <1>6, <1>7, <3>2
      <4> QED  BY <1>3, <4>1
    <3>4. CASE \E j \in 1 .. l : u[j] = n
      <4>1. PICK j \in 1 .. l : u[j] = n  BY <3>4
      <4>2. j \in 1 .. i  BY <1>1, <3>1, <4>1
      <4> QED  BY <4>1, <4>2
    <3>5. CASE \E j \in DOMAIN t : t[j] = n
      <4>1. PICK j \in DOMAIN t : t[j] = n  BY <3>5
      <4>2. ~(k0 < j)
        <5> SUFFICES ASSUME k0 < j PROVE FALSE  OBVIOUS
        <5>1. <<t[k0], n>> \in Earlier  BY <3>2, <4>1 DEF Rising
        <5>2. <<n, t[k0]>> \in Earlier  BY <1>5, <3>2
        <5> QED  BY <1>5, <3>2, <5>1, <5>2 DEF Total
      <4>3. l + j \in 1 .. i /\ u[l + j] = n  BY <1>1, <1>2, <3>1, <4>1, <4>2
      <4> QED  BY <4>3
    <3> QED  BY <1>9, <3>3, <3>4, <3>5
  <2> QED  BY <1>1, <2>1, <2>2
<1>13. ASSUME ~Edged PROVE Rising(u)
  <2> SUFFICES ASSUME NEW i \in DOMAIN u, NEW j \in DOMAIN u, i < j PROVE <<u[i], u[j]>> \in Earlier
    BY DEF Rising
  <2>1. CASE j \in 1 .. l
    <3>1. i \in DOMAIN s /\ j \in DOMAIN s /\ u[i] = s[i] /\ u[j] = s[j]  BY <1>1, <1>2, <2>1
    <3> QED  BY <1>13, <3>1 DEF Rising
  <2>2. ASSUME j - l \in 1 .. Len(t), i - l \in 1 .. Len(t) PROVE <<u[i], u[j]>> \in Earlier
    <3>1. l + (i - l) = i /\ l + (j - l) = j /\ i - l < j - l  BY <1>1
    <3>2. u[i] = t[i - l] /\ u[j] = t[j - l]  BY <1>1, <2>2, <3>1
    <3> QED  BY <1>2, <2>2, <3>1, <3>2 DEF Rising
  <2>3. ASSUME j - l \in 1 .. Len(t), i \in 1 .. l PROVE <<u[i], u[j]>> \in Earlier
    <3>1. l + (j - l) = j  BY <1>1
    <3>2. u[i] = s[i] /\ u[j] = t[j - l] /\ i \in DOMAIN s /\ j - l \in DOMAIN t
      BY <1>1, <1>2, <2>3, <3>1
    <3>3. s[i] \in Reached /\ t[j - l] \in Reached /\ L(s[i]) <= a /\ L(t[j - l]) \in a .. a + Span
      BY <1>2, <1>7, <3>2
    <3>4. L(t[j - l]) # a
      <4> SUFFICES ASSUME L(t[j - l]) = a PROVE FALSE  OBVIOUS
      <4>1. a # 0  BY <1>7, <3>2
      <4>2. OnEdge(t[j - l])  BY <1>8, <3>3, <4>1
      <4> QED  BY <1>13, <3>3, <4>2 DEF Edged
    <3>5. L(s[i]) < L(t[j - l])
      <4>1. L(s[i]) \in Nat /\ L(t[j - l]) \in Nat  BY <1>4, <3>3
      <4> QED  BY <1>3, <3>3, <3>4, <4>1
    <3>6. Sooner(s[i], t[j - l])  BY <1>6, <3>3, <3>5
    <3> QED  BY <1>5, <3>2, <3>3, <3>6
  <2> QED  BY <1>1, <2>1, <2>2, <2>3
<1> QED  BY <1>10, <1>11, <1>12, <1>13 DEF u, L

(* One range of slots: the names go on where they ended. *)
LEMMA RangeSlots ==
  ASSUME QueryInv, Exact, SlotExact, Whole, UNCHANGED truth, ReadRange
  PROVE  SlotExact'
<1>1. /\ pc = "range" /\ pc' = "range" /\ q' = q /\ ~Beyond
      /\ f' = [f EXCEPT !.names = @ \o InRange(Matching), !.from = Folded(NextStart)]
  BY DEF ReadRange, Goes, Served
<1>2. /\ q.slot # NoSlot /\ q.kind = "search" /\ f \in Frame /\ q \in Request /\ StoreInv
      /\ firstSlot \in {0, NoSlot}
  <2>1. firstSlot \in {0, NoSlot}  BY QueriesAssumption DEF QueryInv, StoreInv, StoreTypes
  <2> QED  BY <1>1, <2>1, QueryKinds DEF QueryInv, StageTypes
<1>3. Matching = Wanted
  <2>1. ~Unfiltered  BY <1>2 DEF Unfiltered
  <2> QED  BY <1>1, <1>2, <2>1, AllFit DEF Exact, SearchExact
<1>4. RangesExact  BY DEF SlotExact
<1> DEFINE a == Away(f.from)
           t == InRange(Matching)
           g == Folded(NextStart)
<1>5. q.slot \in Nat /\ q.sort \in {"asc", "desc"} /\ f.from \in Int /\ f.names \in Seq(Reached)
  <2>1. f.from \in Int /\ f.names \in Seq(Name \union {None})  BY <1>2 DEF Frame
  <2>2. \A i \in DOMAIN f.names : f.names[i] \in Reached  BY <1>1, <1>2, <1>4 DEF RangesExact
  <2>3. f.names \in Seq(Reached)  BY <2>1, <2>2
  <2> QED  BY <1>2, <2>1, <2>3, ReachedAre
<1>6. PICK k \in Nat : a = k * Span  BY <1>1, <1>2, <1>4 DEF RangesExact
<1>7. a \in Nat /\ a % Span = 0  BY <1>6, Givens, Multiple
<1>8. /\ \E m \in Nat : Away(g) = m * Span
      /\ g \in Int /\ Away(g) > 0
      /\ \A x \in 0 .. MaxSlot : Away(x) <= Away(g) <=> Away(x) <= a + Span
  BY <1>1, <1>2, <1>5, <1>6, NextAway
<1> DEFINE S == {n \in Reached : Away(truth[n].slot) \in a .. a + Span}
<1>9. /\ t \in Seq(S)
      /\ \A n \in S : \E i \in DOMAIN t : t[i] = n
      /\ \A i, j \in DOMAIN t : i < j => <<t[i], t[j]>> \in Earlier
  <2>1. a >= 0  BY <1>7
  <2> QED  BY <1>2, <1>3, <1>5, <2>1, RangeBrings
<1> HIDE DEF t, g, a
<1>10. /\ t \in Seq(Reached) /\ Rising(t)
       /\ \A i \in DOMAIN t : Away(truth[t[i]].slot) \in a .. a + Span
       /\ \A n \in Reached : Away(truth[n].slot) \in a .. a + Span => \E i \in DOMAIN t : t[i] = n
  <2>1. \A i \in DOMAIN t : t[i] \in S  BY <1>9
  <2>2. t \in Seq(Reached)  BY <1>9, Wider
  <2>3. Rising(t)  BY <1>9 DEF Rising
  <2> QED  BY <1>9, <2>1, <2>2, <2>3
<1> HIDE DEF S
<1>11. /\ a = 0 => f.names = <<>>
       /\ \A i \in DOMAIN f.names : Away(truth[f.names[i]].slot) <= a
       /\ \A n \in Reached : a # 0 /\ Away(truth[n].slot) <= a => \E i \in DOMAIN f.names : f.names[i] = n
       /\ NoGaps(f.names) /\ (~Edged => Rising(f.names))
  BY <1>1, <1>2, <1>4 DEF RangesExact, a
<1> DEFINE u == f.names \o t
<1>12. /\ \A n \in Reached : Away(truth[n].slot) <= a + Span => \E i \in DOMAIN u : u[i] = n
       /\ \A i \in DOMAIN u : Away(truth[u[i]].slot) <= a + Span
       /\ NoGaps(u) /\ (~Edged => Rising(u))
  BY <1>2, <1>5, <1>7, <1>10, <1>11, Appended
<1>13. u \in Seq(Reached)  BY <1>5, <1>10
<1>14. f'.names = u /\ f'.from = g /\ f'.count = f.count
  BY <1>1, <1>2 DEF Frame, t, g
<1> HIDE DEF u
<1>15. \A n \in Reached : Away(truth[n].slot) <= Away(g) <=> Away(truth[n].slot) <= a + Span
  <2> SUFFICES ASSUME NEW n \in Reached PROVE truth[n].slot \in 0 .. MaxSlot  BY <1>8
  <2> QED  BY <1>2, ReachedAre
<1>16. /\ \A i \in DOMAIN u : u[i] \in Reached /\ Away(truth[u[i]].slot) <= Away(g)
       /\ \A n \in Reached : Away(truth[n].slot) <= Away(g) => \E i \in DOMAIN u : u[i] = n
       /\ Away(g) # 0
  <2>1. \A i \in DOMAIN u : u[i] \in Reached  BY <1>13
  <2>2. Away(g) # 0
    <3>1. Away(g) \in Int  BY <1>5, <1>8 DEF Away
    <3> QED  BY <1>8, <3>1
  <2> QED  BY <1>12, <1>15, <2>1, <2>2
<1>17. RangesExact'
  <2>1. Reached' = Reached /\ (Edged' <=> Edged) /\ {n \in Name : Held(n)}' = {n \in Name : Held(n)}
        /\ (\A x : Away(x)' = Away(x)) /\ truth' = truth
    BY <1>1, SlotsSame
  <2>2. (NoGaps(f.names)' <=> NoGaps(u)) /\ (Rising(f.names)' <=> Rising(u))
    <3>1. f'.names = u /\ q' = q /\ truth' = truth /\ Reached' = Reached /\ Earlier' = Earlier
      BY <1>1, <1>14, SlotsSame
    <3>2. Rising(f.names)' <=> Rising(u)  BY <3>1 DEF Rising
    <3>3. NoGaps(f.names)' <=> NoGaps(u)
      <4>1. \A n : \A i \in DOMAIN u : Sooner(n, f.names[i])' <=> Sooner(n, u[i])  BY <3>1 DEF Sooner
      <4> QED  BY <3>1, <4>1 DEF NoGaps
    <3> QED  BY <3>2, <3>3
  <2>3. Away(f.from)' = Away(g)  BY <1>1, <1>14 DEF Away
  <2>4. f.count = Cardinality({n \in Name : Held(n)})  BY <1>1, <1>2, <1>4 DEF RangesExact
  <2>5. \A i \in DOMAIN u : Away(truth[f.names[i]].slot)' = Away(truth[u[i]].slot)
    BY <1>1, <1>14 DEF Away
  <2>6. \A n : Away(truth[n].slot)' = Away(truth[n].slot)  BY <1>1 DEF Away
  <2> QED  BY <1>8, <1>12, <1>14, <1>16, <2>1, <2>2, <2>3, <2>4, <2>5, <2>6 DEF RangesExact
<1>18. SlotsExact'  BY <1>1 DEF SlotsExact, Answering
<1> QED  BY <1>17, <1>18 DEF SlotExact

(* The page is cut where the ranges filled it, every handle was listed or  *)
(* no range is left.                                                       *)
LEMMA EndSlots ==
  ASSUME QueryInv, SlotExact, UNCHANGED truth, EndRange
  PROVE  SlotExact'
<1>1. /\ pc = "range" /\ pc' = "records" /\ q' = q /\ ~(PageShort /\ ~Beyond)
      /\ f' = [f EXCEPT !.names = Page(@), !.from = 0, !.count = 0]
  BY DEF EndRange, Goes
<1>2. /\ q.slot # NoSlot /\ f \in Frame /\ q \in Request /\ StoreInv /\ firstSlot \in {0, NoSlot}
  <2>1. firstSlot \in {0, NoSlot}  BY QueriesAssumption DEF QueryInv, StoreInv, StoreTypes
  <2> QED  BY <1>1, <2>1, QueryKinds DEF QueryInv, StageTypes
<1>3. /\ q.slot \in Nat /\ q.sort \in {"asc", "desc"} /\ q.page = 1 /\ IsFiniteSet(Reached)
      /\ Reached \subseteq Wanted /\ Total(Reached, Earlier)
      /\ \A m, n \in Reached : <<m, n>> \in Earlier <=> Sooner(m, n)
  BY <1>2, ReachedAre, SoonerOrder
<1>4. RangesExact /\ MaxSlot \in Nat /\ PerPage \in Nat  BY Givens DEF SlotExact
<1> DEFINE s == f.names
<1>5. /\ s \in Seq(Reached) /\ f.from \in Int /\ Len(s) \in Nat
      /\ NoGaps(s) /\ (~Edged => Rising(s))
  <2>1. f.from \in Int /\ f.names \in Seq(Name \union {None})  BY <1>2 DEF Frame
  <2>2. \A i \in DOMAIN f.names : f.names[i] \in Reached  BY <1>1, <1>2, <1>4 DEF RangesExact
  <2>3. f.names \in Seq(Reached)  BY <2>1, <2>2
  <2> QED  BY <1>1, <1>2, <1>4, <2>1, <2>3 DEF RangesExact
<1>6. f'.names = Page(s)  BY <1>1, <1>2 DEF Frame
<1>7. NoGaps(Page(s))
  <2>1. /\ Page(s) = SubSeq(s, 1, IF PerPage < Len(s) THEN PerPage ELSE Len(s))
    <3>1. (1 - 1) * PerPage + 1 = 1 /\ 1 * PerPage = PerPage  BY <1>4
    <3> QED  BY <1>3, <3>1 DEF Page
  <2> DEFINE c == IF PerPage < Len(s) THEN PerPage ELSE Len(s)
             p == SubSeq(s, 1, c)
  <2>2. c \in 0 .. Len(s) /\ c \in Int  BY <1>4, <1>5
  <2> HIDE DEF c, s
  <2>3. \A i \in 1 .. c : i \in DOMAIN s /\ s[i] \in Reached  BY <1>5, <2>2
  <2>4. /\ p \in Seq(Reached) /\ Len(p) = (IF 1 <= c THEN c - 1 + 1 ELSE 0)
        /\ \A i \in 1 .. c - 1 + 1 : p[i] = s[1 + i - 1]
    BY <2>2, <2>3, SubSeqProperties
  <2>5. c - 1 + 1 = c /\ \A i \in 1 .. c : 1 + i - 1 = i  BY <2>2
  <2>6. DOMAIN p = 1 .. c /\ \A i \in 1 .. c : p[i] = s[i]
    <3>1. Len(p) = c  BY <2>2, <2>4, <2>5
    <3> QED  BY <2>4, <2>5, <3>1
  <2> HIDE DEF p
  <2>7. \A i \in 1 .. c : 1 .. i \subseteq 1 .. c  BY <2>2
  <2>8. NoGaps(p)
    <3> SUFFICES ASSUME NEW i \in 1 .. c, NEW n \in Reached, Sooner(n, s[i])
                 PROVE  \E j \in 1 .. i : p[j] = n
      BY <2>6 DEF NoGaps
    <3>1. PICK j \in 1 .. i : s[j] = n  BY <1>5, <2>3 DEF NoGaps
    <3> QED  BY <2>6, <2>7, <3>1
  <2> QED  BY <2>1, <2>8 DEF c, p
<1>8. ASSUME ~Edged PROVE Page(s) = Page(Ordered(Reached, Earlier))
  <2>1. \A i, j \in DOMAIN s : i < j => <<s[i], s[j]>> \in Earlier  BY <1>5, <1>8 DEF Rising
  <2>2. \A i \in DOMAIN s : \A x \in Reached : <<x, s[i]>> \in Earlier => \E j \in 1 .. i : s[j] = x
    <3>1. \A i \in DOMAIN s : s[i] \in Reached  BY <1>5
    <3> QED  BY <1>3, <1>5, <3>1 DEF NoGaps
  <2>3. \/ Len(s) >= PerPage \/ Len(s) >= Cardinality(Reached)
        \/ \A x \in Reached : \E i \in DOMAIN s : s[i] = x
    <3>1. CASE ~PageShort
      <4>1. f.count = Cardinality({n \in Name : Held(n)})  BY <1>1, <1>2, <1>4 DEF RangesExact
      <4>2. Cardinality(Reached) <= f.count /\ f.count \in Nat /\ Cardinality(Reached) \in Nat
        <5> DEFINE H == {n \in Name : Held(n)}
        <5>1. H \subseteq Name /\ Reached \subseteq H  BY <1>3 DEF Wanted
        <5>2. IsFiniteSet(H) /\ Cardinality(H) \in Nat  BY <5>1, Finite
        <5>3. Reached \in SUBSET H  BY <5>1
        <5> HIDE DEF H
        <5>4. Cardinality(Reached) <= Cardinality(H) /\ Cardinality(Reached) \in Nat
          BY <1>3, <5>2, <5>3, FS_Subset, FS_CardinalityType
        <5> QED  BY <4>1, <5>2, <5>4 DEF H
      <4>3. Len(s) >= f.count \/ Len(s) >= PerPage  BY <1>4, <1>5, <3>1, <4>2 DEF PageShort
      <4> QED  BY <1>5, <4>2, <4>3
    <3>2. CASE Beyond
      <4> SUFFICES ASSUME NEW x \in Reached PROVE \E i \in DOMAIN s : s[i] = x  OBVIOUS
      <4>1. truth[x].slot \in 0 .. MaxSlot /\ Away(truth[x].slot) >= 0  BY <1>2, <1>3, ReachedAre
      <4>2. Away(f.from) # 0 /\ Away(truth[x].slot) <= Away(f.from)
        <5>1. CASE q.sort = "asc"
          <6>1. f.from > MaxSlot  BY <3>2, <5>1 DEF Beyond
          <6> QED  BY <1>3, <1>4, <1>5, <4>1, <5>1, <6>1 DEF Away
        <5>2. CASE q.sort = "desc"
          <6>1. f.from < 0  BY <1>2, <3>2, <5>2 DEF Beyond
          <6> QED  BY <1>3, <1>4, <1>5, <4>1, <5>2, <6>1 DEF Away
        <5> QED  BY <1>3, <5>1, <5>2
      <4> QED  BY <1>1, <1>2, <1>4, <4>2 DEF RangesExact
    <3> QED  BY <1>1, <3>1, <3>2
  <2> HIDE DEF s
  <2> QED  BY <1>3, <1>5, <2>1, <2>2, <2>3, CutPage
<1>9. SlotsExact'
  <2> DEFINE u == Page(s)
  <2>1. f'.names = u /\ q' = q /\ truth' = truth /\ Reached' = Reached /\ Earlier' = Earlier
        /\ (Edged' <=> Edged)
    BY <1>1, <1>6, SlotsSame
  <2>2. NoGaps(u) /\ (~Edged => u = Page(Ordered(Reached, Earlier)))  BY <1>7, <1>8
  <2> HIDE DEF u
  <2>3. NoGaps(f.names)'
    <3>1. \A n : \A i \in DOMAIN u : Sooner(n, f.names[i])' <=> Sooner(n, u[i])  BY <2>1 DEF Sooner
    <3> QED  BY <2>1, <2>2, <3>1 DEF NoGaps
  <2>4. Page(Ordered(Reached, Earlier))' = Page(Ordered(Reached, Earlier))  BY <2>1 DEF Page, Ordered
  <2> QED  BY <2>1, <2>2, <2>3, <2>4 DEF SlotsExact
<1>10. RangesExact'  BY <1>1 DEF RangesExact
<1> QED  BY <1>9, <1>10 DEF SlotExact

(* A search from a slot asks for the first slot before it has its names. *)
LEMMA BeforeBounds ==
  ASSUME q.slot # NoSlot, NEW c \in DOMAIN Turn, Turn[c] < 8
  PROVE  CallAfter(c) \notin {"range", "records"} \union Answering
<1>1. "bounds" \in DOMAIN Turn /\ Turn["bounds"] = 8 /\ Turn["records"] = 9  BY DEF Turn
<1>2. Needed("bounds")  BY DEF Needed
<1>3. c # "records"  BY <1>1
<1>4. /\ CallAfter(c) \in DOMAIN Turn
      /\ Turn["bounds"] > Turn[c] /\ Needed("bounds") => Turn[CallAfter(c)] <= Turn["bounds"]
  BY <1>1, <1>3, NextCall
<1>5. Turn[CallAfter(c)] <= 8  BY <1>1, <1>2, <1>4
<1>6. CallAfter(c) # "records"  BY <1>1, <1>5
<1> QED  BY <1>4, <1>6 DEF Turn, Answering

(* Every step of the request and of the scanner keeps the list exact. *)
LEMMA SlotStep ==
  ASSUME QueryInv, ExactInv, SlotInv, QueryNext \/ UNCHANGED queryVars
  PROVE  SlotInv'
<1> SUFFICES ASSUME Quiet' PROVE SlotExact'  BY DEF SlotInv
<1>1. q' = q
  BY DEF QueryNext, Scanner, Save, Burn, LockReindex, Wipe, WriteBack, EndReindex, FailReindex, others,
         Reader, Begin, ReadList, ReadLength, ReadWallet, ReadKeys, ReadHexes, ReadTerm, ReadTotal,
         ReadNames, ReadBounds, ReadRange, EndRange, ReadRecords, ReadChosen, ReadSets, Prefer,
         EndPrefer, ReadPage, ReadScores, ReadHeads, ReadFirsts, ReadMembers, ReadFirst, ReadStatus,
         queryVars, Served
<1>2. CASE q.slot = NoSlot  BY <1>1, <1>2 DEF SlotExact, RangesExact, SlotsExact
<1>3. CASE q.slot # NoSlot
  <2>1. q \in Request /\ q.kind = "search" /\ f \in Frame /\ StoreInv /\ ~Unfiltered
    <3>1. q \in Request /\ f \in Frame /\ StoreInv  BY QueryKinds DEF QueryInv
    <3>2. q.kind = "search" /\ ~Unfiltered  BY <1>3, <3>1, ReachedAre DEF Unfiltered
    <3> QED  BY <3>1, <3>2
  <2>2. ASSUME NEW c \in DOMAIN Turn, Turn[c] < 8, pc' = CallAfter(c) PROVE SlotExact'
    BY <1>3, <2>2, BeforeBounds DEF SlotExact, RangesExact, SlotsExact, Answering
  <2>3. CASE Begin
    <3>1. "begin" \in DOMAIN Turn /\ Turn["begin"] < 8  BY DEF Turn
    <3>2. pc' = CallAfter("begin")  BY <2>1, <2>3 DEF Begin, Goes
    <3> QED  BY <2>2, <3>1, <3>2
  <2>4. CASE ~Begin
    <3>1. Exact /\ SlotExact /\ UNCHANGED truth /\ (Served => Whole)
      BY <2>4, QuietBefore DEF ExactInv, SlotInv
    <3>2. CASE Scanner \/ UNCHANGED queryVars
      <4>1. UNCHANGED <<pc, f>>
        BY <3>2 DEF Scanner, Save, Burn, LockReindex, Wipe, WriteBack, EndReindex, FailReindex, others, queryVars
      <4> QED  BY <1>1, <3>1, <4>1, SlotKept
    <3>3. CASE ReadList \/ ReadLength \/ ReadWallet \/ ReadKeys \/ ReadHexes
      <4>1. \E c \in {"list", "length", "wallet", "keys", "hexes"} : pc' = CallAfter(c)
        BY <3>3 DEF ReadList, ReadLength, ReadWallet, ReadKeys, ReadHexes, ReadTerm, Goes
      <4>2. \A c \in {"list", "length", "wallet", "keys", "hexes"} : c \in DOMAIN Turn /\ Turn[c] < 8
        BY DEF Turn
      <4> QED  BY <2>2, <4>1, <4>2
    <3>4. CASE ReadTotal \/ ReadNames
      <4>1. pc \in Listing /\ pc \in {"total", "names"}  BY <3>4 DEF ReadTotal, ReadNames, Listing
      <4>2. Unfiltered  BY <4>1 DEF QueryInv, StageTypes, Needed
      <4> QED  BY <2>1, <4>2
    <3>5. CASE ReadBounds
      <4>1. Served  BY <3>5 DEF ReadBounds
      <4> QED  BY <3>1, <3>5, <4>1, BoundsSlots
    <3>6. CASE ReadRange
      <4>1. Served  BY <3>6 DEF ReadRange
      <4> QED  BY <3>1, <3>6, <4>1, RangeSlots
    <3>7. CASE EndRange  BY <3>1, <3>7, EndSlots
    <3>8. CASE ReadRecords
      <4>1. pc = "records" /\ pc' # "range" /\ PageNames = f.names
        BY <1>3, <2>1, <3>8 DEF ReadRecords, Goes, PageNames
      <4>2. f'.names = f.names /\ f'.count = f.count /\ f'.from = f.from
        BY <2>1, <3>8, <4>1 DEF ReadRecords, Frame
      <4> QED  BY <1>1, <3>1, <4>1, <4>2, SlotKept
    <3>9. CASE ReadChosen \/ ReadSets \/ EndPrefer \/ ReadStatus \/ \E w \in Wallet : Prefer(w)
      <4>1. pc \in Answering /\ pc' # "range"
        BY <2>1, <3>9 DEF ReadChosen, ReadSets, EndPrefer, ReadStatus, Prefer, Goes, Answering
      <4>2. f'.names = f.names /\ f'.count = f.count /\ f'.from = f.from
        BY <2>1, <3>9 DEF ReadChosen, ReadSets, EndPrefer, ReadStatus, Prefer, Frame
      <4> QED  BY <1>1, <3>1, <4>1, <4>2, SlotKept
    <3>10. CASE ReadPage \/ ReadScores \/ ReadHeads \/ ReadFirsts \/ ReadMembers \/ ReadFirst
      <4>1. pc \in {"page", "scores", "heads", "firsts", "members", "first"}
        BY <3>10 DEF ReadPage, ReadScores, ReadHeads, ReadFirsts, ReadMembers, ReadFirst
      <4> QED  BY <2>1, <4>1, HolderKinds
    <3> QED  BY <2>4, <3>2, <3>3, <3>4, <3>5, <3>6, <3>7, <3>8, <3>9, <3>10 DEF QueryNext, Reader
  <2> QED  BY <2>3, <2>4
<1> QED  BY <1>2, <1>3

(***************************************************************************)
(* A search from a slot under which nothing is written and whose indexes   *)
(* are whole: range after range, the list has every handle to be listed up *)
(* to where the ranges end, and leaves none out before an entry.           *)
(***************************************************************************)
THEOREM SlotInvariant == QuerySpec => []SlotInv
<1>1. QueryInit => SlotInv
  BY DEF QueryInit, SlotInv, SlotExact, RangesExact, SlotsExact, Answering
<1>2. QueryInv /\ ExactInv /\ SlotInv /\ [QueryNext]_queryVars => SlotInv'  BY SlotStep
<1> QED  BY <1>1, <1>2, QueryInvariant, QuietInvariant, PTL DEF QuerySpec

(***************************************************************************)
(* The answer of such a search: the matches in the order of their slots,   *)
(* none left out before where the page is full; and without a handle at a  *)
(* slot where two ranges meet, exactly the first page of them.             *)
(***************************************************************************)
THEOREM SlotSearchGapless == QuerySpec => []SlotSearchHasNoGaps
<1>1. ASSUME QueryInv, SlotInv PROVE SlotSearchHasNoGaps
  <2> SUFFICES ASSUME pc = "done", Quiet, q.slot # NoSlot
               PROVE  IF Edged THEN NoGaps(f.names) ELSE Ranked(Reached, f.names, Sooner)
    BY DEF SlotSearchHasNoGaps, Edged, NoGaps
  <2>1. IF Edged THEN NoGaps(f.names) ELSE f.names = Page(Ordered(Reached, Earlier))
    BY <1>1 DEF SlotInv, SlotExact, SlotsExact, Answering
  <2>2. q \in Request /\ StoreInv  BY <1>1, QueryKinds DEF QueryInv
  <2>3. ASSUME f.names = Page(Ordered(Reached, Earlier)) PROVE Ranked(Reached, f.names, Sooner)
    <3>1. /\ IsFiniteSet(Reached) /\ Total(Reached, Earlier)
          /\ \A m, n \in Reached : <<m, n>> \in Earlier <=> Sooner(m, n)
      BY <2>2, ReachedAre, SoonerOrder
    <3>2. \A x \in Reached : Below(Reached, Earlier, x) = {y \in Reached : Sooner(y, x)}
      BY <3>1 DEF Below
    <3>3. /\ Len(f.names) = Cardinality({x \in Reached : OnPage(Cardinality(Below(Reached, Earlier, x)))})
          /\ \A x \in Reached : OnPage(Cardinality(Below(Reached, Earlier, x)))
                => f.names[Cardinality(Below(Reached, Earlier, x)) - (q.page - 1) * PerPage + 1] = x
      BY <2>2, <2>3, <3>1, PageRanked
    <3>4. \A x \in Reached : Before(Reached, x, Sooner) = Cardinality(Below(Reached, Earlier, x))
      BY <3>2 DEF Before
    <3>5. {x \in Reached : OnPage(Cardinality(Below(Reached, Earlier, x)))}
              = {x \in Reached : OnPage(Before(Reached, x, Sooner))}
      BY <3>4
    <3> QED  BY <3>3, <3>4, <3>5 DEF Ranked
  <2> QED  BY <2>1, <2>3
<1> QED  BY <1>1, QueryInvariant, SlotInvariant, PTL
=============================================================================
