----------------------------- MODULE KoiosFetch -----------------------------
(***************************************************************************)
(* One batched provider read of the scanner: the hashes of a chunk asked   *)
(* of Koios in batches, with retries and splits, then one by one of        *)
(* Blockfrost when Koios failed (lambdas/scanner.app.ts), every request    *)
(* admitted by the limiter of its provider (utils/koiosRateLimit.ts) and   *)
(* none past the deadline of the invocation's work.                        *)
(*                                                                         *)
(* A reader is one of the concurrent calls: a worker of the tx_info pool,  *)
(* one of the datum_info or asset_utxos batches started together, or the   *)
(* single loop of block_txs and of the fallback.  An action is what runs   *)
(* between two awaits.  The clock is a bounded count of quanta; a timer    *)
(* may fire late, a reply may take until its timeout.                      *)
(*                                                                         *)
(* A hash, numbered in the order asked for, stands for its row, and        *)
(* batches are limited by their number of hashes alone (the body limit     *)
(* cuts in the same loop).                                                 *)
(***************************************************************************)
EXTENDS Integers, Sequences

CONSTANTS
    Kinds,        \* the reads to model, of those below
    NHashes, BatchSize,
    PoolSize,     \* KOIOS_TX_INFO_MAX_RPS
    MaxRetries,
    Backoff,      \* the shortest wait of a retry
    PageRows,     \* KOIOS_MAX_ROWS
    Holds,        \* waits a provider may state
    Deadline,     \* scannerDeadline
    MaxTime       \* bound of the clock

Providers == {"koios", "blockfrost"}

ASSUME FetchAssumption ==
    /\ Kinds \subseteq {"tx_info", "datum_info", "block_txs", "asset_utxos"}
    /\ NHashes \in Nat \ {0} /\ BatchSize \in Nat \ {0} /\ PoolSize \in Nat \ {0}
    /\ MaxRetries \in Nat /\ Backoff \in Nat /\ PageRows \in Nat \ {0}
    /\ Holds \subseteq Nat /\ Deadline \in Nat /\ MaxTime \in Nat

VARIABLES
    kind,      \* which read this is
    stage,     \* "koios", "blockfrost" (the fallback), "ok" or "failed"
    now,
    limiter,   \* per provider: providerNotBefore and nextStart
    reader,
    next,      \* first batch no reader has taken
    failure,   \* the first error captured, NoError without
    results,   \* the rows of each batch
    \* history
    absent,    \* hashes a provider answered to have nothing for
    quiet      \* per provider: the time before which nothing may start, by all it stated

vars == <<kind, stage, now, limiter, reader, next, failure, results, absent, quiet>>

MaxOf(a, b) == IF a >= b THEN a ELSE b

(* An error, with the wait the reply stated (retryAfterMs). *)
Error(of, wait) == [of |-> of, wait |-> wait]
NoError == Error("none", 0)

(* getKoiosBatches: consecutive hashes, the last batch may be shorter. *)
BatchCount == (NHashes + BatchSize - 1) \div BatchSize
Batch(b) == [i \in 1 .. (IF b * BatchSize <= NHashes THEN BatchSize
                         ELSE NHashes - (b - 1) * BatchSize) |-> (b - 1) * BatchSize + i]
BatchOf(h) == (h - 1) \div BatchSize + 1

(* How the four reads differ. *)
Readers == 1 .. MaxOf(PoolSize, BatchCount)
Concurrency(k) ==
    CASE k = "tx_info" -> IF PoolSize <= BatchCount THEN PoolSize ELSE BatchCount
      [] k = "block_txs" -> 1
      [] OTHER -> BatchCount
Gated == kind # "block_txs" /\ stage = "koios"     \* beforeStart throws a captured failure
Paced == kind = "block_txs"                        \* waits between requests by itself
Interval == IF Paced THEN 0 ELSE 1
RequestsPerHash == IF kind = "tx_info" /\ stage = "blockfrost" THEN 2 ELSE 1

(***************************************************************************)
(* A reader: where it stands, the pieces of its batch still to read (the   *)
(* first one being read), the attempt, the rows of this attempt, requests  *)
(* of the piece answered, the longest wait stated in the present reply,    *)
(* and when its timer fires.                                               *)
(***************************************************************************)
Off == [at |-> "off", todo |-> <<>>, attempt |-> 0, rows |-> <<>>, parts |-> 0,
        hint |-> 0, wake |-> 0]
Asking(todo) == [Off EXCEPT !.at = "admit", !.todo = todo]
Piece(r) == Head(reader[r].todo)

Init ==
    /\ kind \in Kinds
    /\ stage = "koios" /\ now = 0
    /\ limiter = [p \in Providers |-> [notBefore |-> 0, nextStart |-> 0]]
    /\ reader = [r \in Readers |-> IF r <= Concurrency(kind) THEN Asking(<<Batch(r)>>) ELSE Off]
    /\ next = Concurrency(kind) + 1
    /\ failure = NoError
    /\ results = [b \in 1 .. BatchCount |-> <<>>]
    /\ absent = {}
    /\ quiet = [p \in Providers |-> 0]

(* checkDeadline for a start at time t. *)
Late(t) == t >= Deadline

(* remember: a stated wait extends the hold and never shortens it. *)
Remember(l, wait) == [l EXCEPT !.notBefore = MaxOf(@, now + wait)]
Stated(h) ==
    /\ limiter' = IF h = 0 THEN limiter ELSE [limiter EXCEPT ![stage] = Remember(@, h)]
    /\ quiet' = IF h = 0 THEN quiet ELSE [quiet EXCEPT ![stage] = MaxOf(@, now + h)]

(* The call of r ends with error e: `failure ??= { error }`. *)
Throw(r, e) ==
    /\ reader' = [reader EXCEPT ![r] = Off]
    /\ failure' = IF failure = NoError THEN e ELSE failure

(* A new attempt, half or batch begins with checkDeadline. *)
Ask(r, asking) ==
    \/ ~Late(now) /\ reader' = [reader EXCEPT ![r] = asking] /\ UNCHANGED failure
    \/ Late(now) /\ Throw(r, Error("deadline", 0))

(* delayMs, and blockfrost.wait, which honours the limiter as well. *)
WaitsUntil(d) ==
    IF stage = "koios" THEN now + d
    ELSE MaxOf(now + d, MaxOf(limiter[stage].notBefore, limiter[stage].nextStart))
Delay(r, d, waiting) ==
    \/ /\ ~Late(WaitsUntil(d))
       /\ reader' = [reader EXCEPT ![r] = [waiting EXCEPT !.at = "delay", !.wake = WaitsUntil(d)]]
       /\ UNCHANGED failure
    \/ Late(WaitsUntil(d)) /\ Throw(r, Error("deadline", 0))

(* Which errors are tried again; Blockfrost's only where pages are read. *)
Retriable(e) ==
    IF stage = "koios" THEN e.of \in {"status", "transport"} ELSE Paced /\ e.of = "status"

(***************************************************************************)
(* The catch blocks.  An error that beforeStart threw is caught here like  *)
(* any other, so a retriable one that another reader captured is waited    *)
(* out, too, except by the asset read, which asks beforeStart first.       *)
(***************************************************************************)
TriesAgain(r, e) == Retriable(e) /\ reader[r].attempt < MaxRetries
Retry(r, e) ==
    Delay(r, MaxOf(Backoff, e.wait),
          [Asking(reader[r].todo) EXCEPT !.attempt = reader[r].attempt + 1])

(* tx_info and block_txs: then in halves, and a single hash not at all. *)
CaughtSplitting(r, e) ==
    LET size == Len(Piece(r))
        half == (size + 1) \div 2
    IN  \/ TriesAgain(r, e) /\ Retry(r, e)
        \/ /\ Retriable(e) /\ ~TriesAgain(r, e) /\ size > 1
           /\ Ask(r, Asking(<<SubSeq(Piece(r), 1, half), SubSeq(Piece(r), half + 1, size)>>
                            \o Tail(reader[r].todo)))
        \/ (~Retriable(e) \/ (~TriesAgain(r, e) /\ size <= 1)) /\ Throw(r, e)
(* datum_info. *)
CaughtDatum(r, e) ==
    \/ TriesAgain(r, e) /\ Retry(r, e)
    \/ ~TriesAgain(r, e) /\ Throw(r, e)
(* asset_utxos. *)
CaughtAsset(r, e) ==
    \/ TriesAgain(r, e) /\ failure = NoError /\ Retry(r, e)
    \/ TriesAgain(r, e) /\ failure # NoError /\ Throw(r, failure)
    \/ ~TriesAgain(r, e) /\ Throw(r, e)
(* A page of block_txs at Blockfrost is tried again, the rest is not. *)
CaughtFallback(r, e) == CaughtDatum(r, e)

Caught(r, e) ==
    \/ stage = "koios" /\ kind \in {"tx_info", "block_txs"} /\ CaughtSplitting(r, e)
    \/ stage = "koios" /\ kind = "datum_info" /\ CaughtDatum(r, e)
    \/ stage = "koios" /\ kind = "asset_utxos" /\ CaughtAsset(r, e)
    \/ stage = "blockfrost" /\ CaughtFallback(r, e)

(***************************************************************************)
(* admit: with no await between, the gate and the budget are asked, the    *)
(* start is claimed and the request sent, or the reader sleeps until the   *)
(* earliest start and then comes back to the same questions.               *)
(***************************************************************************)
Earliest == MaxOf(now, MaxOf(limiter[stage].notBefore, limiter[stage].nextStart))
Claim(l) == [l EXCEPT !.nextStart = now + Interval]
Start(r) ==
    /\ reader' = [reader EXCEPT ![r].at = "sent"]
    /\ limiter' = [limiter EXCEPT ![stage] = Claim(@)]
    /\ quiet' = [quiet EXCEPT ![stage] = MaxOf(@, now + Interval)]
    /\ UNCHANGED failure
Sleep(r) ==
    /\ reader' = [reader EXCEPT ![r].wake = Earliest]
    /\ UNCHANGED <<limiter, failure, quiet>>
(* A mutant: after a sleep the request goes out without asking again. *)
AdmitAskingOnce(r) ==
    /\ reader[r].at = "admit" /\ reader[r].wake <= now
    /\ \/ reader[r].wake > 0 /\ ~Late(now) /\ Start(r)
       \/ reader[r].wake = 0 /\ ~Late(Earliest) /\ Earliest > now /\ Sleep(r)
       \/ reader[r].wake = 0 /\ ~Late(Earliest) /\ Earliest = now /\ Start(r)
       \/ Late(Earliest) /\ Caught(r, Error("deadline", 0)) /\ UNCHANGED <<limiter, quiet>>
    /\ UNCHANGED <<kind, stage, now, next, results, absent>>
Admit(r) ==
    /\ reader[r].at = "admit" /\ reader[r].wake <= now
    /\ \/ /\ Gated /\ failure # NoError
          /\ Caught(r, failure) /\ UNCHANGED <<limiter, quiet>>
       \/ /\ ~(Gated /\ failure # NoError)
          /\ \/ Late(Earliest) /\ Caught(r, Error("deadline", 0)) /\ UNCHANGED <<limiter, quiet>>
             \/ ~Late(Earliest) /\ Earliest > now /\ Sleep(r)
             \/ ~Late(Earliest) /\ Earliest = now /\ Start(r)
    /\ UNCHANGED <<kind, stage, now, next, results, absent>>

(* The headers of the reply: what they state holds before the body is read. *)
Headers(r) ==
    /\ reader[r].at = "sent"
    /\ \E h \in Holds \union {0} :
        /\ Stated(h)
        /\ reader' = [reader EXCEPT ![r].at = "reply", ![r].hint = h]
    /\ UNCHANGED <<kind, stage, now, next, failure, results, absent>>

(* A request that times out, or whose connection ends, before or in the body. *)
BrokenBeforeHeaders(r) ==      \* a mutant: the timeout does not cover the body
    /\ reader[r].at = "sent"
    /\ Caught(r, Error("transport", 0))
    /\ UNCHANGED <<kind, stage, now, limiter, next, results, absent, quiet>>
Broken(r) ==
    /\ reader[r].at \in {"sent", "reply"}
    /\ Caught(r, Error("transport", 0))
    /\ UNCHANGED <<kind, stage, now, limiter, next, results, absent, quiet>>

(* A reply with an error status; a wait in its body counts like a header's. *)
Refused(r) ==
    /\ reader[r].at = "reply"
    /\ \E h \in Holds \union {0}, e \in {"status", "fatal"} :
        /\ Stated(h)
        /\ Caught(r, Error(e, MaxOf(reader[r].hint, h)))
    /\ UNCHANGED <<kind, stage, now, next, results, absent>>

(* The loops of the pools: the next batch, unless a failure was captured. *)
NextBatch(r) ==
    \/ /\ stage = "koios" /\ next <= BatchCount /\ failure = NoError
       /\ Ask(r, Asking(<<Batch(next)>>)) /\ next' = next + 1
    \/ /\ stage = "blockfrost" \/ next > BatchCount \/ failure # NoError
       /\ reader' = [reader EXCEPT ![r] = Off] /\ UNCHANGED <<failure, next>>

(* The rows of one more reply: a page of block_txs, or the whole piece. *)
PageOf(r) ==
    IF ~(Paced /\ stage = "koios") THEN Piece(r)
    ELSE LET from == Len(reader[r].rows)
             left == Len(Piece(r)) - from
         IN  SubSeq(Piece(r), from + 1, from + (IF left < PageRows THEN left ELSE PageRows))
OnePage(page) == FALSE         \* a mutant: the tail beyond the row cap is dropped
MorePages(page) == Paced /\ stage = "koios" /\ Len(page) = PageRows

(* A reply with rows. *)
Answered(r) ==
    /\ reader[r].at = "reply"
    /\ \E h \in Holds \union {0}, page \in {PageOf(r), <<>>} :
        LET me   == reader[r]
            rows == me.rows \o page
            rest == Tail(me.todo)
            more == me.parts + 1 < RequestsPerHash \/ MorePages(page)
        IN  /\ Stated(h)
            /\ (page = <<>> /\ stage = "blockfrost") => kind \in {"datum_info", "block_txs"}
            /\ absent' = IF page = PageOf(r) THEN absent
                         ELSE absent \union {Piece(r)[i] : i \in Len(me.rows) + 1 .. Len(Piece(r))}
            /\ IF more
               THEN /\ reader' = [reader EXCEPT ![r] =
                            [me EXCEPT !.at = "admit", !.wake = 0, !.hint = 0, !.parts = @ + 1,
                                       !.rows = IF MorePages(page) THEN rows ELSE @]]
                    /\ UNCHANGED <<next, failure, results>>
               ELSE /\ results' = [results EXCEPT ![BatchOf(Piece(r)[1])] = @ \o rows]
                    /\ IF Paced /\ (rest = <<>> \/ stage = "blockfrost")
                       THEN Delay(r, 1, Asking(rest)) /\ UNCHANGED next
                       ELSE IF rest = <<>> THEN NextBatch(r)
                       ELSE Ask(r, Asking(rest)) /\ UNCHANGED next
    /\ UNCHANGED <<kind, stage, now>>

(* A wait is over: on to the next attempt, or from a pause to what follows. *)
Wake(r) ==
    /\ reader[r].at = "delay" /\ reader[r].wake <= now
    /\ \/ Late(now) /\ Throw(r, Error("deadline", 0)) /\ UNCHANGED next
       \/ /\ ~Late(now)
          /\ IF reader[r].todo = <<>> THEN NextBatch(r)
             ELSE /\ reader' = [reader EXCEPT ![r].at = "admit"]
                  /\ UNCHANGED <<failure, next>>
    /\ UNCHANGED <<kind, stage, now, limiter, results, absent, quiet>>

(* Promise.all: the read ends when every reader has. *)
Running == stage \in Providers
DrainedOrFailed ==             \* a mutant: Promise.all over readers that reject
    Running /\ (failure # NoError \/ \A r \in Readers : reader[r].at = "off")
Drained == Running /\ \A r \in Readers : reader[r].at = "off"
HasFallback == stage = "koios" /\ kind # "asset_utxos"

Return ==
    /\ Drained /\ failure = NoError
    /\ stage' = "ok"
    /\ UNCHANGED <<kind, now, limiter, reader, next, failure, results, absent, quiet>>
Fail ==
    /\ Drained /\ failure # NoError
    /\ failure.of = "deadline" \/ ~HasFallback \/ Late(now)
    /\ stage' = "failed"
    /\ UNCHANGED <<kind, now, limiter, reader, next, failure, results, absent, quiet>>

(* The wrappers with a fallback ask Blockfrost for everything again, one by one. *)
FallBack ==
    /\ Drained /\ HasFallback /\ failure.of \notin {"none", "deadline"} /\ ~Late(now)
    /\ stage' = "blockfrost"
    /\ reader' = [reader EXCEPT ![1] = Asking([h \in 1 .. NHashes |-> <<h>>])]
    /\ failure' = NoError
    /\ results' = [b \in 1 .. BatchCount |-> <<>>]
    /\ absent' = {}
    /\ UNCHANGED <<kind, now, limiter, next, quiet>>

Tick ==
    /\ Running /\ now < MaxTime
    /\ now' = now + 1
    /\ UNCHANGED <<kind, stage, limiter, reader, next, failure, results, absent, quiet>>
Ended == ~Running /\ UNCHANGED vars

ReaderStep(r) ==
    Admit(r) \/ Headers(r) \/ Broken(r) \/ Refused(r) \/ Answered(r) \/ Wake(r)
Next == (\E r \in Readers : ReaderStep(r)) \/ Return \/ Fail \/ FallBack \/ Tick \/ Ended

(***************************************************************************)
(* Fairness: the process runs, timers fire, and a request that gets no     *)
(* reply, or whose body stalls, is ended by its AbortSignal timeout.       *)
(***************************************************************************)
Spec == Init /\ [][Next]_vars
             /\ \A r \in Readers : WF_vars(Admit(r)) /\ WF_vars(Wake(r)) /\ WF_vars(Broken(r))
             /\ WF_vars(Return \/ Fail \/ FallBack) /\ WF_vars(Tick)

-----------------------------------------------------------------------------

(* Types. *)
ReaderType ==
    [at : {"off", "admit", "sent", "reply", "delay"}, todo : Seq(Seq(1 .. NHashes)),
     attempt : 0 .. MaxRetries, rows : Seq(1 .. NHashes), parts : Nat, hint : Nat, wake : Nat]
FetchTypeOK ==
    /\ kind \in Kinds
    /\ stage \in Providers \union {"ok", "failed"}
    /\ now \in Nat
    /\ limiter \in [Providers -> [notBefore : Nat, nextStart : Nat]]
    /\ reader \in [Readers -> ReaderType]
    /\ next \in Nat
    /\ failure \in [of : {"none", "status", "transport", "fatal", "deadline"}, wait : Nat]
    /\ results \in [1 .. BatchCount -> Seq(1 .. NHashes)]
    /\ absent \subseteq 1 .. NHashes
    /\ quiet \in [Providers -> Nat]

(***************************************************************************)
(* A request goes out only when every wait its provider stated is over and *)
(* the spacing is kept, whoever was told and whoever slept meanwhile, and  *)
(* neither past the deadline nor, from a pool, after a failure was         *)
(* captured: what admit and the gates promise together.                    *)
(***************************************************************************)
Starts(r) == reader[r].at # "sent" /\ reader'[r].at = "sent"
StartsAreAdmitted ==
    [][\A r \in Readers : Starts(r) =>
            /\ now >= quiet[stage] /\ ~Late(now)
            /\ Gated => failure = NoError]_vars

(***************************************************************************)
(* A read that returned or threw left nothing behind: no request is on its *)
(* way and no reader will wake, so none works on when the lease is given   *)
(* back ("Drain already-started reads before releasing this invocation's   *)
(* lease").                                                                *)
(***************************************************************************)
ReturnsDrained == ~Running => \A r \in Readers : reader[r].at = "off"

(***************************************************************************)
(* A read that returns has the rows of every batch in the order asked for, *)
(* each once, but for those a provider said it does not have: whatever was *)
(* retried, paged, split or asked of the other provider.                   *)
(***************************************************************************)
HashesOf(s) == {s[i] : i \in DOMAIN s}
Ascending(s) == \A i, j \in DOMAIN s : i < j => s[i] < s[j]
ReturnsAllRows ==
    stage = "ok" => \A b \in 1 .. BatchCount :
        /\ HashesOf(results[b]) = HashesOf(Batch(b)) \ absent
        /\ Ascending(results[b])

(* Every read ends, also when the providers only ever stall and refuse. *)
FetchEnds == <>(stage \in {"ok", "failed"})
=============================================================================
