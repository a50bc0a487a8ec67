--------------------------- MODULE HandleQueries ---------------------------
(***************************************************************************)
(* The read side of HandlesRepository: one HTTP request that searches the  *)
(* handles, lists holders or asks for one of either, while the scanner,    *)
(* another process, writes the same store.                                 *)
(*                                                                         *)
(* A request is a row of store calls with nothing that holds them          *)
(* together.  Each call is a step here and sees the store as it is then;   *)
(* a pipeline is one call.  The status of the answer is one more call, the *)
(* last.                                                                   *)
(*                                                                         *)
(* The scanner writes a handle to every index in one batch, so an index is *)
(* the set of handles it has records of.  A rebuild (REINDEX) deletes the  *)
(* indexes one after the other and then writes the handles back, a batch   *)
(* at a time.                                                              *)
(***************************************************************************)
EXTENDS Integers, Sequences, FiniteSets, SequencesExt

CONSTANTS
    Name,        \* handle names: numbers, in the order of the alphabet
    Wallet,      \* holder addresses: numbers, in the order of the alphabet
    Length,      \* the length of a name: stands for all the fixed traits
    Og,          \* the og number of a name, 0 for none
    Born,        \* the slot a handle was created in
    Numeric,     \* names that read as a number
    InText,      \* the names that contain a search term
    InHex,       \* the names whose record's hex contains it, with its label
    InBytes,     \* the names whose own bytes in hex contain it
    Stores,      \* the handles there may be when the request comes
    Request,     \* the requests
    None, NoSlot,
    MaxSlot,     \* metrics.lastSlot, the slot of the tip
    FirstSlots,  \* what metrics.firstSlot may be: 0, from which slots are counted
                 \* (the first of the era that has handles), or NoSlot
    Span,        \* magicSlotsRange
    PerPage,     \* records per page
    Big,         \* wallets larger than this have no computed default
    MaxEvents    \* bound: handles changed and rebuilds begun until the answer

VARIABLES
    truth,       \* the handles, as the scanner last wrote them
    index,       \* what the indexes have of them
    firstSlot,   \* metrics.firstSlot: the Ogmios scanner stores it, the lambda
                 \* does not, and then it is undefined
    lock,        \* metrics.lockLambdas
    rebuild,     \* how far the rebuild is
    events,
    q,           \* the request
    pc,          \* its next call
    f,           \* what it has read so far
    status,      \* the status it was answered with, 0 before
    seen,        \* the records every handle has had since the request came
    partial      \* a call found an index that was not whole

scanner == <<truth, index, firstSlot, lock, rebuild, events>>
queryVars == <<scanner, q, pc, f, status, seen, partial>>

Slots == 0..MaxSlot
Record == [wallet : Wallet, slot : Slots, chosen : BOOLEAN]
Handles == [Name -> Record \union {None}]

(* The indexes, as far as they can differ: HANDLE; HOLDER, HOLDER_COUNT    *)
(* and DEFAULT_HANDLE; the indexes by trait and SLOT.                      *)
Indexes == {"handle", "wallet", "trait"}

Frame == [read : Seq(SUBSET (Name \union {None})), names : Seq(Name \union {None}),
          total : Nat, recs : Seq(Record \union {None}), count : Nat, from : Int,
          page : Seq(Wallet), scores : [Wallet -> Nat],
          best : [Wallet -> Name \union {None}],
          sets : [Wallet -> SUBSET Name], todo : SUBSET Wallet]

Fresh == [read |-> <<>>, names |-> <<>>, total |-> 0, recs |-> <<>>, count |-> 0,
          from |-> 0, page |-> <<>>, scores |-> [w \in Wallet |-> 0],
          best |-> [w \in Wallet |-> None], sets |-> [w \in Wallet |-> {}], todo |-> {}]

ASSUME QueriesAssumption ==
    /\ Name \subseteq Nat /\ IsFiniteSet(Name)
    /\ Wallet \subseteq Nat /\ IsFiniteSet(Wallet)
    /\ Length \in [Name -> Nat \ {0}] /\ Og \in [Name -> Nat] /\ Born \in [Name -> Nat]
    /\ \A m, n \in Name : Og[m] = Og[n] /\ Og[m] # 0 => m = n
    /\ Numeric \subseteq Name
    /\ \A t \in DOMAIN InText : InText[t] \subseteq Name /\ InHex[t] \subseteq Name
                              /\ InBytes[t] \subseteq InHex[t]
    /\ Stores \subseteq Handles
    /\ None \notin Name \union Wallet \union Record
    /\ FirstSlots \subseteq {0, NoSlot} /\ NoSlot \notin Int
    /\ Request \subseteq
          [kind : {"search", "handle", "holder", "holders"}, length : Nat,
           wallet : Wallet \union {None}, by : Wallet \union {None}, sort : {"asc", "desc"},
           page : Nat \ {0}, slot : Nat \union {NoSlot}, term : DOMAIN InText \union {None},
           name : Name]
    /\ \A r \in Request : r.kind = "holder" => r.wallet # None
    /\ \A r \in Request : r.slot # NoSlot => r.kind = "search" /\ r.page = 1
    /\ {MaxSlot, MaxEvents} \subseteq Nat
    /\ {Span, PerPage, Big} \subseteq Nat \ {0}

QueryInit ==
    /\ truth \in Stores
    /\ index = [i \in Indexes |-> truth]
    /\ firstSlot \in FirstSlots
    /\ lock = "UNLOCKED" /\ rebuild = "none" /\ events = 0
    /\ q \in Request
    /\ pc = "begin" /\ f = Fresh /\ status = 0
    /\ seen = [n \in Name |-> {truth[n]}]
    /\ partial = FALSE

-----------------------------------------------------------------------------
(***************************************************************************)
(* The store as the calls see it.                                          *)
(***************************************************************************)
(* The members of a set, each after those the order has before it.         *)
Ordered(S, order) ==
    CHOOSE s \in [1..Cardinality(S) -> S] : \A i, j \in DOMAIN s : i < j => <<s[i], s[j]>> \in order

Present(i) == {n \in Name : index[i][n] # None}
OfLength(k) == {n \in Present("trait") : Length[n] = k}
InWallet(w) == {n \in Present("wallet") : index["wallet"][n].wallet = w}
ChosenIn(w) == {n \in InWallet(w) : index["wallet"][n].chosen}
Whole == \A i \in Indexes : index[i] = truth

SlotOf(n) == index["trait"][n].slot

(* ZRANGE BYSCORE between two slots, both of them included.                *)
Between(a, b) == {n \in Present("trait") : SlotOf(n) \in a..b}
(* Mutant: a range has neither of its ends. *)
RangeWithoutEnds == IF q.sort = "asc" THEN Between(f.from + 1, f.from + Span - 1)
                    ELSE Between(f.from - Span + 1, f.from - 1)

(* The slots of a range that begins at f.from, read upwards or downwards.  *)
RangeNames == IF q.sort = "asc" THEN Between(f.from, f.from + Span)
              ELSE Between(f.from - Span, f.from)
(* A sorted set: by score, and members of one score as the alphabet has it.*)
Scored(a, b, x, y) == a < b \/ (a = b /\ x < y)
Sorted(a, b, x, y) == IF q.sort = "desc" THEN Scored(b, a, y, x) ELSE Scored(a, b, x, y)
BySlot == {p \in Present("trait") \X Present("trait") :
              Sorted(SlotOf(p[1]), SlotOf(p[2]), p[1], p[2])}
(* A member that reads as a number is answered as one, and is no name.     *)
InRange(names) == Ordered((RangeNames \ Numeric) \intersect names, BySlot)

ByName == {p \in Name \X Name : IF q.sort = "desc" THEN p[1] > p[2] ELSE p[1] < p[2]}
Page(s) == SubSeq(s, (q.page - 1) * PerPage + 1,
                  IF q.page * PerPage < Len(s) THEN q.page * PerPage ELSE Len(s))

ByCount == {p \in Wallet \X Wallet :
               Sorted(Cardinality(InWallet(p[1])), Cardinality(InWallet(p[2])), p[1], p[2])}

-----------------------------------------------------------------------------
(***************************************************************************)
(* getDefaultHandle: the OG handle of the lowest number, else the shortest *)
(* name, else the handle created first, else the first of the alphabet.    *)
(***************************************************************************)
Least(S, key) == {n \in S : \A m \in S : key[n] <= key[m]}

Preferred(S) ==
    LET ogs == {n \in S : Og[n] # 0}
        oldest == Least(Least(S, Length), Born)
    IN IF S = {} THEN None
       ELSE IF ogs # {} THEN CHOOSE n \in Least(ogs, Og) : TRUE
       ELSE CHOOSE n \in oldest : \A m \in oldest : n <= m

-----------------------------------------------------------------------------
(***************************************************************************)
(* The scanner: a handle written to every index in one batch, or a rebuild *)
(* under the REINDEX lock.  A rebuild that throws unlocks too, in finally, *)
(* and is taken up again by a later invocation.                            *)
(***************************************************************************)
others == <<firstSlot, q, pc, f, status, partial>>
Nothing == [n \in Name |-> None]

Counted == events < MaxEvents /\ events' = events + 1

(* Mutant: a burnt handle stays in its wallet's set. *)
IndexedForEver(i, n, r) ==
    [index[i] EXCEPT ![n] = IF r = None /\ i = "wallet" THEN @ ELSE r]

Indexed(i, n, r) == [index[i] EXCEPT ![n] = r]

Write(n, r) ==
    /\ truth' = [truth EXCEPT ![n] = r]
    /\ index' = [i \in Indexes |-> Indexed(i, n, r)]
    /\ seen' = [seen EXCEPT ![n] = @ \union {r}]

(* A mint, a transfer or a new default in the block at the tip.            *)
Save(n) ==
    /\ rebuild = "none" /\ Counted
    /\ \E r \in Record : r.slot = MaxSlot /\ Write(n, r)
    /\ UNCHANGED <<lock, rebuild, others>>

Burn(n) ==
    /\ rebuild = "none" /\ Counted
    /\ truth[n] # None /\ Write(n, None)
    /\ UNCHANGED <<lock, rebuild, others>>

LockReindex ==
    /\ rebuild \in {"none", "failed"}
    /\ Counted
    /\ lock' = "REINDEX" /\ rebuild' = "wipe"
    /\ UNCHANGED <<truth, index, seen, others>>

Wipe(i) ==
    /\ rebuild = "wipe" /\ index[i] # Nothing
    /\ index' = [index EXCEPT ![i] = Nothing]
    /\ UNCHANGED <<truth, lock, rebuild, events, seen, others>>

WriteBack(n) ==
    /\ \/ rebuild = "wipe" /\ \A i \in Indexes : index[i] = Nothing
       \/ rebuild = "write"
    /\ rebuild' = "write"
    /\ truth[n] # None /\ index["handle"][n] = None
    /\ index' = [i \in Indexes |-> [index[i] EXCEPT ![n] = truth[n]]]
    /\ UNCHANGED <<truth, lock, events, seen, others>>

EndReindex ==
    /\ rebuild = "write" /\ Whole
    /\ lock' = "UNLOCKED" /\ rebuild' = "none"
    /\ UNCHANGED <<truth, index, events, seen, others>>

FailReindex ==
    /\ rebuild \in {"wipe", "write"}
    /\ lock' = "UNLOCKED" /\ rebuild' = "failed"
    /\ UNCHANGED <<truth, index, events, seen, others>>

(* What happens after the answer is of no account here.                    *)
Scanner == pc # "done" /\
    (\/ \E n \in Name : Save(n) \/ Burn(n) \/ WriteBack(n)
     \/ LockReindex \/ (\E i \in Indexes : Wipe(i)) \/ EndReindex \/ FailReindex)

-----------------------------------------------------------------------------
(***************************************************************************)
(* The calls of one request.                                               *)
(***************************************************************************)
Unfiltered == /\ q.length = 0 /\ q.wallet = None /\ q.by = None
              /\ q.term = None /\ q.slot = NoSlot

(* The calls of a search, those that its terms need, in this order.        *)
Turn == [begin |-> 0, list |-> 1, length |-> 2, wallet |-> 3, keys |-> 4, hexes |-> 5,
         total |-> 6, names |-> 7, bounds |-> 8, records |-> 9]
Needed(c) ==
    CASE c = "list" -> q.by # None
      [] c = "length" -> q.length # 0
      [] c = "wallet" -> q.wallet # None
      [] c = "keys" -> q.length = 0 /\ q.wallet = None /\ ~Unfiltered
      [] c = "hexes" -> q.term # None
      [] c \in {"total", "names"} -> Unfiltered
      [] c = "bounds" -> q.slot # NoSlot
      [] OTHER -> TRUE

CallAfter(c) ==
    LET later == {d \in DOMAIN Turn : Turn[d] > Turn[c] /\ Needed(d)}
    IN  CHOOSE d \in later : \A e \in later : Turn[d] <= Turn[e]

(* A call: what it saw, and whether an index was not whole when it did.    *)
Served == /\ partial' = (partial \/ ~Whole)
          /\ UNCHANGED <<scanner, q, seen>>
Goes(c) == pc' = c /\ UNCHANGED status

Begin ==
    /\ pc = "begin"
    /\ Goes(CASE q.kind = "search" -> CallAfter("begin")
              [] q.kind = "handle" -> "records"
              [] q.kind = "holder" -> "members"
              [] q.kind = "holders" -> "page")
    /\ f' = [f EXCEPT !.names = IF q.kind = "handle" THEN <<q.name>> ELSE <<>>]
    /\ seen' = [n \in Name |-> {truth[n]}]
    /\ UNCHANGED <<scanner, q, partial>>

(* Mutant: a term nobody has is dropped like one that was not asked. *)
Unmarked(S) == IF S = {} THEN Name ELSE S

(* An asked term nobody has leaves the marker EMPTY, not an unasked term.  *)
Marked(S) == IF S = {} THEN {None} ELSE S

ReadTerm(c, S) ==
    /\ pc = c /\ Goes(CallAfter(c))
    /\ f' = [f EXCEPT !.read = Append(@, S)]
    /\ Served

ReadList == ReadTerm("list", Marked(InWallet(q.by)))       \* getHandlesByHolderAddresses
ReadLength == ReadTerm("length", Marked(OfLength(q.length)))
ReadWallet == ReadTerm("wallet", Marked(InWallet(q.wallet)))
ReadKeys == ReadTerm("keys", Present("handle"))

(* Mutant: the terms are alternatives. *)
MatchingAny == {n \in Name : \E i \in DOMAIN f.read : n \in f.read[i]}

(* The names every term read has.                                          *)
Matching == {n \in Name : \A i \in DOMAIN f.read : n \in f.read[i]}

(* The search term: in the name, or in the hex of the record, and where    *)
(* there is no record any more in the bytes of the name.                   *)
ReadHexes == ReadTerm("hexes", {n \in Matching :
    \/ n \in InText[q.term]
    \/ n \in (IF n \in Present("handle") THEN InHex[q.term] ELSE InBytes[q.term])})

(* The unfiltered page: the count, then one page of the sorted key set.    *)
ReadTotal ==
    /\ pc = "total" /\ Goes("names")
    /\ f' = [f EXCEPT !.total = Cardinality(Present("handle"))]
    /\ Served

ReadNames ==
    /\ pc = "names" /\ Goes("records")
    /\ f' = [f EXCEPT !.names = Page(Ordered(Present("handle"), ByName))]
    /\ Served

(* A search from a slot: one range after another until the page is full.   *)
ReadBounds ==
    /\ pc = "bounds" /\ Goes("range")
    /\ f' = [f EXCEPT !.count = Cardinality(Present("handle")), !.from = q.slot,
                      !.total = Cardinality(Matching)]
    /\ Served

(* Mutant: a range is asked for however far away it is. *)
BeyondNever == FALSE

(* Nothing is smaller or larger than an undefined firstSlot.               *)
Beyond == IF q.sort = "asc" THEN f.from > MaxSlot
          ELSE firstSlot # NoSlot /\ f.from < firstSlot

NextStart == IF q.sort = "asc" THEN f.from + Span ELSE f.from - Span
(* Bound: beyond slot 0 and the tip every range is empty, and two of them  *)
(* stand for all.                                                          *)
Folded(s) == CASE s < -2 * Span -> s + 2 * Span
               [] s > MaxSlot + 2 * Span -> s - 2 * Span
               [] OTHER -> s

PageShort == Len(f.names) < f.count /\ Len(f.names) < PerPage

ReadRange ==
    /\ pc = "range" /\ PageShort /\ ~Beyond
    /\ Goes("range")
    /\ f' = [f EXCEPT !.names = @ \o InRange(Matching), !.from = Folded(NextStart)]
    /\ Served

EndRange ==
    /\ pc = "range" /\ ~(PageShort /\ ~Beyond)
    /\ Goes("records")
    /\ f' = [f EXCEPT !.names = Page(@), !.from = 0, !.count = 0]
    /\ UNCHANGED <<scanner, q, seen, partial>>

(* The records of the page; a name without one is left out.                *)
PageNames == IF q.kind = "handle" \/ Unfiltered \/ q.slot # NoSlot THEN f.names
             ELSE Page(Ordered(Matching, ByName))

ReadRecords ==
    /\ pc = "records"
    /\ LET recs == [i \in DOMAIN PageNames |-> index["handle"][PageNames[i]]]
       IN /\ f' = [f EXCEPT !.names = PageNames, !.recs = recs, !.read = <<>>,
                   !.total = IF Unfiltered \/ q.slot # NoSlot THEN @
                             ELSE Cardinality(Matching),
                   !.todo = {r.wallet : r \in ToSet(recs) \ {None}}]
          /\ IF q.kind = "handle" /\ recs = <<None>>
             THEN pc' = "done" /\ status' = 404
             ELSE Goes(IF q.kind = "handle" THEN "sets" ELSE "chosen")
    /\ Served

-----------------------------------------------------------------------------
(***************************************************************************)
(* The default handle of every wallet on the page: resolveDefaultHandles-  *)
(* ByHolder for a search, prepareHandle for one handle (the wallet's       *)
(* handles first), getAllHolders for the list of holders.                  *)
(***************************************************************************)
(* The order of a set's members is the server's: any chosen handle may be  *)
(* the first.                                                              *)
Picks(W) == {p \in [Wallet -> Name \union {None}] :
                \A w \in Wallet : IF w \in W /\ ChosenIn(w) # {}
                                  THEN p[w] \in ChosenIn(w) ELSE p[w] = None}

ReadChosen ==
    /\ pc = "chosen"
    /\ \E p \in Picks(f.todo) :
        f' = [f EXCEPT !.best = p, !.todo = {w \in @ : p[w] = None}]
    /\ Goes(CASE q.kind = "search" -> "sets"
              [] q.kind = "handle" -> "prefer"
              [] q.kind = "holder" -> "first"
              [] q.kind = "holders" -> "scores")
    /\ Served

(* Every wallet of a page of handles that has no chosen one; of the page   *)
(* of holders those whose score is neither one nor too large.              *)
Computed == IF q.kind = "holders"
            THEN {w \in f.todo : f.scores[w] \in 2..Big} ELSE f.todo

ReadSets ==
    /\ pc = "sets"
    /\ f' = [f EXCEPT !.sets = [w \in Wallet |-> IF w \in Computed THEN InWallet(w) ELSE {}],
                      !.todo = Computed]
    /\ Goes(CASE q.kind = "search" -> "prefer"
              [] q.kind = "handle" -> "chosen"
              [] q.kind = "holders" -> "firsts")
    /\ Served

(* What getDefaultHandle and the shortcuts before it make of a wallet: the *)
(* one handle, any of too many, or the preferred of those with a record.   *)
Candidates(S) ==
    IF Cardinality(S) > Big
    THEN {IF q.kind = "search" \/ n \in Present("handle") THEN n ELSE None : n \in S}
    ELSE IF Cardinality(S) = 1 /\ q.kind = "search" THEN S
    ELSE {Preferred(S \intersect Present("handle"))}

Prefer(w) ==
    /\ pc = "prefer" /\ w \in f.todo
    /\ \E n \in Candidates(f.sets[w]) :
        f' = [f EXCEPT !.best[w] = IF n # None THEN n ELSE f.best[w],
                       !.todo = @ \ {w}, !.sets[w] = {}]
    /\ Goes("prefer")
    /\ Served

EndPrefer ==
    /\ pc = "prefer" /\ f.todo = {}
    /\ Goes("status")
    /\ f' = [f EXCEPT !.sets = Fresh.sets]
    /\ UNCHANGED <<scanner, q, seen, partial>>

(* getAllHolders without the lists of handles.                             *)
ReadPage ==
    /\ pc = "page" /\ Goes("chosen")
    /\ LET held == {w \in Wallet : InWallet(w) # {}}
           page == Page(Ordered(held, ByCount))
       IN f' = [f EXCEPT !.page = page, !.todo = ToSet(page)]
    /\ Served

ReadScores ==
    /\ pc = "scores" /\ Goes("heads")
    /\ f' = [f EXCEPT !.scores = [w \in Wallet |-> IF w \in ToSet(f.page)
                                                   THEN Cardinality(InWallet(w)) ELSE 0]]
    /\ Served

(* The first name of every wallet of the page, in the order of the         *)
(* alphabet; it is the default where nothing better is found.              *)
Heads == [i \in DOMAIN f.page |-> LET S == InWallet(f.page[i])
                                  IN IF S = {} THEN None ELSE CHOOSE n \in S : \A m \in S : n <= m]

ReadHeads ==
    /\ pc = "heads" /\ Goes("sets")
    /\ f' = [f EXCEPT !.names = Heads]
    /\ Served

ReadFirsts ==
    /\ pc = "firsts" /\ Goes("prefer")
    /\ f' = [f EXCEPT !.recs = [i \in DOMAIN f.names |->
                                  IF f.names[i] = None THEN None
                                  ELSE index["handle"][f.names[i]]]]
    /\ Served

(* getHolder: one wallet with all its handles.  The record of any of them   *)
(* tells the address; without one the wallet is not found.                 *)
ReadMembers ==
    /\ pc = "members" /\ Goes("chosen")
    /\ f' = [f EXCEPT !.sets[q.wallet] = InWallet(q.wallet), !.todo = {q.wallet},
                      !.total = Cardinality(InWallet(q.wallet))]
    /\ Served

ReadFirst ==
    /\ pc = "first"
    /\ LET S == f.sets[q.wallet] IN \E n \in IF S = {} THEN {None} ELSE S :
        LET rec == IF n = None THEN None ELSE index["handle"][n]
        IN /\ f' = [f EXCEPT !.names = <<None>>, !.recs = <<rec>>]
           /\ IF rec = None THEN pc' = "done" /\ status' = 404 ELSE Goes("prefer")
    /\ Served

(* currentHttpStatus: the lock first, then whether the cursor is near the  *)
(* tip, which this module leaves open.                                     *)
StatusNow == IF lock = "REINDEX" THEN {503} ELSE {200, 202}

ReadStatus ==
    /\ pc = "status" /\ pc' = "done"
    /\ status' \in StatusNow
    /\ UNCHANGED <<scanner, q, f, seen, partial>>

Reader ==
    \/ Begin \/ ReadList \/ ReadLength \/ ReadWallet \/ ReadKeys
    \/ ReadHexes \/ ReadTotal \/ ReadNames \/ ReadBounds \/ ReadRange \/ EndRange
    \/ ReadRecords \/ ReadChosen \/ ReadSets \/ (\E w \in Wallet : Prefer(w)) \/ EndPrefer
    \/ ReadPage \/ ReadScores \/ ReadHeads \/ ReadFirsts
    \/ ReadMembers \/ ReadFirst \/ ReadStatus

-----------------------------------------------------------------------------
QueryNext == Reader \/ Scanner

(* The request runs until it is answered; the scanner may rest.            *)
QuerySpec == QueryInit /\ [][QueryNext]_queryVars /\ WF_queryVars(Reader)

-----------------------------------------------------------------------------
(***************************************************************************)
(* The answer: the JSON body, made of what the request has read.  An       *)
(* answer about one wallet has one record and no name to fall back on.     *)
(***************************************************************************)
Done == pc = "done" /\ status # 404
Sent == {i \in DOMAIN f.recs : f.recs[i] # None}
(* The wallet whose handles and default were looked up for the i-th entry, *)
(* and the one the entry names: that of the record read for it, whose      *)
(* handle may have moved since.                                            *)
AskedFor(i) == CASE q.kind = "holders" -> f.page[i]
                 [] q.kind = "holder" -> q.wallet
                 [] OTHER -> f.recs[i].wallet
ShownFor(i) == f.recs[i].wallet
DefaultOf(i) == IF f.best[AskedFor(i)] # None THEN f.best[AskedFor(i)] ELSE f.names[i]

(* The state is of the form the code gives it.                             *)
TypeOK ==
    /\ truth \in Handles /\ index \in [Indexes -> Handles]
    /\ firstSlot \in FirstSlots /\ lock \in {"UNLOCKED", "REINDEX"}
    /\ rebuild \in {"none", "wipe", "write", "failed"}
    /\ f \in Frame
    /\ status \in {0, 200, 202, 404, 503}

(* Nothing was written while the request ran, and every index was whole.   *)
Quiet == ~partial /\ \A n \in Name : seen[n] = {truth[n]}

Held(n) == truth[n] # None
Wanted == {n \in Name :
    /\ Held(n)
    /\ q.length # 0 => Length[n] = q.length
    /\ q.wallet # None => truth[n].wallet = q.wallet
    /\ q.by # None => truth[n].wallet = q.by
    /\ q.term # None => n \in InText[q.term] \union InHex[q.term]}

Purse(w) == {n \in Name : Held(n) /\ truth[n].wallet = w}
Favourites(w) == {n \in Purse(w) : truth[n].chosen}
Beats(m, n) ==
    \/ Og[m] # 0 /\ (Og[n] = 0 \/ Og[m] < Og[n])
    \/ Og[m] = 0 /\ Og[n] = 0
       /\ \/ Length[m] < Length[n]
          \/ Length[m] = Length[n] /\ Born[m] < Born[n]
          \/ Length[m] = Length[n] /\ Born[m] = Born[n] /\ m < n
RightDefault(n, w) ==
    /\ n \in Purse(w)
    /\ IF Favourites(w) # {} THEN n \in Favourites(w)
       ELSE Cardinality(Purse(w)) > Big \/ \A m \in Purse(w) \ {n} : Beats(n, m)

(* The number of members of S before x.                                    *)
Before(S, x, less(_, _)) == Cardinality({y \in S : less(y, x)})
OnPage(k) == k \in (q.page - 1) * PerPage .. q.page * PerPage - 1
Ranked(S, s, less(_, _)) ==
    /\ Len(s) = Cardinality({x \in S : OnPage(Before(S, x, less))})
    /\ \A x \in S : LET k == Before(S, x, less)
                     IN OnPage(k) => s[k - (q.page - 1) * PerPage + 1] = x

Up(m, n) == IF q.sort = "desc" THEN m > n ELSE m < n
Richer(v, w) ==
    LET a == Cardinality(Purse(v))  b == Cardinality(Purse(w))
    IN IF q.sort = "desc" THEN a > b \/ (a = b /\ v > w) ELSE a < b \/ (a = b /\ v < w)

(***************************************************************************)
(* A request that nothing was written under is answered from the handles   *)
(* as they are: every match once, on its page and in its order, with the   *)
(* total; the holders by the number of their handles; and every way of     *)
(* asking shows the same default handle for a wallet (search,              *)
(* getAllHolders and prepareHandle each work it out for themselves).       *)
(***************************************************************************)
QuietAnswersAreExact == pc = "done" /\ Quiet =>
    /\ q.kind = "handle" => (status = 404 <=> ~Held(q.name))
    /\ q.kind = "holder" => /\ status = 404 <=> Purse(q.wallet) = {}
                           /\ f.total = Cardinality(Purse(q.wallet))
    /\ q.kind = "search" =>
        /\ f.total = Cardinality(Wanted)
        /\ q.slot = NoSlot => Ranked(Wanted, f.names, Up)
    /\ q.kind = "holders" =>
        /\ Ranked({w \in Wallet : Purse(w) # {}}, f.page, Richer)
        /\ \A w \in ToSet(f.page) : f.scores[w] = Cardinality(Purse(w))
    /\ status # 404 => Sent = (IF q.kind = "holders" THEN DOMAIN f.page ELSE DOMAIN f.names)
    /\ \A i \in Sent : status # 404 => RightDefault(DefaultOf(i), ShownFor(i))

(***************************************************************************)
(* Whatever the scanner does meanwhile, a record that is sent is one the   *)
(* handle had since the request came, and every term the request asked for *)
(* was true of the handle at some moment since then.                       *)
(***************************************************************************)
AnswersWereTrue == Done /\ q.kind = "search" => \A i \in Sent :
    LET had == seen[f.names[i]] \ {None}
    IN /\ f.recs[i] \in had
       /\ q.length # 0 => Length[f.names[i]] = q.length
       /\ q.wallet # None => \E r \in had : r.wallet = q.wallet
       /\ q.by # None => \E r \in had : r.wallet = q.by
       /\ q.term # None => f.names[i] \in InText[q.term] \union InHex[q.term]
       /\ q.slot # NoSlot => \E r \in had : IF q.sort = "asc" THEN r.slot >= q.slot
                                           ELSE r.slot <= q.slot

(***************************************************************************)
(* The default handle of an entry was in the wallet it was looked up for   *)
(* at some moment since the request came, though the wallet, the chosen    *)
(* handle and the records are read in separate calls.  An entry that names *)
(* another wallet (the holder's first handle had moved when its record was *)
(* read) names one that a handle of the wallet asked for went to.          *)
(***************************************************************************)
DefaultWasHeld == Done => \A i \in Sent :
    /\ \/ q.kind = "holder" /\ DefaultOf(i) = None
       \/ \E r \in seen[DefaultOf(i)] \ {None} : r.wallet = AskedFor(i)
    /\ ShownFor(i) # AskedFor(i) => \E n \in Name : \E r, s \in seen[n] \ {None} :
                                     r.wallet = AskedFor(i) /\ s.wallet = ShownFor(i)

(***************************************************************************)
(* A search from a slot, with nothing written under it, lists the matches  *)
(* in the order of their slots and leaves none out up to where the page is *)
(* full.  Handles whose name reads as a number are never listed, and a     *)
(* handle at a slot where one range ends and the next begins is listed     *)
(* twice; then the count of names reaches handleCount too early.           *)
(***************************************************************************)
Reached == {n \in Wanted \ Numeric : IF q.sort = "asc" THEN truth[n].slot >= q.slot
                                     ELSE truth[n].slot <= q.slot}
OnEdge(n) == /\ truth[n].slot # q.slot
             /\ (IF q.sort = "asc" THEN truth[n].slot - q.slot ELSE q.slot - truth[n].slot)
                 % Span = 0
Sooner(m, n) == LET a == truth[m].slot  b == truth[n].slot
                IN IF q.sort = "asc" THEN a < b \/ (a = b /\ m < n)
                   ELSE a > b \/ (a = b /\ m > n)

SlotSearchHasNoGaps == pc = "done" /\ Quiet /\ q.slot # NoSlot =>
    IF \E n \in Reached : OnEdge(n)
    THEN \A i \in DOMAIN f.names : \A n \in Reached :
            Sooner(n, f.names[i]) => \E j \in 1..i : f.names[j] = n
    ELSE Ranked(Reached, f.names, Sooner)

(***************************************************************************)
(* Every request is answered, but for a search downwards from a slot where *)
(* firstSlot is not stored: no range is then the last, and with fewer      *)
(* matches than the page asks for the loop has no end.                     *)
(***************************************************************************)
SearchEnds ==
    <>(pc = "done" \/ (firstSlot = NoSlot /\ q.slot # NoSlot /\ q.sort = "desc"))

(* The comment on currentHttpStatus: a body read from a half-rebuilt index *)
(* is not served with a 2xx.                                               *)
WholeOrRefused == status \in {200, 202} => ~partial

(* What the description of slot_number says (docs/swagger.yml): a handle   *)
(* comes twice only if handles are added or updated meanwhile.             *)
ListedOnce == pc = "done" /\ Quiet /\ q.slot # NoSlot =>
    \A i, j \in DOMAIN f.names : f.names[i] = f.names[j] => i = j
=============================================================================
