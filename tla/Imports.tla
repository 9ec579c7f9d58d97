------------------------------ MODULE Imports -------------------------------
(***************************************************************************)
(* The import of a spreadsheet of sales and the reprocessing of what an     *)
(* import left pending: ImportsService (imports/imports.service.ts), its    *)
(* lock (import-lock.ts), what resolveRecord (resolver.ts) needs to be      *)
(* known, and the mappings an operator adds meanwhile                       *)
(* (mappings.service.ts).                                                   *)
(*                                                                          *)
(* A run reads the names, the hashes of the lines seen and the sales of     *)
(* every key once, and then works from these copies, line by line.  Each    *)
(* line is two writes, the sale and the row that records it, with nothing   *)
(* around both.                                                             *)
(***************************************************************************)
EXTENDS Naturals, FiniteSets, Sequences

CONSTANTS
    Imports,       \* requests that import a file; each is the id of its batch
    Reprocesses,   \* requests that reprocess a batch
    Lines,         \* contents of a line; its hash is told apart from every other
    Blank,         \* lines without sale data
    KeyOf,         \* KeyOf[l]: the dedupe key of line l: order, document and date
    Needs,         \* Needs[l]: the names that block line l while they are unknown
    Names,         \* names a mapping or a catalog may make known
    Files,         \* the files: sequences of lines, the header left out
    MaxChanges,    \* bound on the changes of the known names
    MaxFaults,     \* bound on failing statements and crashes
    NULL           \* "no batch" and "no statistics"

Jobs == Imports \cup Reprocesses

ASSUME ImportsAssumption ==
    /\ Imports \cap Reprocesses = {}
    /\ NULL \notin Imports
    /\ Blank \subseteq Lines
    /\ Files \subseteq Seq(Lines)
    /\ KeyOf \in [Lines -> {KeyOf[l] : l \in Lines}]
    \* A line may need what is in no catalog: a mandatory field it lacks.
    /\ DOMAIN Needs = Lines
    /\ MaxChanges \in Nat /\ MaxFaults \in Nat

VARIABLES
    file,       \* file[b]: the file import b was asked to read
    batches,    \* the batches that exist
    stats,      \* stats[b]: the statistics of a batch, NULL while they are {}
    rows,       \* the table import_rows
    sales,      \* sales[s]: the line sale s was last written from
    known,      \* the names that resolve
    running,    \* whether the lock is taken
    pc,         \* pc[j]: how far request j has come
    batch,      \* batch[j]: the batch j works on
    todo,       \* todo[j]: the positions j still has to do
    cache,      \* cache[j]: what j read before its first line
    count,      \* count[j]: the statistics j counts
    hand,       \* hand[j]: the position and the sale j has written and not recorded
    changes,    \* how often the known names changed
    faults,     \* how many faults there were
    lost,       \* history variable: sales written whose row was never recorded
    damaged,    \* history variable: batches whose counts a fault has spoilt
    cut         \* history variable: batches whose import never wrote its statistics

job   == <<pc, batch, todo, cache, count, hand>>
ghost == <<lost, damaged, cut>>
vars  == <<file, batches, stats, rows, sales, known, running, pc, batch, todo,
           cache, count, hand, changes, faults, lost, damaged, cut>>

Status == {"CREATED", "UPDATED", "SKIPPED", "PENDING"}

Applied == {"CREATED", "UPDATED"}

\* A row of the table; sale 0 is no sale.
Row == [batch : Imports, pos : Nat, line : Lines, status : Status, sale : Nat]

Stats == [total : Nat, created : Nat, updated : Nat, skipped : Nat,
          pending : Nat, ignored : Nat]

ASSUME NullAssumption == NULL \notin Stats

NoStats == [total |-> 0, created |-> 0, updated |-> 0, skipped |-> 0,
            pending |-> 0, ignored |-> 0]

Hand == [pos : Nat, sale : Nat, created : BOOLEAN]

NoHand == [pos |-> 0, sale |-> 0, created |-> FALSE]

Keys == {KeyOf[l] : l \in Lines}

\* What a run knows: the names, the lines seen, and the sales of each key.
Cache == [names : SUBSET Names, seen : SUBSET Lines, byKey : [Keys -> SUBSET Nat]]

NoCache == [names |-> {}, seen |-> {}, byKey |-> [k \in Keys |-> {}]]

Data(b) == {p \in DOMAIN file[b] : file[b][p] \notin Blank}

-----------------------------------------------------------------------------
(* The lock. *)

BusyNever == FALSE

\* ImportLock.run refuses while the key of this database is in its set.
Busy == running

Underway == {"open", "load", "line", "record", "failed"}

\* runImport and reprocess start under the lock, or are refused.
Begin(j) ==
    /\ pc[j] = "new"
    /\ pc' = [pc EXCEPT ![j] = IF Busy THEN "refused" ELSE "open"]
    /\ running' = TRUE
    /\ UNCHANGED <<file, batches, stats, rows, sales, known, batch, todo, cache,
                   count, hand, changes, faults, ghost>>

UnlockedOnSuccess(r) == IF r = "done" THEN FALSE ELSE running

\* The finally of ImportLock.run, for a request that ends as r.
Unlocked(r) == FALSE

Ends(j, r) ==
    /\ pc' = [pc EXCEPT ![j] = r]
    /\ running' = Unlocked(r)
    /\ todo' = [todo EXCEPT ![j] = {}]
    /\ cache' = [cache EXCEPT ![j] = NoCache]
    /\ count' = [count EXCEPT ![j] = NoStats]
    /\ hand' = [hand EXCEPT ![j] = NoHand]

\* The file is empty or lacks a column, or the batch is not there.
Reject(j) ==
    /\ pc[j] = "open"
    /\ Ends(j, "done")
    /\ UNCHANGED <<file, batches, stats, rows, sales, known, batch, changes, faults, ghost>>

-----------------------------------------------------------------------------
(* What a run reads before its first line. *)

\* The import creates its batch, with statistics {}.
Open(j) ==
    /\ j \in Imports
    /\ pc[j] = "open"
    /\ batches' = batches \cup {j}
    /\ batch' = [batch EXCEPT ![j] = j]
    /\ \E f \in Files :
         /\ file' = [file EXCEPT ![j] = f]
         /\ todo' = [todo EXCEPT ![j] = DOMAIN f]
    /\ pc' = [pc EXCEPT ![j] = "load"]
    /\ UNCHANGED <<stats, rows, sales, known, running, cache, count, hand,
                   changes, faults, ghost>>

Pending(b) == {r \in rows : r.batch = b /\ r.status = "PENDING"}

ReadNothing(b) == 0

\* Ignored lines are not stored: their number is kept from the statistics.
ReadIgnored(b) == IF stats[b] = NULL THEN 0 ELSE stats[b].ignored

\* Without the batch the answer is IMPORT_BATCH_NOT_FOUND: see Reject.
Found == batches

\* Reprocessing reads the batch with its pending rows.
OpenAgain(j) ==
    /\ j \in Reprocesses
    /\ pc[j] = "open"
    /\ \E b \in Found :
         /\ batch' = [batch EXCEPT ![j] = b]
         /\ todo' = [todo EXCEPT ![j] = {r.pos : r \in Pending(b)}]
         /\ count' = [count EXCEPT ![j] = [NoStats EXCEPT !.ignored = ReadIgnored(b)]]
    /\ pc' = [pc EXCEPT ![j] = "load"]
    /\ UNCHANGED <<file, batches, stats, rows, sales, known, running, cache, hand,
                   changes, faults, ghost>>

\* The rows buildSalesByKey reads.
Recorded == {r \in rows : r.sale # 0 /\ r.status \in Applied}

SalesOf(k) == {r.sale : r \in {q \in Recorded : KeyOf[q.line] = k}}

Load(j) ==
    /\ pc[j] = "load"
    /\ cache' = [cache EXCEPT ![j] =
                   [names |-> known,
                    seen  |-> {r.line : r \in {q \in rows : q.status # "PENDING"}},
                    byKey |-> [k \in Keys |-> SalesOf(k)]]]
    /\ pc' = [pc EXCEPT ![j] = "line"]
    /\ UNCHANGED <<file, batches, stats, rows, sales, known, running, batch, todo,
                   count, hand, changes, faults, ghost>>

-----------------------------------------------------------------------------
(* One line. *)

\* An import goes through its file in order; the rows come in any order.
Turn(j, p) ==
    /\ pc[j] = "line"
    /\ p \in todo[j]
    /\ j \in Imports => \A q \in todo[j] : p <= q

LineAt(j, p) == file[batch[j]][p]

IsData(j, p) == LineAt(j, p) \notin Blank

CountIgnored(j) == [count EXCEPT ![j].ignored = @ + 1]

Ignore(j, p) ==
    /\ Turn(j, p)
    /\ ~ IsData(j, p)
    /\ count' = CountIgnored(j)
    /\ todo' = [todo EXCEPT ![j] = @ \ {p}]
    /\ UNCHANGED <<file, batches, stats, rows, sales, known, running, pc, batch,
                   cache, hand, changes, faults, ghost>>

\* Only an import looks at the lines seen.
Seen(j, p) == j \in Imports /\ LineAt(j, p) \in cache[j].seen

Prior(j, p) == cache[j].byKey[KeyOf[LineAt(j, p)]]

\* A name is missing, or the key has several sales.
Held(j, p) ==
    \/ ~ Needs[LineAt(j, p)] \subseteq cache[j].names
    \/ Cardinality(Prior(j, p)) > 1

NewRow(j, p, status, s) ==
    [batch |-> batch[j], pos |-> p, line |-> LineAt(j, p), status |-> status, sale |-> s]

At(j, p) == {r \in rows : r.batch = batch[j] /\ r.pos = p}

\* importRow.create of an import, importRow.update of a reprocessing.
Written(j, p, status, s) == (rows \ At(j, p)) \cup {NewRow(j, p, status, s)}

\* The counters a run keeps; a reprocessing keeps none.
Plus(j, names) ==
    [count EXCEPT ![j] =
       [f \in DOMAIN @ |-> @[f] + IF j \in Imports /\ f \in names THEN 1 ELSE 0]]

\* The statement that ends line p succeeds.
Done(j, p) ==
    /\ pc' = [pc EXCEPT ![j] = "line"]
    /\ todo' = [todo EXCEPT ![j] = @ \ {p}]
    /\ hand' = [hand EXCEPT ![j] = NoHand]
    /\ UNCHANGED faults

\* A statement of line p fails and the catch takes over.
Fails(j, p) ==
    /\ faults < MaxFaults
    /\ faults' = faults + 1
    /\ pc' = [pc EXCEPT ![j] = "failed"]
    /\ hand' = [hand EXCEPT ![j] = [NoHand EXCEPT !.pos = p]]
    /\ UNCHANGED todo

\* An import that fails after it counted the line counts it as pending too.
CountedTwice(j) == IF j \in Imports THEN damaged \cup {batch[j]} ELSE damaged

\* The row of a line counted as c gets a status that needs no sale.
Note(j, p, status, c) ==
    /\ count' = Plus(j, {"total", c})
    /\ \/ /\ Done(j, p)
          /\ rows' = Written(j, p, status, 0)
          /\ UNCHANGED damaged
       \/ /\ Fails(j, p)
          /\ damaged' = CountedTwice(j)
          /\ UNCHANGED rows
    /\ UNCHANGED <<file, batches, stats, sales, known, running, batch, cache,
                   changes, lost, cut>>

Skip(j, p) ==
    /\ Turn(j, p) /\ IsData(j, p)
    /\ Seen(j, p)
    /\ Note(j, p, "SKIPPED", "skipped")

Hold(j, p) ==
    /\ Turn(j, p) /\ IsData(j, p)
    /\ ~ Seen(j, p)
    /\ Held(j, p)
    /\ Note(j, p, "PENDING", "pending")

\* A created sale is the sale of its key for the rest of the run.
Bucket(j, p, s) == [cache[j].byKey EXCEPT ![KeyOf[LineAt(j, p)]] = @ \cup {s}]

\* What the run knows once it has written sale s: nothing it writes changes
\* the names; an import has seen the line.
Learned(j, p, s, created) ==
    [names |-> cache[j].names,
     seen  |-> IF j \in Imports THEN cache[j].seen \cup {LineAt(j, p)} ELSE cache[j].seen,
     byKey |-> IF created THEN Bucket(j, p, s) ELSE cache[j].byKey]

\* The transaction of applyImportRecord writes sale s.
Wrote(j, p, s, created) ==
    /\ sales' = IF created THEN Append(sales, LineAt(j, p))
                           ELSE [sales EXCEPT ![s] = LineAt(j, p)]
    /\ hand' = [hand EXCEPT ![j] = [pos |-> p, sale |-> s, created |-> created]]
    /\ cache' = [cache EXCEPT ![j] = Learned(j, p, s, created)]
    /\ count' = Plus(j, {"total", IF created THEN "created" ELSE "updated"})
    /\ pc' = [pc EXCEPT ![j] = "record"]
    /\ UNCHANGED <<todo, faults>>

Apply(j, p) ==
    /\ Turn(j, p) /\ IsData(j, p)
    /\ ~ Seen(j, p)
    /\ ~ Held(j, p)
    /\ \/ \E s \in Prior(j, p) : Wrote(j, p, s, FALSE)
       \/ Prior(j, p) = {} /\ Wrote(j, p, Len(sales) + 1, TRUE)
       \/ /\ Fails(j, p)
          /\ count' = Plus(j, {"total"})
          /\ UNCHANGED <<sales, cache>>
    /\ UNCHANGED <<file, batches, stats, rows, known, running, batch, changes, ghost>>

\* The row records the sale.
Record(j) ==
    /\ pc[j] = "record"
    /\ LET p == hand[j].pos
       IN \/ /\ Done(j, p)
             /\ rows' = Written(j, p, IF hand[j].created THEN "CREATED" ELSE "UPDATED",
                                hand[j].sale)
             /\ UNCHANGED <<lost, damaged>>
          \/ /\ Fails(j, p)
             /\ lost' = lost \cup {hand[j].sale}
             /\ damaged' = CountedTwice(j)
             /\ UNCHANGED rows
    /\ UNCHANGED <<file, batches, stats, sales, known, running, batch, cache, count,
                   changes, cut>>

CaughtSilently(j, p) == rows

\* The row the catch writes.
Caught(j, p) == Written(j, p, "PENDING", 0)

Catch(j) ==
    /\ pc[j] = "failed"
    /\ count' = Plus(j, {"pending"})
    /\ rows' = Caught(j, hand[j].pos)
    /\ Done(j, hand[j].pos)
    /\ UNCHANGED <<file, batches, stats, sales, known, running, batch, cache,
                   changes, ghost>>

-----------------------------------------------------------------------------
(* The end of a run. *)

Number(b, status) == Cardinality({r \in rows : r.batch = b /\ r.status = status})

\* computeBatchStats over the rows of b.
ComputeBatchStats(b, ignored) ==
    [total   |-> Cardinality({r \in rows : r.batch = b}),
     created |-> Number(b, "CREATED"),
     updated |-> Number(b, "UPDATED"),
     skipped |-> Number(b, "SKIPPED"),
     pending |-> Number(b, "PENDING"),
     ignored |-> ignored]

\* An import stores what it counted, a reprocessing counts the rows again.
Close(j) ==
    /\ pc[j] = "line" /\ todo[j] = {}
    /\ stats' = [stats EXCEPT ![batch[j]] =
                   IF j \in Imports THEN count[j]
                   ELSE ComputeBatchStats(batch[j], count[j].ignored)]
    /\ damaged' = IF j \in Imports THEN damaged ELSE damaged \ {batch[j]}
    /\ Ends(j, "done")
    /\ UNCHANGED <<file, batches, rows, sales, known, batch, changes, faults, lost, cut>>

\* A run stops half way.
Interrupted(stopped) ==
    /\ cut' = cut \cup (stopped \cap Imports)
    /\ damaged' = damaged \cup {batch[j] : j \in {i \in stopped \cap Reprocesses : pc[i] # "load"}}
    /\ lost' = lost \cup {hand[j].sale : j \in {i \in stopped : pc[i] = "record"}}

\* A read before the first line, the row of the catch, or the statistics of
\* the end fail: the request fails and the lock is given back.
Abort(j) ==
    /\ \/ pc[j] \in {"load", "failed"}
       \/ pc[j] = "line" /\ todo[j] = {}
    /\ faults < MaxFaults
    /\ faults' = faults + 1
    /\ Interrupted({j})
    /\ Ends(j, "failure")
    /\ UNCHANGED <<file, batches, stats, rows, sales, known, batch, changes>>

\* The process dies with every run and with the lock.
Crash ==
    LET stopped == {j \in Jobs : pc[j] \in Underway}
    IN /\ stopped # {}
       /\ faults < MaxFaults
       /\ faults' = faults + 1
       /\ Interrupted({j \in stopped : pc[j] # "open"})
       /\ pc' = [j \in Jobs |-> IF j \in stopped THEN "failure" ELSE pc[j]]
       /\ todo' = [j \in Jobs |-> {}]
       /\ cache' = [j \in Jobs |-> NoCache]
       /\ count' = [j \in Jobs |-> NoStats]
       /\ hand' = [j \in Jobs |-> NoHand]
       /\ running' = FALSE
       /\ UNCHANGED <<file, batches, stats, rows, sales, known, batch, changes>>

\* A mapping, a user, a plan or a value is added or taken away.
Map ==
    /\ changes < MaxChanges
    /\ changes' = changes + 1
    /\ \/ \E n \in Names \ known : known' = known \cup {n}
       \/ \E n \in known : known' = known \ {n}
    /\ UNCHANGED <<file, batches, stats, rows, sales, running, job, faults, ghost>>

-----------------------------------------------------------------------------
Init ==
    /\ file = [b \in Imports |-> <<>>]
    /\ batches = {}
    /\ stats = [b \in Imports |-> NULL]
    /\ rows = {}
    /\ sales = <<>>
    /\ known = {}
    /\ running = FALSE
    /\ pc = [j \in Jobs |-> "new"]
    /\ batch = [j \in Jobs |-> NULL]
    /\ todo = [j \in Jobs |-> {}]
    /\ cache = [j \in Jobs |-> NoCache]
    /\ count = [j \in Jobs |-> NoStats]
    /\ hand = [j \in Jobs |-> NoHand]
    /\ changes = 0
    /\ faults = 0
    /\ lost = {}
    /\ damaged = {}
    /\ cut = {}

\* What a request does by itself once it holds the lock.
Step(j) ==
    \/ Open(j) \/ OpenAgain(j) \/ Load(j)
    \/ \E p \in todo[j] : Ignore(j, p) \/ Skip(j, p) \/ Hold(j, p) \/ Apply(j, p)
    \/ Record(j) \/ Catch(j) \/ Close(j)
    \/ Reject(j) \/ Abort(j)

\* Every request has ended: the finite supply of requests is used up.
Finished ==
    /\ \A j \in Jobs : pc[j] \notin Underway \cup {"new"}
    /\ UNCHANGED vars

Next ==
    \/ \E j \in Jobs : Begin(j) \/ Step(j)
    \/ Map
    \/ Crash
    \/ Finished

Spec == Init /\ [][Next]_vars

\* A statement answers or fails, so a run that holds the lock goes on.
FairSpec == Spec /\ \A j \in Jobs : WF_vars(Step(j))

-----------------------------------------------------------------------------
(* Properties. *)

\* Every variable has its type; who works on a batch works on one that exists.
TypeOK ==
    /\ file \in [Imports -> Seq(Lines)]
    /\ batches \subseteq Imports
    /\ stats \in [Imports -> {NULL} \cup Stats]
    /\ rows \subseteq Row
    /\ sales \in Seq(Lines)
    /\ known \subseteq Names
    /\ running \in BOOLEAN
    /\ pc \in [Jobs -> Underway \cup {"new", "refused", "done", "failure"}]
    /\ batch \in [Jobs -> {NULL} \cup batches]
    /\ todo \in [Jobs -> SUBSET Nat]
    /\ cache \in [Jobs -> Cache]
    /\ count \in [Jobs -> Stats]
    /\ hand \in [Jobs -> Hand]
    /\ changes \in 0..MaxChanges /\ faults \in 0..MaxFaults
    /\ lost \subseteq DOMAIN sales
    /\ damaged \subseteq batches /\ cut \subseteq batches

\* The rows of a key name one sale at most, whatever fails: "Chave ambigua"
\* is an answer no sequence of imports and reprocessings can bring about.
OneRecordedSale == \A k \in Keys : Cardinality(SalesOf(k)) <= 1

\* A key has one sale, and one more for each sale whose row could not be
\* recorded: a spreadsheet sent again, or reprocessed, duplicates no sale.
OneSalePerKey ==
    \A k \in Keys :
        LET of(S) == {s \in S : KeyOf[sales[s]] = k}
        IN Cardinality(of(DOMAIN sales)) <= 1 + Cardinality(of(lost))

\* Importing or reprocessing again duplicates no sale.
SalesOnce == OneRecordedSale /\ OneSalePerKey

InWork(b) == \E j \in Jobs : pc[j] \in Underway /\ batch[j] = b

\* The statistics of a batch are those of its rows and of the blank lines of
\* its file, unless a fault came after a line was counted and the batch was
\* not reprocessed since.
StatsExact ==
    \A b \in batches \ damaged :
        stats[b] # NULL /\ ~ InWork(b) =>
            /\ stats[b] = ComputeBatchStats(b, stats[b].ignored)
            /\ b \notin cut => stats[b].ignored = Len(file[b]) - Cardinality(Data(b))

\* A batch whose import came to its end has one row for every line with data,
\* also for the lines that failed: no line of the spreadsheet is lost.
RowPerLine ==
    \A b \in batches \ cut :
        ~ InWork(b) =>
            \A p \in Data(b) :
                Cardinality({r \in rows : r.batch = b /\ r.pos = p /\ r.line = file[b][p]}) = 1

\* The lock is given back, however the run ends.
LockFreed == running ~> ~ running

\* The line of a sheet that row r is about.
LineOf(r) == [batch |-> r.batch, pos |-> r.pos, line |-> r.line]

\* What the runs do to the rows and the sales is what Ledger allows, wherever
\* they stop: a line that has its result keeps it, a reprocessing settles only
\* lines that wait, a key keeps its sale, and no sale passes to another key.
Sheets == INSTANCE Ledger WITH
    waiting <- {LineOf(r) : r \in {q \in rows : q.status = "PENDING"}},
    settled <- {LineOf(r) : r \in {q \in rows : q.status # "PENDING"}},
    sold    <- [k \in Keys |-> SalesOf(k)]

ImplementsLedger == Sheets!Spec
=============================================================================
