--------------------------- MODULE ImportsProofs ---------------------------
(* Theorems about Imports, for any files, keys, names, requests and faults. *)
EXTENDS Imports, FiniteSetTheorems, TLAPS

\* A run that has its batch.
Working(j) == pc[j] \in {"load", "line", "record", "failed"}

\* A run that has its copies of the tables.
Loaded(j) == pc[j] \in {"line", "record", "failed"}

\* One run at a time: the lock is taken while one is under way.
LockHeld ==
    /\ \A j \in Jobs : pc[j] \in Underway => running
    /\ \A i, j \in Jobs : pc[i] \in Underway /\ pc[j] \in Underway => i = j

\* A run works on a batch that exists, an import on its own, which did not
\* exist before; what it still has to do are lines of the file without a
\* result.
BatchesOpen ==
    /\ \A j \in Jobs : Working(j) =>
         /\ batch[j] \in batches
         /\ todo[j] \subseteq DOMAIN file[batch[j]]
         /\ \A r \in rows : r.batch = batch[j] /\ r.pos \in todo[j] => r.status = "PENDING"
    /\ \A j \in Imports : batch[j] \in {NULL, j}
    /\ \A j \in Imports : pc[j] \in {"new", "open"} => j \notin batches

\* A row is that of a line of a file, the only one of that line, and names a
\* sale that was written, of the line's key.
RowsTrue ==
    /\ IsFiniteSet(rows)
    /\ \A r \in rows :
         /\ r.batch \in batches
         /\ r.pos \in DOMAIN file[r.batch]
         /\ r.line = file[r.batch][r.pos]
         /\ r.status \in Applied => r.sale \in DOMAIN sales
         /\ r.status \notin Applied => r.sale = 0
    /\ \A r, q \in rows : r.batch = q.batch /\ r.pos = q.pos => r = q

\* The sale in hand is of the line in hand, which is still to be done.
HandTrue ==
    \A j \in Jobs :
        /\ pc[j] \in {"record", "failed"} => hand[j].pos \in todo[j]
        /\ pc[j] = "record" => hand[j].sale \in Prior(j, hand[j].pos)

\* The cache of a run holds every recorded sale, and one sale per key.
CacheTrue ==
    \A j \in Jobs : Loaded(j) =>
        \A k \in Keys :
            /\ SalesOf(k) \subseteq cache[j].byKey[k]
            /\ \A s \in cache[j].byKey[k] : s \in DOMAIN sales /\ KeyOf[sales[s]] = k
            /\ \A s, t \in cache[j].byKey[k] : s = t

\* Every key has one recorded sale, which was written from a line of the key.
OneEach ==
    \A k \in Keys :
        /\ \A s \in SalesOf(k) : s \in DOMAIN sales /\ KeyOf[sales[s]] = k
        /\ \A s, t \in SalesOf(k) : s = t

\* A sale that was written is recorded, about to be, or lost.
SalesAccounted ==
    \A s \in DOMAIN sales :
        \/ s \in lost
        \/ \E k \in Keys : s \in SalesOf(k)
        \/ \E j \in Jobs : pc[j] = "record" /\ hand[j].sale = s

\* A line with data has its row or is still to be done, unless its import was
\* cut short.
LinesAccounted ==
    \A b \in batches \ cut : \A p \in Data(b) :
        \/ \E r \in rows : r.batch = b /\ r.pos = p
        \/ Working(b) /\ p \in todo[b]

IInv ==
    /\ TypeOK /\ LockHeld /\ BatchesOpen /\ RowsTrue /\ HandTrue
    /\ CacheTrue /\ OneEach /\ SalesAccounted /\ LinesAccounted

-----------------------------------------------------------------------------
\* The first state.
LEMMA InitIInv == Init => IInv
<1> SUFFICES ASSUME Init PROVE IInv
  OBVIOUS
<1>1. rows = {} /\ sales = <<>> /\ DOMAIN sales = {} /\ IsFiniteSet(rows)
  BY FS_EmptySet DEF Init
<1>2. \A k \in Keys : SalesOf(k) = {}
  BY <1>1 DEF SalesOf, Recorded
<1>3. NoCache \in Cache
  BY DEF NoCache, Cache
<1>4. NoStats \in Stats /\ NoHand \in Hand
  BY DEF NoStats, Stats, NoHand, Hand
<1>5. TypeOK
  <2>1. /\ file \in [Imports -> Seq(Lines)] /\ stats \in [Imports -> {NULL} \cup Stats]
        /\ cache \in [Jobs -> Cache] /\ count \in [Jobs -> Stats] /\ hand \in [Jobs -> Hand]
    BY <1>3, <1>4 DEF Init
  <2>2. /\ sales \in Seq(Lines) /\ batch \in [Jobs -> {NULL} \cup batches]
        /\ todo \in [Jobs -> SUBSET Nat]
    BY <1>1 DEF Init
  <2>3. changes \in 0..MaxChanges /\ faults \in 0..MaxFaults
    BY ImportsAssumption DEF Init
  <2> QED
    BY <1>1, <2>1, <2>2, <2>3 DEF Init, TypeOK
<1>6. LockHeld /\ BatchesOpen /\ CacheTrue
  BY DEF Init, LockHeld, BatchesOpen, CacheTrue, Working, Loaded, Underway, Jobs
<1>8. HandTrue
  BY DEF Init, HandTrue
<1>7. RowsTrue /\ OneEach /\ SalesAccounted /\ LinesAccounted
  BY <1>1, <1>2 DEF Init, RowsTrue, OneEach, SalesAccounted, LinesAccounted
<1> QED
  BY <1>5, <1>6, <1>7, <1>8 DEF IInv

\* A run at a line has a batch, which some import opened, and the line is one
\* of its file.
LEMMA LineInFile ==
    ASSUME TypeOK, BatchesOpen, NEW j \in Jobs, Working(j), NEW p \in todo[j]
    PROVE  /\ batch[j] \in batches /\ batch[j] \in Imports
           /\ p \in Nat
           /\ p \in DOMAIN file[batch[j]]
           /\ LineAt(j, p) = file[batch[j]][p]
           /\ LineAt(j, p) \in Lines /\ KeyOf[LineAt(j, p)] \in Keys
<1>1. batch[j] \in batches /\ batch[j] \in Imports /\ p \in DOMAIN file[batch[j]]
  BY DEF TypeOK, BatchesOpen
<1>2. file[batch[j]] \in Seq(Lines)
  BY <1>1 DEF TypeOK
<1>3. file[batch[j]][p] \in Lines /\ p \in Nat
  BY <1>1, <1>2
<1> QED
  BY <1>1, <1>3 DEF LineAt, Keys

LEMMA PlusTyped ==
    ASSUME count \in [Jobs -> Stats], NEW j \in Jobs, NEW names
    PROVE  Plus(j, names) \in [Jobs -> Stats]
<1>1. \A c \in Stats :
        [f \in DOMAIN c |-> c[f] + IF j \in Imports /\ f \in names THEN 1 ELSE 0] \in Stats
  BY DEF Stats
<1> QED
  BY <1>1 DEF Plus

\* What a row written for line p of run j is.
LEMMA NewRowTyped ==
    ASSUME TypeOK, BatchesOpen, NEW j \in Jobs, Working(j), NEW p \in todo[j],
           NEW status \in Status, NEW s \in Nat
    PROVE  NewRow(j, p, status, s) \in Row
BY LineInFile DEF NewRow, Row

\* The statistics counted from the rows are numbers.
LEMMA CountedTyped ==
    ASSUME IsFiniteSet(rows), NEW b, NEW ignored \in Nat
    PROVE  ComputeBatchStats(b, ignored) \in Stats
<1>1. \A S : S \subseteq rows => Cardinality(S) \in Nat
  BY FS_Subset, FS_CardinalityType
<1>2. \A status : Number(b, status) \in Nat
  BY <1>1 DEF Number
<1>3. Cardinality({r \in rows : r.batch = b}) \in Nat
  BY <1>1
<1> QED
  BY <1>2, <1>3 DEF ComputeBatchStats, Stats

-----------------------------------------------------------------------------
\* Types.
LEMMA EndsTyped ==
    ASSUME TypeOK, NEW j \in Jobs, NEW r \in {"done", "failure"}, Ends(j, r)
    PROVE  /\ pc' \in [Jobs -> Underway \cup {"new", "refused", "done", "failure"}]
           /\ running' \in BOOLEAN
           /\ todo' \in [Jobs -> SUBSET Nat]
           /\ cache' \in [Jobs -> Cache]
           /\ count' \in [Jobs -> Stats]
           /\ hand' \in [Jobs -> Hand]
<1>1. NoCache \in Cache
  BY DEF NoCache, Cache
<1>2. NoStats \in Stats /\ NoHand \in Hand
  BY DEF NoStats, Stats, NoHand, Hand
<1> QED
  BY <1>1, <1>2 DEF Ends, TypeOK, Unlocked

\* What the end of a line does to the types of the run.
LEMMA LineTyped ==
    ASSUME TypeOK, NEW j \in Jobs, NEW p \in Nat, Done(j, p) \/ Fails(j, p)
    PROVE  /\ pc' \in [Jobs -> Underway \cup {"new", "refused", "done", "failure"}]
           /\ todo' \in [Jobs -> SUBSET Nat]
           /\ hand' \in [Jobs -> Hand]
           /\ faults' \in 0..MaxFaults
<1>1. NoHand \in Hand /\ [NoHand EXCEPT !.pos = p] \in Hand
  BY DEF NoHand, Hand
<1>2. MaxFaults \in Nat
  BY ImportsAssumption
<1>3. CASE Done(j, p)
  BY <1>1, <1>3 DEF Done, TypeOK, Underway
<1>4. CASE Fails(j, p)
  BY <1>1, <1>2, <1>4 DEF Fails, TypeOK, Underway
<1> QED
  BY <1>3, <1>4

\* A row written for a line keeps the table typed.
LEMMA WrittenTyped ==
    ASSUME TypeOK, BatchesOpen, NEW j \in Jobs, Working(j), NEW p \in todo[j],
           NEW status \in Status, NEW s \in Nat
    PROVE  Written(j, p, status, s) \subseteq Row
BY NewRowTyped DEF Written, TypeOK

LEMMA NoteTyped ==
    ASSUME TypeOK, BatchesOpen, NEW j \in Jobs, NEW p \in todo[j], pc[j] = "line",
           NEW status \in Status, NEW c, Note(j, p, status, c)
    PROVE  TypeOK'
<1>1. Working(j) /\ p \in Nat /\ batch[j] \in batches
  BY LineInFile DEF Working
<1>2. count' \in [Jobs -> Stats]
  BY PlusTyped DEF Note, TypeOK
<1>3. Done(j, p) \/ Fails(j, p)
  BY DEF Note
<1>4. rows' \subseteq Row
  BY <1>1, WrittenTyped DEF Note, TypeOK
<1>5. damaged' \subseteq batches
  BY <1>1 DEF Note, CountedTwice, TypeOK
<1> QED
  BY <1>1, <1>2, <1>3, <1>4, <1>5, LineTyped DEF Note, TypeOK

LEMMA TypeStep == IInv /\ [Next]_vars => TypeOK'
<1> SUFFICES ASSUME IInv, [Next]_vars PROVE TypeOK'
  OBVIOUS
<1>t. TypeOK /\ BatchesOpen
  BY DEF IInv
<1>1. ASSUME NEW j \in Jobs, Begin(j) PROVE TypeOK'
  BY <1>1, <1>t DEF Begin, TypeOK, Underway, ghost
<1>2. ASSUME NEW j \in Jobs, Reject(j) PROVE TypeOK'
  BY <1>2, <1>t, EndsTyped DEF Reject, TypeOK, ghost
<1>3. ASSUME NEW j \in Jobs, Open(j) PROVE TypeOK'
  <2>1. PICK f \in Files : file' = [file EXCEPT ![j] = f] /\ todo' = [todo EXCEPT ![j] = DOMAIN f]
    BY <1>3 DEF Open
  <2>2. f \in Seq(Lines) /\ DOMAIN f \subseteq Nat
    BY ImportsAssumption
  <2> QED
    BY <1>3, <1>t, <2>1, <2>2 DEF Open, TypeOK, Underway, ghost
<1>4. ASSUME NEW j \in Jobs, OpenAgain(j) PROVE TypeOK'
  <2>1. PICK b \in batches :
          /\ batch' = [batch EXCEPT ![j] = b]
          /\ todo' = [todo EXCEPT ![j] = {r.pos : r \in Pending(b)}]
          /\ count' = [count EXCEPT ![j] = [NoStats EXCEPT !.ignored = ReadIgnored(b)]]
    BY <1>4 DEF OpenAgain, Found
  <2>2. {r.pos : r \in Pending(b)} \subseteq Nat
    BY <1>t DEF Pending, TypeOK, Row
  <2>3. ReadIgnored(b) \in Nat
    BY <1>t DEF ReadIgnored, TypeOK, Stats
  <2>4. [NoStats EXCEPT !.ignored = ReadIgnored(b)] \in Stats
    BY <2>3 DEF NoStats, Stats
  <2> QED
    BY <1>4, <1>t, <2>1, <2>2, <2>4 DEF OpenAgain, TypeOK, Underway, ghost
<1>5. ASSUME NEW j \in Jobs, Load(j) PROVE TypeOK'
  <2>1. [names |-> known,
         seen  |-> {r.line : r \in {q \in rows : q.status # "PENDING"}},
         byKey |-> [k \in Keys |-> SalesOf(k)]] \in Cache
    <3>1. {r.line : r \in {q \in rows : q.status # "PENDING"}} \subseteq Lines
      BY <1>t DEF TypeOK, Row
    <3>2. \A k \in Keys : SalesOf(k) \in SUBSET Nat
      BY <1>t DEF TypeOK, Row, SalesOf, Recorded
    <3> QED
      BY <1>t, <3>1, <3>2 DEF TypeOK, Cache
  <2> QED
    BY <1>5, <1>t, <2>1 DEF Load, TypeOK, Underway, ghost
<1>6. ASSUME NEW j \in Jobs, NEW p \in todo[j], Ignore(j, p) PROVE TypeOK'
  <2>1. \A c \in Stats : [c EXCEPT !.ignored = @ + 1] \in Stats
    BY DEF Stats
  <2>2. count' \in [Jobs -> Stats]
    BY <1>6, <1>t, <2>1 DEF Ignore, CountIgnored, TypeOK
  <2> QED
    BY <1>6, <1>t, <2>2 DEF Ignore, TypeOK, ghost
<1>7. ASSUME NEW j \in Jobs, NEW p \in todo[j], Skip(j, p) PROVE TypeOK'
  BY <1>7, <1>t, NoteTyped DEF Skip, Turn, Status
<1>8. ASSUME NEW j \in Jobs, NEW p \in todo[j], Hold(j, p) PROVE TypeOK'
  BY <1>8, <1>t, NoteTyped DEF Hold, Turn, Status
<1>9. ASSUME NEW j \in Jobs, NEW p \in todo[j], Apply(j, p) PROVE TypeOK'
  <2>0. /\ pc[j] = "line" /\ Working(j)
        /\ UNCHANGED <<file, batches, stats, rows, known, running, batch, changes,
                       lost, damaged, cut>>
    BY <1>9 DEF Apply, Turn, Working, ghost
  <2>1. /\ p \in Nat /\ LineAt(j, p) \in Lines /\ KeyOf[LineAt(j, p)] \in Keys
    BY <1>t, <2>0, LineInFile
  <2>2. ASSUME NEW s \in DOMAIN sales, Wrote(j, p, s, FALSE) PROVE TypeOK'
    <3>1. sales' \in Seq(Lines) /\ DOMAIN sales' = DOMAIN sales
      BY <1>t, <2>1, <2>2 DEF Wrote, TypeOK
    <3>2. count' \in [Jobs -> Stats]
      BY <1>t, <2>2, PlusTyped DEF Wrote, TypeOK
    <3>3. hand' \in [Jobs -> Hand]
      BY <1>t, <2>1, <2>2 DEF Wrote, TypeOK, Hand
    <3>4. cache' \in [Jobs -> Cache]
      BY <1>t, <2>1, <2>2 DEF Wrote, Learned, TypeOK, Cache
    <3> QED
      BY <1>t, <2>0, <2>2, <3>1, <3>2, <3>3, <3>4 DEF Wrote, TypeOK, Underway
  <2>3. ASSUME Wrote(j, p, Len(sales) + 1, TRUE) PROVE TypeOK'
    <3>1. sales' \in Seq(Lines) /\ DOMAIN sales \subseteq DOMAIN sales'
      BY <1>t, <2>1, <2>3 DEF Wrote, TypeOK
    <3>2. count' \in [Jobs -> Stats]
      BY <1>t, <2>3, PlusTyped DEF Wrote, TypeOK
    <3>3. hand' \in [Jobs -> Hand]
      BY <1>t, <2>1, <2>3 DEF Wrote, TypeOK, Hand
    <3>4. Bucket(j, p, Len(sales) + 1) \in [Keys -> SUBSET Nat]
      BY <1>t, <2>1 DEF Bucket, TypeOK, Cache
    <3>5. cache' \in [Jobs -> Cache]
      BY <1>t, <2>1, <2>3, <3>4 DEF Wrote, Learned, TypeOK, Cache
    <3> QED
      BY <1>t, <2>0, <2>3, <3>1, <3>2, <3>3, <3>5 DEF Wrote, TypeOK, Underway
  <2>4. ASSUME Fails(j, p), count' = Plus(j, {"total"}), UNCHANGED <<sales, cache>>
        PROVE  TypeOK'
    BY <1>t, <2>0, <2>1, <2>4, LineTyped, PlusTyped DEF TypeOK
  <2>5. Prior(j, p) \subseteq DOMAIN sales
    BY <2>0, <2>1 DEF IInv, CacheTrue, Loaded, Prior
  <2> QED
    BY <1>9, <2>2, <2>3, <2>4, <2>5 DEF Apply
<1>10. ASSUME NEW j \in Jobs, Record(j) PROVE TypeOK'
  <2>1. /\ hand[j].pos \in todo[j] /\ hand[j].sale \in Prior(j, hand[j].pos) /\ Working(j)
        /\ hand[j].sale \in Nat
    BY <1>10, <1>t DEF Record, IInv, HandTrue, Working, TypeOK, Hand
  <2>2. hand[j].pos \in Nat /\ batch[j] \in batches /\ KeyOf[LineAt(j, hand[j].pos)] \in Keys
    BY <1>t, <2>1, LineInFile
  <2>3. hand[j].sale \in DOMAIN sales
    BY <1>10, <2>1, <2>2 DEF Record, IInv, CacheTrue, Loaded, Prior
  <2>4. \A status \in Status : Written(j, hand[j].pos, status, hand[j].sale) \subseteq Row
    BY <1>t, <2>1, WrittenTyped
  <2>5. rows' \subseteq Row
    BY <1>10, <1>t, <2>4 DEF Record, TypeOK, Status
  <2>6. Done(j, hand[j].pos) \/ Fails(j, hand[j].pos)
    BY <1>10 DEF Record
  <2>7. damaged' \subseteq batches /\ lost' \subseteq DOMAIN sales
    BY <1>10, <1>t, <2>2, <2>3 DEF Record, CountedTwice, TypeOK
  <2> QED
    BY <1>10, <1>t, <2>2, <2>5, <2>6, <2>7, LineTyped DEF Record, TypeOK
<1>11. ASSUME NEW j \in Jobs, Catch(j) PROVE TypeOK'
  <2>1. hand[j].pos \in todo[j] /\ Working(j)
    BY <1>11 DEF Catch, IInv, HandTrue, Working
  <2>2. rows' \subseteq Row
    BY <1>11, <1>t, <2>1, WrittenTyped DEF Catch, Caught, Status
  <2>3. hand[j].pos \in Nat /\ count' \in [Jobs -> Stats]
    BY <1>11, <1>t, <2>1, LineInFile, PlusTyped DEF Catch, TypeOK
  <2> QED
    BY <1>11, <1>t, <2>2, <2>3, LineTyped DEF Catch, TypeOK, ghost
<1>12. ASSUME NEW j \in Jobs, Close(j) PROVE TypeOK'
  <2>1. batch[j] \in batches /\ batch[j] \in Imports
    BY <1>12, <1>t DEF Close, BatchesOpen, Working, TypeOK
  <2>2. count[j] \in Stats /\ count[j].ignored \in Nat
    BY <1>t DEF TypeOK, Stats
  <2>3. ComputeBatchStats(batch[j], count[j].ignored) \in Stats
    BY <2>2, CountedTyped DEF IInv, RowsTrue
  <2>4. stats' \in [Imports -> {NULL} \cup Stats]
    BY <1>12, <1>t, <2>1, <2>2, <2>3 DEF Close, TypeOK
  <2> QED
    BY <1>12, <1>t, <2>4, EndsTyped DEF Close, TypeOK
<1>13. ASSUME NEW stopped \in SUBSET {j \in Jobs : Working(j)}, Interrupted(stopped)
       PROVE  damaged' \subseteq batches /\ cut' \subseteq batches /\ lost' \subseteq DOMAIN sales
  <2>1. \A j \in stopped : batch[j] \in batches /\ (j \in Imports => batch[j] = j)
    BY <1>t, ImportsAssumption DEF BatchesOpen, TypeOK
  <2>2. \A j \in stopped : pc[j] = "record" => hand[j].sale \in DOMAIN sales
    <3> TAKE j \in stopped
    <3> HAVE pc[j] = "record"
    <3>1. hand[j].pos \in todo[j] /\ hand[j].sale \in Prior(j, hand[j].pos)
      BY DEF IInv, HandTrue
    <3>2. KeyOf[LineAt(j, hand[j].pos)] \in Keys
      BY <1>t, <3>1, LineInFile
    <3> QED
      BY <3>1, <3>2 DEF IInv, CacheTrue, Loaded, Prior
  <2> QED
    BY <1>13, <1>t, <2>1, <2>2 DEF Interrupted, TypeOK
<1>14. ASSUME NEW j \in Jobs, Abort(j) PROVE TypeOK'
  <2>1. damaged' \subseteq batches /\ cut' \subseteq batches /\ lost' \subseteq DOMAIN sales
    BY <1>13, <1>14 DEF Abort, Working
  <2> QED
    BY <1>14, <1>t, <2>1, EndsTyped, ImportsAssumption DEF Abort, TypeOK
<1>15. CASE Crash
  <2>1. damaged' \subseteq batches /\ cut' \subseteq batches /\ lost' \subseteq DOMAIN sales
    BY <1>13, <1>15 DEF Crash, Working, Underway
  <2>2. NoCache \in Cache /\ NoStats \in Stats /\ NoHand \in Hand
    BY DEF NoCache, Cache, NoStats, Stats, NoHand, Hand
  <2>3. faults' \in 0..MaxFaults
    BY <1>15, <1>t, ImportsAssumption DEF Crash, TypeOK
  <2>4. pc' \in [Jobs -> Underway \cup {"new", "refused", "done", "failure"}]
    BY <1>15, <1>t DEF Crash, TypeOK
  <2> QED
    BY <1>15, <1>t, <2>1, <2>2, <2>3, <2>4 DEF Crash, TypeOK
<1>16. CASE Map
  <2>1. known' \subseteq Names
    BY <1>16, <1>t DEF Map, TypeOK
  <2>2. changes' \in 0..MaxChanges
    BY <1>16, <1>t, ImportsAssumption DEF Map, TypeOK
  <2> QED
    BY <1>16, <1>t, <2>1, <2>2 DEF Map, TypeOK, job, ghost
<1>17. CASE UNCHANGED vars
  BY <1>17, <1>t DEF vars, TypeOK
<1> QED
  BY <1>1, <1>2, <1>3, <1>4, <1>5, <1>6, <1>7, <1>8, <1>9, <1>10, <1>11, <1>12, <1>14, <1>15,
     <1>16, <1>17 DEF Next, Step, Finished

-----------------------------------------------------------------------------
(* What a step does to the tables and the runs, whatever its action: the      *)
(* names, the counters and the statistics play no part in what follows.       *)

\* The statement that writes the row of line p succeeds.
RowStep(j, p, status, s) ==
    /\ Loaded(j) /\ p \in todo[j]
    /\ rows' = Written(j, p, status, s)
    /\ pc' = [pc EXCEPT ![j] = "line"]
    /\ todo' = [todo EXCEPT ![j] = @ \ {p}]
    /\ status \in Applied => pc[j] = "record" /\ p = hand[j].pos /\ s = hand[j].sale
    /\ status \notin Applied => pc[j] # "record" /\ s = 0
    /\ UNCHANGED <<file, batches, sales, running, batch, cache, lost, cut>>

\* A statement of line p fails: a sale in hand is lost.
FailStep(j, p) ==
    /\ Loaded(j) /\ p \in todo[j]
    /\ pc' = [pc EXCEPT ![j] = "failed"]
    /\ hand' = [hand EXCEPT ![j] = [NoHand EXCEPT !.pos = p]]
    /\ lost \subseteq lost'
    /\ pc[j] = "record" => hand[j].sale \in lost'
    /\ UNCHANGED <<file, batches, rows, sales, running, batch, todo, cache, cut>>

\* Line p is blank.
BlankStep(j, p) ==
    /\ pc[j] = "line"
    /\ p \notin Data(batch[j])
    /\ todo' = [todo EXCEPT ![j] = @ \ {p}]
    /\ UNCHANGED <<file, batches, rows, sales, running, pc, batch, cache, hand, lost, cut>>

\* The transaction of line p writes sale s.
SaleStep(j, p, s) ==
    /\ pc[j] = "line" /\ p \in todo[j]
    /\ LET l == LineAt(j, p) IN
         \/ /\ s \in Prior(j, p)
            /\ sales' = [sales EXCEPT ![s] = l]
            /\ cache'[j].byKey = cache[j].byKey
         \/ /\ Prior(j, p) = {} /\ s = Len(sales) + 1
            /\ sales' = Append(sales, l)
            /\ cache'[j].byKey = [cache[j].byKey EXCEPT ![KeyOf[l]] = {s}]
    /\ \A i \in Jobs \ {j} : cache'[i] = cache[i]
    /\ pc' = [pc EXCEPT ![j] = "record"]
    /\ hand'[j].pos = p /\ hand'[j].sale = s
    /\ \A i \in Jobs \ {j} : hand'[i] = hand[i]
    /\ UNCHANGED <<file, batches, rows, running, batch, todo, lost, cut>>

Running == {j \in Jobs : pc[j] \in Underway}

\* What is under way stops and leaves the tables as they are; an import that
\* stops with lines to do is cut short.
StopStep ==
    /\ \E r \in {"done", "failure"} :
         pc' = [j \in Jobs |-> IF j \in Running THEN r ELSE pc[j]]
    /\ \A j \in Running \cap Imports : Working(j) /\ todo[j] # {} => j \in cut'
    /\ \A j \in Running : pc[j] = "record" => hand[j].sale \in lost'
    /\ cut \subseteq cut' /\ lost \subseteq lost'
    /\ running' = FALSE
    /\ UNCHANGED <<file, batches, rows, sales, batch>>

\* Nothing happens to the tables and the runs.
StillStep ==
    UNCHANGED <<file, batches, rows, sales, running, pc, batch, todo, cache, hand, lost, cut>>

StartStep(j) == Begin(j) \/ Open(j) \/ OpenAgain(j) \/ Load(j)

AnyStep ==
    \/ \E j \in Jobs : StartStep(j)
    \/ \E j \in Jobs : \E p \in todo[j] :
          \/ BlankStep(j, p) \/ FailStep(j, p)
          \/ \E s \in Nat : SaleStep(j, p, s) \/ \E status \in Status : RowStep(j, p, status, s)
    \/ StopStep
    \/ StillStep

LEMMA NoteSteps ==
    ASSUME IInv, NEW j \in Jobs, NEW p \in todo[j], pc[j] = "line",
           NEW status \in Status \ Applied, NEW c, Note(j, p, status, c)
    PROVE  RowStep(j, p, status, 0) \/ FailStep(j, p)
<1>1. Loaded(j)
  BY DEF Loaded
<1>2. CASE Done(j, p) /\ rows' = Written(j, p, status, 0)
  BY <1>1, <1>2 DEF Note, Done, RowStep
<1>3. CASE Fails(j, p) /\ UNCHANGED rows
  BY <1>1, <1>3 DEF Note, Fails, FailStep
<1> QED
  BY <1>2, <1>3 DEF Note

\* The end of the only run is a stop.
LEMMA EndsStops ==
    ASSUME IInv, NEW j \in Jobs, pc[j] \in Underway \ {"record"},
           NEW r \in {"done", "failure"}, Ends(j, r),
           j \in Imports /\ Working(j) /\ todo[j] # {} => j \in cut',
           cut \subseteq cut', lost \subseteq lost',
           UNCHANGED <<file, batches, rows, sales, batch>>
    PROVE  StopStep
<1>1. Running = {j}
  BY DEF IInv, LockHeld, Running
<1>2. pc' = [i \in Jobs |-> IF i \in Running THEN r ELSE pc[i]]
  BY <1>1 DEF IInv, TypeOK, Ends
<1>3. running' = FALSE
  BY DEF Ends, Unlocked
<1> QED
  BY <1>1, <1>2, <1>3 DEF StopStep

LEMMA StepKinds == IInv /\ [Next]_vars => AnyStep
<1> SUFFICES ASSUME IInv, [Next]_vars PROVE AnyStep
  OBVIOUS
<1>1. ASSUME NEW j \in Jobs, Begin(j) \/ Open(j) \/ OpenAgain(j) \/ Load(j) PROVE AnyStep
  BY <1>1 DEF AnyStep, StartStep
<1>2. ASSUME NEW j \in Jobs, Reject(j) PROVE AnyStep
  <2>1. pc[j] \in Underway \ {"record"} /\ ~ Working(j) /\ Ends(j, "done")
    BY <1>2 DEF Reject, Underway, Working
  <2>2. UNCHANGED <<file, batches, rows, sales, batch, cut, lost>>
    BY <1>2 DEF Reject, ghost
  <2> QED
    BY <2>1, <2>2, EndsStops DEF AnyStep
<1>3. ASSUME NEW j \in Jobs, Close(j) PROVE AnyStep
  <2>1. pc[j] \in Underway \ {"record"} /\ todo[j] = {} /\ Ends(j, "done")
    BY <1>3 DEF Close, Underway
  <2>2. UNCHANGED <<file, batches, rows, sales, batch, cut, lost>>
    BY <1>3 DEF Close
  <2> QED
    BY <2>1, <2>2, EndsStops DEF AnyStep
<1>4. ASSUME NEW j \in Jobs, Abort(j) PROVE AnyStep
  <2>1. pc[j] \in Underway \ {"record"} /\ Ends(j, "failure")
    BY <1>4 DEF Abort, Underway
  <2>2. /\ j \in Imports => j \in cut'
        /\ cut \subseteq cut' /\ lost \subseteq lost'
    BY <1>4 DEF Abort, Interrupted
  <2>3. UNCHANGED <<file, batches, rows, sales, batch>>
    BY <1>4 DEF Abort
  <2> QED
    BY <2>1, <2>2, <2>3, EndsStops DEF AnyStep
<1>5. CASE Crash
  <2>1. /\ pc' = [j \in Jobs |-> IF j \in Running THEN "failure" ELSE pc[j]]
        /\ Interrupted({j \in Running : pc[j] # "open"})
        /\ running' = FALSE
        /\ UNCHANGED <<file, batches, rows, sales, batch>>
    BY <1>5 DEF Crash, Running
  <2>2. \A j \in Running \cap Imports : Working(j) => j \in cut'
    BY <2>1 DEF Interrupted, Working
  <2>3. \A j \in Running : pc[j] = "record" => hand[j].sale \in lost'
    BY <2>1 DEF Interrupted
  <2>4. cut \subseteq cut' /\ lost \subseteq lost'
    BY <2>1 DEF Interrupted
  <2> QED
    BY <2>1, <2>2, <2>3, <2>4 DEF AnyStep, StopStep
<1>6. ASSUME NEW j \in Jobs, NEW p \in todo[j], Ignore(j, p) PROVE AnyStep
  <2>1. BlankStep(j, p)
    BY <1>6 DEF Ignore, Turn, IsData, LineAt, Data, BlankStep, ghost
  <2> QED
    BY <2>1 DEF AnyStep
<1>7. ASSUME NEW j \in Jobs, NEW p \in todo[j], Skip(j, p) \/ Hold(j, p) PROVE AnyStep
  <2>1. pc[j] = "line" /\ {"SKIPPED", "PENDING"} \subseteq Status \ Applied
    BY <1>7 DEF Skip, Hold, Turn, Status, Applied
  <2>2. \E status \in Status \ Applied : RowStep(j, p, status, 0) \/ FailStep(j, p)
    BY <1>7, <2>1, NoteSteps DEF Skip, Hold
  <2> QED
    BY <2>2 DEF AnyStep
<1>8. ASSUME NEW j \in Jobs, NEW p \in todo[j], Apply(j, p) PROVE AnyStep
  <2>0. /\ pc[j] = "line" /\ Loaded(j) /\ Working(j) /\ TypeOK /\ BatchesOpen
        /\ UNCHANGED <<file, batches, rows, running, batch, lost, cut>>
    BY <1>8 DEF Apply, Turn, Loaded, Working, IInv, ghost
  <2>1. KeyOf[LineAt(j, p)] \in Keys
    BY <2>0, LineInFile
  <2>2. ASSUME NEW s \in Prior(j, p), Wrote(j, p, s, FALSE) PROVE SaleStep(j, p, s) /\ s \in Nat
    <3>1. cache' = [cache EXCEPT ![j] = Learned(j, p, s, FALSE)]
      BY <2>2 DEF Wrote
    <3>2. Learned(j, p, s, FALSE).byKey = cache[j].byKey
      BY DEF Learned
    <3>3. s \in Nat
      BY <2>0, <2>1, <2>2 DEF TypeOK, Cache, Prior
    <3> QED
      BY <2>0, <2>2, <3>1, <3>2, <3>3 DEF SaleStep, Wrote, TypeOK
  <2>3. ASSUME Prior(j, p) = {}, Wrote(j, p, Len(sales) + 1, TRUE)
        PROVE  SaleStep(j, p, Len(sales) + 1) /\ Len(sales) + 1 \in Nat
    <3>1. cache' = [cache EXCEPT ![j] = Learned(j, p, Len(sales) + 1, TRUE)]
      BY <2>3 DEF Wrote
    <3>2. Learned(j, p, Len(sales) + 1, TRUE).byKey
            = [cache[j].byKey EXCEPT ![KeyOf[LineAt(j, p)]] = {Len(sales) + 1}]
      BY <2>0, <2>1, <2>3 DEF Learned, Bucket, Prior, TypeOK, Cache
    <3>3. Len(sales) + 1 \in Nat
      BY <2>0 DEF TypeOK
    <3>4. /\ cache'[j].byKey = [cache[j].byKey EXCEPT ![KeyOf[LineAt(j, p)]] = {Len(sales) + 1}]
          /\ \A i \in Jobs \ {j} : cache'[i] = cache[i]
      BY <2>0, <3>1, <3>2 DEF TypeOK
    <3>5. /\ hand'[j].pos = p /\ hand'[j].sale = Len(sales) + 1
          /\ \A i \in Jobs \ {j} : hand'[i] = hand[i]
      BY <2>0, <2>3 DEF Wrote, TypeOK
    <3>6. pc' = [pc EXCEPT ![j] = "record"] /\ UNCHANGED todo /\ sales' = Append(sales, LineAt(j, p))
      BY <2>3 DEF Wrote
    <3> QED
      BY <2>0, <2>3, <3>3, <3>4, <3>5, <3>6 DEF SaleStep
  <2>4. ASSUME Fails(j, p), UNCHANGED <<sales, cache>> PROVE FailStep(j, p)
    BY <2>0, <2>4 DEF FailStep, Fails
  <2> QED
    BY <1>8, <2>2, <2>3, <2>4 DEF Apply, AnyStep
<1>9. ASSUME NEW j \in Jobs, Record(j) PROVE AnyStep
  <2>1. /\ hand[j].pos \in todo[j] /\ hand[j].sale \in Nat /\ Loaded(j) /\ pc[j] = "record"
        /\ UNCHANGED <<file, batches, sales, running, batch, cache, cut>>
    BY <1>9 DEF Record, IInv, HandTrue, TypeOK, Hand, Loaded
  <2>2. ASSUME NEW status \in Applied, Done(j, hand[j].pos), UNCHANGED lost,
               rows' = Written(j, hand[j].pos, status, hand[j].sale)
        PROVE  RowStep(j, hand[j].pos, status, hand[j].sale)
    BY <2>1, <2>2 DEF RowStep, Done
  <2>3. ASSUME Fails(j, hand[j].pos), lost' = lost \cup {hand[j].sale}, UNCHANGED rows
        PROVE  FailStep(j, hand[j].pos)
    BY <2>1, <2>3 DEF FailStep, Fails
  <2>4. {"CREATED", "UPDATED"} \subseteq Applied /\ Applied \subseteq Status
    BY DEF Applied, Status
  <2> QED
    BY <1>9, <2>1, <2>2, <2>3, <2>4 DEF Record, AnyStep
<1>10. ASSUME NEW j \in Jobs, Catch(j) PROVE AnyStep
  <2>1. hand[j].pos \in todo[j] /\ Loaded(j)
    BY <1>10 DEF Catch, IInv, HandTrue, Loaded
  <2>2. RowStep(j, hand[j].pos, "PENDING", 0)
    BY <1>10, <2>1 DEF Catch, Caught, Done, RowStep, Applied, ghost
  <2> QED
    BY <2>1, <2>2 DEF AnyStep, Status
<1>11. CASE Map \/ UNCHANGED vars
  BY <1>11 DEF Map, vars, job, ghost, AnyStep, StillStep
<1> QED
  BY <1>1, <1>2, <1>3, <1>4, <1>5, <1>6, <1>7, <1>8, <1>9, <1>10, <1>11 DEF Next, Step, Finished

-----------------------------------------------------------------------------
(* One part of the invariant after the other. *)

LEMMA LockHeldStep == IInv /\ AnyStep => LockHeld'
<1> SUFFICES ASSUME IInv, AnyStep PROVE LockHeld'
  OBVIOUS
<1>t. TypeOK /\ LockHeld
  BY DEF IInv
<1>1. ASSUME NEW j \in Jobs, StartStep(j) PROVE LockHeld'
  BY <1>1, <1>t DEF StartStep, Begin, Open, OpenAgain, Load, Busy, LockHeld, Underway, TypeOK
<1>2. ASSUME NEW j \in Jobs, NEW p \in todo[j], BlankStep(j, p) PROVE LockHeld'
  BY <1>2, <1>t DEF BlankStep, LockHeld
<1>3. ASSUME NEW j \in Jobs, NEW p \in todo[j], FailStep(j, p) PROVE LockHeld'
  BY <1>3, <1>t DEF FailStep, LockHeld, Loaded, Underway, TypeOK
<1>4. ASSUME NEW j \in Jobs, NEW p \in todo[j], NEW s \in Nat, SaleStep(j, p, s) PROVE LockHeld'
  BY <1>4, <1>t DEF SaleStep, LockHeld, Underway, TypeOK
<1>5. ASSUME NEW j \in Jobs, NEW p \in todo[j], NEW s \in Nat, NEW status \in Status,
             RowStep(j, p, status, s)
      PROVE  LockHeld'
  BY <1>5, <1>t DEF RowStep, LockHeld, Loaded, Underway, TypeOK
<1>6. CASE StopStep
  BY <1>6, <1>t DEF StopStep, LockHeld, Running, Underway
<1>7. CASE StillStep
  BY <1>7, <1>t DEF StillStep, LockHeld
<1> QED
  BY <1>1, <1>2, <1>3, <1>4, <1>5, <1>6, <1>7 DEF AnyStep

\* While a run is under way no other one works.
LEMMA Alone ==
    ASSUME LockHeld, NEW j \in Jobs, pc[j] \in Underway
    PROVE  \A i \in Jobs \ {j} : ~ Working(i) /\ ~ Loaded(i)
BY DEF LockHeld, Working, Loaded, Underway

LEMMA BatchesOpenStep == IInv /\ AnyStep => BatchesOpen'
<1> SUFFICES ASSUME IInv, AnyStep PROVE BatchesOpen'
  OBVIOUS
<1>t. TypeOK /\ LockHeld /\ BatchesOpen /\ RowsTrue
  BY DEF IInv
<1>1. ASSUME NEW j \in Jobs, StartStep(j) PROVE BatchesOpen'
  <2>1. CASE Begin(j)
    BY <2>1, <1>t DEF Begin, BatchesOpen, Working, TypeOK
  <2>2. CASE Open(j)
    <3>1. j \in Imports /\ pc[j] = "open" /\ j \notin batches
      BY <2>2, <1>t DEF Open, BatchesOpen
    <3>2. PICK f \in Files : file' = [file EXCEPT ![j] = f] /\ todo' = [todo EXCEPT ![j] = DOMAIN f]
      BY <2>2 DEF Open
    <3>3. \A i \in Jobs \ {j} : ~ Working(i)
      BY <1>t, <3>1, Alone DEF Underway
    <3>4. /\ batch'[j] = j /\ j \in batches' /\ file'[j] = f /\ todo'[j] = DOMAIN f
          /\ pc' = [pc EXCEPT ![j] = "load"] /\ batches' = batches \cup {j} /\ rows' = rows
      BY <2>2, <1>t, <3>1, <3>2 DEF Open, TypeOK
    <3>5. \A r \in rows : r.batch # j
      BY <1>t, <3>1 DEF RowsTrue
    <3>6. \A i \in Jobs : Working(i)' => i = j
      BY <1>t, <3>3, <3>4 DEF Working, TypeOK
    <3>7. \A i \in Imports : batch'[i] \in {NULL, i}
      BY <2>2, <1>t DEF Open, BatchesOpen, TypeOK
    <3>8. \A i \in Imports : pc'[i] \in {"new", "open"} => i \notin batches'
      BY <1>t, <3>1, <3>4 DEF BatchesOpen, TypeOK, Jobs
    <3> QED
      BY <3>4, <3>5, <3>6, <3>7, <3>8 DEF BatchesOpen
  <2>3. CASE OpenAgain(j)
    <3>1. j \notin Imports /\ pc[j] = "open"
      BY <2>3, ImportsAssumption DEF OpenAgain
    <3>2. PICK b \in batches :
            /\ batch' = [batch EXCEPT ![j] = b]
            /\ todo' = [todo EXCEPT ![j] = {r.pos : r \in Pending(b)}]
      BY <2>3 DEF OpenAgain, Found
    <3>3. \A i \in Jobs \ {j} : ~ Working(i)
      BY <1>t, <3>1, Alone DEF Underway
    <3>4. /\ batch'[j] = b /\ todo'[j] = {r.pos : r \in Pending(b)}
          /\ pc' = [pc EXCEPT ![j] = "load"] /\ UNCHANGED <<file, batches, rows>>
      BY <2>3, <1>t, <3>2 DEF OpenAgain, TypeOK
    <3>5. \A i \in Jobs : Working(i)' => i = j
      BY <1>t, <3>3, <3>4 DEF Working, TypeOK
    <3>6. {r.pos : r \in Pending(b)} \subseteq DOMAIN file[b]
      BY <1>t DEF Pending, RowsTrue
    <3>7. \A r \in rows : r.batch = b /\ r.pos \in {q.pos : q \in Pending(b)} => r.status = "PENDING"
      BY <1>t DEF Pending, RowsTrue
    <3>8. /\ \A i \in Imports : batch'[i] \in {NULL, i}
          /\ \A i \in Imports : pc'[i] \in {"new", "open"} => i \notin batches'
      BY <1>t, <3>1, <3>2, <3>4 DEF BatchesOpen, TypeOK, Jobs
    <3> QED
      BY <3>4, <3>5, <3>6, <3>7, <3>8 DEF BatchesOpen
  <2>4. CASE Load(j)
    BY <2>4, <1>t DEF Load, BatchesOpen, Working, TypeOK
  <2> QED
    BY <1>1, <2>1, <2>2, <2>3, <2>4 DEF StartStep
<1>2. ASSUME NEW j \in Jobs, NEW p \in todo[j], BlankStep(j, p) PROVE BatchesOpen'
  BY <1>2, <1>t DEF BlankStep, BatchesOpen, Working, TypeOK
<1>3. ASSUME NEW j \in Jobs, NEW p \in todo[j], FailStep(j, p) PROVE BatchesOpen'
  BY <1>3, <1>t DEF FailStep, BatchesOpen, Working, Loaded, TypeOK
<1>4. ASSUME NEW j \in Jobs, NEW p \in todo[j], NEW s \in Nat, SaleStep(j, p, s) PROVE BatchesOpen'
  BY <1>4, <1>t DEF SaleStep, BatchesOpen, Working, TypeOK
<1>5. ASSUME NEW j \in Jobs, NEW p \in todo[j], NEW s \in Nat, NEW status \in Status,
             RowStep(j, p, status, s)
      PROVE  BatchesOpen'
  <2>1. /\ Working(j) /\ pc[j] \in Underway /\ pc' = [pc EXCEPT ![j] = "line"]
        /\ todo'[j] = todo[j] \ {p} /\ UNCHANGED <<file, batches, batch>>
    BY <1>5, <1>t DEF RowStep, Loaded, Working, Underway, TypeOK
  <2>2. \A i \in Jobs : Working(i)' => i = j
    BY <1>t, <2>1, Alone DEF Working, TypeOK
  <2>3. \A r \in rows' : r \in rows \/ r.pos = p
    BY <1>5 DEF RowStep, Written, NewRow
  <2>4. \A i \in Imports : pc'[i] \in {"new", "open"} => pc[i] = pc'[i]
    BY <1>t, <2>1 DEF TypeOK, Jobs
  <2> QED
    BY <1>t, <2>1, <2>2, <2>3, <2>4 DEF BatchesOpen
<1>6. CASE StopStep
  <2>1. \A i \in Jobs : ~ Working(i)' /\ (pc'[i] \in {"new", "open"} => pc'[i] = pc[i])
    BY <1>6 DEF StopStep, Running, Underway, Working
  <2> QED
    BY <1>6, <1>t, <2>1 DEF StopStep, BatchesOpen, Jobs
<1>7. CASE StillStep
  BY <1>7, <1>t DEF StillStep, BatchesOpen, Working
<1> QED
  BY <1>1, <1>2, <1>3, <1>4, <1>5, <1>6, <1>7 DEF AnyStep

LEMMA RowsTrueStep == IInv /\ AnyStep => RowsTrue'
<1> SUFFICES ASSUME IInv, AnyStep PROVE RowsTrue'
  OBVIOUS
<1>t. TypeOK /\ LockHeld /\ BatchesOpen /\ RowsTrue /\ HandTrue /\ CacheTrue
  BY DEF IInv
<1>1. ASSUME NEW j \in Jobs, StartStep(j) PROVE RowsTrue'
  <2>1. CASE Open(j)
    <3>1. j \notin batches
      BY <2>1, <1>t DEF Open, BatchesOpen
    <3>2. /\ \A b \in batches : file'[b] = file[b]
          /\ batches \subseteq batches' /\ UNCHANGED <<rows, sales>>
      BY <2>1, <1>t, <3>1 DEF Open, TypeOK
    <3> QED
      BY <1>t, <3>2 DEF RowsTrue
  <2>2. CASE Begin(j) \/ OpenAgain(j) \/ Load(j)
    BY <2>2, <1>t DEF Begin, OpenAgain, Load, RowsTrue
  <2> QED
    BY <1>1, <2>1, <2>2 DEF StartStep
<1>2. ASSUME NEW j \in Jobs, NEW p \in todo[j], BlankStep(j, p) \/ FailStep(j, p) PROVE RowsTrue'
  BY <1>2, <1>t DEF BlankStep, FailStep, RowsTrue
<1>3. ASSUME NEW j \in Jobs, NEW p \in todo[j], NEW s \in Nat, SaleStep(j, p, s) PROVE RowsTrue'
  <2>1. DOMAIN sales \subseteq DOMAIN sales'
    BY <1>3, <1>t DEF SaleStep, TypeOK
  <2>2. UNCHANGED <<file, batches, rows>>
    BY <1>3 DEF SaleStep
  <2> QED
    BY <1>t, <2>1, <2>2 DEF RowsTrue
<1>4. ASSUME NEW j \in Jobs, NEW p \in todo[j], NEW s \in Nat, NEW status \in Status,
             RowStep(j, p, status, s)
      PROVE  RowsTrue'
  <2> DEFINE new == NewRow(j, p, status, s)
  <2>1. Working(j) /\ rows' = (rows \ At(j, p)) \cup {new} /\ UNCHANGED <<file, batches, sales>>
    BY <1>4 DEF RowStep, Written, Loaded, Working
  <2>2. /\ new.batch \in batches /\ new.pos \in DOMAIN file[new.batch]
        /\ new.line = file[new.batch][new.pos]
        /\ new.batch = batch[j] /\ new.pos = p /\ new.status = status /\ new.sale = s
    BY <1>t, <2>1, LineInFile DEF NewRow
  <2>3. status \in Applied => s \in DOMAIN sales
    <3> HAVE status \in Applied
    <3>1. pc[j] = "record" /\ p = hand[j].pos /\ s = hand[j].sale
      BY <1>4 DEF RowStep
    <3>2. s \in Prior(j, p) /\ KeyOf[LineAt(j, p)] \in Keys
      BY <1>t, <2>1, <3>1, LineInFile DEF HandTrue
    <3> QED
      BY <1>t, <3>1, <3>2 DEF CacheTrue, Loaded, Prior
  <2>4. status \notin Applied => s = 0
    BY <1>4 DEF RowStep
  <2>5. IsFiniteSet(rows')
    <3>1. IsFiniteSet(rows) /\ rows \ At(j, p) \subseteq rows
      BY <1>t DEF RowsTrue
    <3> QED
      BY <2>1, <3>1, FS_Subset, FS_AddElement
  <2>6. \A r, q \in rows' : r.batch = q.batch /\ r.pos = q.pos => r = q
    BY <1>t, <2>1, <2>2 DEF RowsTrue, At
  <2> HIDE DEF new
  <2> QED
    BY <1>t, <2>1, <2>2, <2>3, <2>4, <2>5, <2>6 DEF RowsTrue
<1>5. CASE StopStep \/ StillStep
  BY <1>5, <1>t DEF StopStep, StillStep, RowsTrue
<1> QED
  BY <1>1, <1>2, <1>3, <1>4, <1>5 DEF AnyStep

\* The recorded sales are read from the rows alone.
LEMMA SalesOfSame ==
    ASSUME rows' = rows
    PROVE  \A k \in Keys : SalesOf(k)' = SalesOf(k)
BY DEF SalesOf, Recorded

\* A row that is written takes no recorded sale away, because it replaces a
\* pending one, and adds the sale in hand or none.
LEMMA SalesOfRow ==
    ASSUME IInv, NEW j \in Jobs, NEW p \in todo[j], NEW s \in Nat, NEW status \in Status,
           RowStep(j, p, status, s)
    PROVE  /\ \A k \in Keys : SalesOf(k) \subseteq SalesOf(k)'
           /\ \A k \in Keys : \A t \in SalesOf(k)' :
                \/ t \in SalesOf(k)
                \/ status \in Applied /\ t = s /\ k = KeyOf[LineAt(j, p)]
           /\ status \in Applied => /\ s \in Prior(j, p)
                                    /\ KeyOf[LineAt(j, p)] \in Keys
                                    /\ \A k \in Keys : k = KeyOf[LineAt(j, p)] => s \in SalesOf(k)'
<1> DEFINE new == NewRow(j, p, status, s)
<1>1. /\ Working(j) /\ TypeOK /\ BatchesOpen /\ RowsTrue /\ HandTrue /\ CacheTrue
      /\ rows' = (rows \ At(j, p)) \cup {new}
  BY DEF RowStep, Written, Loaded, Working, IInv
<1>2. new.line = LineAt(j, p) /\ new.status = status /\ new.sale = s
  BY DEF NewRow
<1>3. \A r \in At(j, p) : r.status \notin Applied
  BY <1>1 DEF At, BatchesOpen, Applied
<1>4. ASSUME status \in Applied PROVE s \in Prior(j, p) /\ s # 0 /\ KeyOf[LineAt(j, p)] \in Keys
  <2>1. pc[j] = "record" /\ p = hand[j].pos /\ s = hand[j].sale
    BY <1>4 DEF RowStep
  <2>2. s \in Prior(j, p) /\ KeyOf[LineAt(j, p)] \in Keys
    BY <1>1, <2>1, LineInFile DEF HandTrue
  <2>3. s \in DOMAIN sales
    BY <1>1, <2>1, <2>2 DEF CacheTrue, Loaded, Prior
  <2> QED
    BY <1>1, <2>2, <2>3 DEF TypeOK
<1> HIDE DEF new
<1>5. \A r \in Recorded : r \in Recorded'
  BY <1>1, <1>3 DEF Recorded
<1>6. \A r \in Recorded' : r \in Recorded \/ (r = new /\ status \in Applied)
  BY <1>1, <1>2 DEF Recorded
<1>7. status \in Applied => new \in Recorded'
  BY <1>1, <1>2, <1>4 DEF Recorded
<1>8. ASSUME NEW k \in Keys PROVE SalesOf(k) \subseteq SalesOf(k)'
  BY <1>5 DEF SalesOf
<1>9. ASSUME NEW k \in Keys, NEW t \in SalesOf(k)', t \notin SalesOf(k)
      PROVE  status \in Applied /\ t = s /\ k = KeyOf[LineAt(j, p)]
  <2>1. PICK r \in Recorded' : KeyOf[r.line] = k /\ t = r.sale
    BY <1>9 DEF SalesOf
  <2>2. r \notin Recorded
    BY <1>9, <2>1 DEF SalesOf
  <2> QED
    BY <1>2, <1>6, <2>1, <2>2
<1>10. ASSUME status \in Applied, NEW k \in Keys, k = KeyOf[LineAt(j, p)] PROVE s \in SalesOf(k)'
  BY <1>2, <1>7, <1>10 DEF SalesOf
<1> QED
  BY <1>4, <1>8, <1>9, <1>10

LEMMA HandTrueStep == IInv /\ AnyStep => HandTrue'
<1> SUFFICES ASSUME IInv, AnyStep PROVE HandTrue'
  OBVIOUS
<1>t. TypeOK /\ LockHeld /\ BatchesOpen /\ HandTrue
  BY DEF IInv
<1>1. ASSUME NEW j \in Jobs, StartStep(j) PROVE HandTrue'
  <2>1. pc[j] \notin {"record", "failed"} /\ pc'[j] \notin {"record", "failed"}
    BY <1>1, <1>t DEF StartStep, Begin, Open, OpenAgain, Load, TypeOK
  <2>2. CASE Begin(j)
    BY <1>t, <2>1, <2>2 DEF Begin, HandTrue, Prior, LineAt, TypeOK
  <2>3. CASE Open(j) \/ OpenAgain(j) \/ Load(j)
    <3>1. \A i \in Jobs \ {j} : ~ Loaded(i)
      BY <1>t, <2>3, Alone DEF Open, OpenAgain, Load, Underway
    <3>2. \A i \in Jobs \ {j} : pc'[i] = pc[i]
      BY <1>t, <2>3 DEF Open, OpenAgain, Load, TypeOK
    <3> QED
      BY <2>1, <3>1, <3>2 DEF HandTrue, Loaded
  <2> QED
    BY <1>1, <2>2, <2>3 DEF StartStep
<1>2. ASSUME NEW j \in Jobs, NEW p \in todo[j], BlankStep(j, p) PROVE HandTrue'
  BY <1>2, <1>t DEF BlankStep, HandTrue, Prior, LineAt, TypeOK
<1>3. ASSUME NEW j \in Jobs, NEW p \in todo[j], FailStep(j, p) PROVE HandTrue'
  <2>1. \A i \in Jobs \ {j} : ~ Loaded(i) /\ pc'[i] = pc[i]
    BY <1>3, <1>t, Alone DEF FailStep, Loaded, Underway, TypeOK
  <2>2. pc'[j] = "failed" /\ hand'[j].pos = p /\ todo' = todo
    BY <1>3, <1>t DEF FailStep, TypeOK, NoHand
  <2> QED
    BY <2>1, <2>2 DEF HandTrue, Loaded
<1>4. ASSUME NEW j \in Jobs, NEW p \in todo[j], NEW s \in Nat, SaleStep(j, p, s) PROVE HandTrue'
  <2>1. \A i \in Jobs \ {j} : ~ Loaded(i) /\ pc'[i] = pc[i]
    BY <1>4, <1>t, Alone DEF SaleStep, Loaded, Underway, TypeOK
  <2>2. /\ pc'[j] = "record" /\ hand'[j].pos = p /\ hand'[j].sale = s /\ todo' = todo
        /\ LineAt(j, p)' = LineAt(j, p)
    BY <1>4, <1>t DEF SaleStep, TypeOK, LineAt
  <2>3. KeyOf[LineAt(j, p)] \in Keys
    BY <1>4, <1>t, LineInFile DEF SaleStep, Working
  <2>4. s \in Prior(j, p)'
    BY <1>4, <1>t, <2>2, <2>3 DEF SaleStep, Prior, TypeOK, Cache
  <2> QED
    BY <2>1, <2>2, <2>4 DEF HandTrue, Loaded, Prior, LineAt
<1>5. ASSUME NEW j \in Jobs, NEW p \in todo[j], NEW s \in Nat, NEW status \in Status,
             RowStep(j, p, status, s)
      PROVE  HandTrue'
  <2>1. pc'[j] = "line" /\ \A i \in Jobs \ {j} : ~ Loaded(i) /\ pc'[i] = pc[i]
    BY <1>5, <1>t, Alone DEF RowStep, Loaded, Underway, TypeOK
  <2> QED
    BY <2>1 DEF HandTrue, Loaded
<1>6. CASE StopStep
  BY <1>6, <1>t DEF StopStep, Running, Underway, HandTrue
<1>7. CASE StillStep
  BY <1>7, <1>t DEF StillStep, HandTrue, Prior, LineAt
<1> QED
  BY <1>1, <1>2, <1>3, <1>4, <1>5, <1>6, <1>7 DEF AnyStep

\* A sale that is written keeps the key it had; a new one has its line's.
LEMMA KeysKept ==
    ASSUME IInv, NEW j \in Jobs, NEW p \in todo[j], NEW s \in Nat, SaleStep(j, p, s)
    PROVE  /\ s \in DOMAIN sales' /\ KeyOf[sales'[s]] = KeyOf[LineAt(j, p)]
           /\ DOMAIN sales \subseteq DOMAIN sales'
           /\ DOMAIN sales' \subseteq DOMAIN sales \cup {s}
           /\ \A t \in DOMAIN sales : KeyOf[sales'[t]] = KeyOf[sales[t]]
<1>1. TypeOK /\ CacheTrue /\ BatchesOpen /\ Loaded(j) /\ Working(j)
  BY DEF IInv, SaleStep, Loaded, Working
<1>2. KeyOf[LineAt(j, p)] \in Keys /\ sales \in Seq(Lines)
  BY <1>1, LineInFile DEF TypeOK
<1>3. CASE s \in Prior(j, p) /\ sales' = [sales EXCEPT ![s] = LineAt(j, p)]
  <2>1. s \in DOMAIN sales /\ KeyOf[sales[s]] = KeyOf[LineAt(j, p)]
    BY <1>1, <1>2, <1>3 DEF CacheTrue, Prior
  <2> QED
    BY <1>2, <1>3, <2>1
<1>4. CASE s = Len(sales) + 1 /\ sales' = Append(sales, LineAt(j, p))
  BY <1>2, <1>4
<1> QED
  BY <1>3, <1>4 DEF SaleStep

LEMMA CacheTrueStep == IInv /\ AnyStep => CacheTrue'
<1> SUFFICES ASSUME IInv, AnyStep PROVE CacheTrue'
  OBVIOUS
<1>t. TypeOK /\ LockHeld /\ BatchesOpen /\ CacheTrue /\ OneEach
  BY DEF IInv
<1>1. ASSUME NEW j \in Jobs, StartStep(j) PROVE CacheTrue'
  <2>1. UNCHANGED <<rows, sales>> /\ \A k \in Keys : SalesOf(k)' = SalesOf(k)
    BY <1>1, SalesOfSame DEF StartStep, Begin, Open, OpenAgain, Load
  <2>2. CASE Begin(j) \/ Open(j) \/ OpenAgain(j)
    <3>1. UNCHANGED cache /\ \A i \in Jobs : Loaded(i)' => Loaded(i)
      BY <1>t, <2>2 DEF Begin, Open, OpenAgain, Loaded, TypeOK
    <3> QED
      BY <1>t, <2>1, <3>1 DEF CacheTrue
  <2>3. CASE Load(j)
    <3>1. \A i \in Jobs \ {j} : ~ Loaded(i)
      BY <1>t, <2>3, Alone DEF Load, Underway
    <3>2. \A i \in Jobs : Loaded(i)' => i = j
      BY <1>t, <2>3, <3>1 DEF Load, Loaded, TypeOK
    <3>3. \A k \in Keys : cache'[j].byKey[k] = SalesOf(k)
      BY <1>t, <2>3 DEF Load, TypeOK
    <3> QED
      BY <1>t, <2>1, <3>2, <3>3 DEF CacheTrue, OneEach
  <2> QED
    BY <1>1, <2>2, <2>3 DEF StartStep
<1>2. ASSUME NEW j \in Jobs, NEW p \in todo[j], BlankStep(j, p) \/ FailStep(j, p) PROVE CacheTrue'
  <2>1. /\ UNCHANGED <<rows, sales, cache>> /\ \A k \in Keys : SalesOf(k)' = SalesOf(k)
    BY <1>2, SalesOfSame DEF BlankStep, FailStep
  <2>2. \A i \in Jobs : Loaded(i)' => Loaded(i)
    BY <1>2, <1>t DEF BlankStep, FailStep, Loaded, TypeOK
  <2> QED
    BY <1>t, <2>1, <2>2 DEF CacheTrue
<1>3. ASSUME NEW j \in Jobs, NEW p \in todo[j], NEW s \in Nat, SaleStep(j, p, s) PROVE CacheTrue'
  <2>1. /\ KeyOf[LineAt(j, p)] \in Keys /\ Loaded(j) /\ pc[j] \in Underway /\ UNCHANGED rows
        /\ cache[j].byKey \in [Keys -> SUBSET Nat]
    BY <1>3, <1>t, LineInFile DEF SaleStep, Working, Loaded, Underway, TypeOK, Cache
  <2>2. \A i \in Jobs : Loaded(i)' => i = j
    BY <1>3, <1>t, <2>1, Alone DEF SaleStep, Loaded, TypeOK
  <2>3. \A k \in Keys : SalesOf(k)' = SalesOf(k)
    BY <2>1, SalesOfSame
  <2>4. /\ s \in DOMAIN sales' /\ KeyOf[sales'[s]] = KeyOf[LineAt(j, p)]
        /\ DOMAIN sales \subseteq DOMAIN sales'
        /\ \A t \in DOMAIN sales : KeyOf[sales'[t]] = KeyOf[sales[t]]
    BY <1>3, KeysKept
  <2>5. CASE cache'[j].byKey = cache[j].byKey
    BY <1>t, <2>1, <2>2, <2>3, <2>4, <2>5 DEF CacheTrue
  <2>6. CASE Prior(j, p) = {} /\ cache'[j].byKey = [cache[j].byKey EXCEPT ![KeyOf[LineAt(j, p)]] = {s}]
    BY <1>t, <2>1, <2>2, <2>3, <2>4, <2>6 DEF CacheTrue, Prior
  <2> QED
    BY <1>3, <2>5, <2>6 DEF SaleStep
<1>4. ASSUME NEW j \in Jobs, NEW p \in todo[j], NEW s \in Nat, NEW status \in Status,
             RowStep(j, p, status, s)
      PROVE  CacheTrue'
  <2>1. /\ UNCHANGED <<sales, cache>> /\ Loaded(j) /\ pc[j] \in Underway
        /\ pc' = [pc EXCEPT ![j] = "line"]
    BY <1>4 DEF RowStep, Loaded, Underway
  <2>2. \A i \in Jobs : Loaded(i)' => i = j
    BY <1>t, <2>1, Alone DEF Loaded, TypeOK
  <2>3. \A k \in Keys : SalesOf(k)' \subseteq cache[j].byKey[k]
    BY <1>4, <1>t, <2>1, SalesOfRow DEF CacheTrue, Prior
  <2> QED
    BY <1>t, <2>1, <2>2, <2>3 DEF CacheTrue
<1>5. CASE StopStep
  BY <1>5, <1>t DEF StopStep, Running, Underway, Loaded, CacheTrue
<1>6. CASE StillStep
  <2>1. \A k \in Keys : SalesOf(k)' = SalesOf(k)
    BY <1>6, SalesOfSame DEF StillStep
  <2> QED
    BY <1>6, <1>t, <2>1 DEF StillStep, CacheTrue, Loaded
<1> QED
  BY <1>1, <1>2, <1>3, <1>4, <1>5, <1>6 DEF AnyStep

LEMMA OneEachStep == IInv /\ AnyStep => OneEach'
<1> SUFFICES ASSUME IInv, AnyStep PROVE OneEach'
  OBVIOUS
<1>t. TypeOK /\ CacheTrue /\ OneEach
  BY DEF IInv
<1>1. CASE UNCHANGED <<rows, sales>>
  <2>1. \A k \in Keys : SalesOf(k)' = SalesOf(k)
    BY <1>1, SalesOfSame
  <2> QED
    BY <1>1, <1>t, <2>1 DEF OneEach
<1>2. ASSUME NEW j \in Jobs, NEW p \in todo[j], NEW s \in Nat, SaleStep(j, p, s) PROVE OneEach'
  <2>1. \A k \in Keys : SalesOf(k)' = SalesOf(k)
    BY <1>2, SalesOfSame DEF SaleStep
  <2>2. \A t \in DOMAIN sales : t \in DOMAIN sales' /\ KeyOf[sales'[t]] = KeyOf[sales[t]]
    BY <1>2, KeysKept
  <2> QED
    BY <1>t, <2>1, <2>2 DEF OneEach
<1>3. ASSUME NEW j \in Jobs, NEW p \in todo[j], NEW s \in Nat, NEW status \in Status,
             RowStep(j, p, status, s)
      PROVE  OneEach'
  <2>1. UNCHANGED <<sales, cache>> /\ Loaded(j)'
    BY <1>3, <1>t DEF RowStep, Loaded, TypeOK
  <2>2. CacheTrue'
    BY <1>3, CacheTrueStep
  <2> QED
    BY <2>1, <2>2 DEF CacheTrue, OneEach
<1>4. ASSUME NEW j \in Jobs, StartStep(j) PROVE UNCHANGED <<rows, sales>>
  BY <1>4 DEF StartStep, Begin, Open, OpenAgain, Load
<1>5. ASSUME NEW j \in Jobs, NEW p \in todo[j], BlankStep(j, p) \/ FailStep(j, p)
      PROVE  UNCHANGED <<rows, sales>>
  BY <1>5 DEF BlankStep, FailStep
<1>6. StopStep \/ StillStep => UNCHANGED <<rows, sales>>
  BY DEF StopStep, StillStep
<1> QED
  BY <1>1, <1>2, <1>3, <1>4, <1>5, <1>6 DEF AnyStep

LEMMA SalesAccountedStep == IInv /\ AnyStep => SalesAccounted'
<1> SUFFICES ASSUME IInv, AnyStep PROVE SalesAccounted'
  OBVIOUS
<1>t. TypeOK /\ LockHeld /\ BatchesOpen /\ CacheTrue /\ SalesAccounted
  BY DEF IInv
<1>1. ASSUME UNCHANGED <<rows, sales, lost, hand>>,
             \A i \in Jobs : pc[i] = "record" => pc'[i] = "record"
      PROVE  SalesAccounted'
  <2>1. \A k \in Keys : SalesOf(k)' = SalesOf(k)
    BY <1>1, SalesOfSame
  <2> QED
    BY <1>1, <1>t, <2>1 DEF SalesAccounted
<1>2. ASSUME NEW j \in Jobs, StartStep(j) PROVE SalesAccounted'
  <2>1. /\ UNCHANGED <<rows, sales, lost, hand>>
        /\ \A i \in Jobs : pc[i] = "record" => pc'[i] = "record"
    BY <1>2, <1>t DEF StartStep, Begin, Open, OpenAgain, Load, ghost, TypeOK
  <2> QED
    BY <1>1, <2>1
<1>3. ASSUME NEW j \in Jobs, NEW p \in todo[j], BlankStep(j, p) PROVE SalesAccounted'
  BY <1>1, <1>3 DEF BlankStep
<1>4. ASSUME NEW j \in Jobs, NEW p \in todo[j], FailStep(j, p) PROVE SalesAccounted'
  <2>1. /\ UNCHANGED <<rows, sales>> /\ lost \subseteq lost'
        /\ \A k \in Keys : SalesOf(k)' = SalesOf(k)
    BY <1>4, SalesOfSame DEF FailStep
  <2>2. \A i \in Jobs \ {j} : pc[i] # "record"
    BY <1>4, <1>t, Alone DEF FailStep, Loaded, Underway
  <2>3. pc[j] = "record" => hand[j].sale \in lost'
    BY <1>4 DEF FailStep
  <2> QED
    BY <1>t, <2>1, <2>2, <2>3 DEF SalesAccounted
<1>5. ASSUME NEW j \in Jobs, NEW p \in todo[j], NEW s \in Nat, SaleStep(j, p, s) PROVE SalesAccounted'
  <2>1. /\ UNCHANGED <<rows, lost>> /\ \A k \in Keys : SalesOf(k)' = SalesOf(k)
        /\ pc'[j] = "record" /\ hand'[j].sale = s
    BY <1>5, <1>t, SalesOfSame DEF SaleStep, TypeOK
  <2>2. \A i \in Jobs : pc[i] # "record"
    BY <1>5, <1>t, Alone DEF SaleStep, Loaded, Underway
  <2>3. \A t \in DOMAIN sales' : t = s \/ t \in DOMAIN sales
    BY <1>5, KeysKept
  <2> QED
    BY <1>t, <2>1, <2>2, <2>3 DEF SalesAccounted
<1>6. ASSUME NEW j \in Jobs, NEW p \in todo[j], NEW s \in Nat, NEW status \in Status,
             RowStep(j, p, status, s)
      PROVE  SalesAccounted'
  <2>1. /\ UNCHANGED <<sales, lost>>
        /\ \A i \in Jobs \ {j} : pc[i] # "record"
    BY <1>6, <1>t, Alone DEF RowStep, Loaded, Underway
  <2>2. pc[j] = "record" => \E k \in Keys : hand[j].sale \in SalesOf(k)'
    <3>1. pc[j] = "record" => status \in Applied /\ s = hand[j].sale
      BY <1>6 DEF RowStep
    <3> QED
      BY <1>6, <3>1, SalesOfRow
  <2>3. \A k \in Keys : SalesOf(k) \subseteq SalesOf(k)'
    BY <1>6, SalesOfRow
  <2> QED
    BY <1>t, <2>1, <2>2, <2>3 DEF SalesAccounted
<1>7. CASE StopStep
  <2>1. /\ UNCHANGED <<rows, sales>> /\ lost \subseteq lost'
        /\ \A k \in Keys : SalesOf(k)' = SalesOf(k)
    BY <1>7, SalesOfSame DEF StopStep
  <2>2. \A i \in Jobs : pc[i] = "record" => hand[i].sale \in lost'
    BY <1>7 DEF StopStep, Running, Underway
  <2> QED
    BY <1>t, <2>1, <2>2 DEF SalesAccounted
<1>8. CASE StillStep
  BY <1>1, <1>8 DEF StillStep
<1> QED
  BY <1>2, <1>3, <1>4, <1>5, <1>6, <1>7, <1>8 DEF AnyStep

LEMMA LinesAccountedStep == IInv /\ AnyStep => LinesAccounted'
<1> SUFFICES ASSUME IInv, AnyStep PROVE LinesAccounted'
  OBVIOUS
<1>t. TypeOK /\ LockHeld /\ BatchesOpen /\ LinesAccounted /\ Imports \subseteq Jobs
  BY DEF IInv, Jobs
<1>b. \A b \in Imports : Working(b) => batch[b] = b
  BY <1>t, ImportsAssumption DEF BatchesOpen, TypeOK, Working
<1>1. ASSUME UNCHANGED <<file, batches, rows, cut, todo>>,
             \A i \in Jobs : Working(i) => Working(i)'
      PROVE  LinesAccounted'
  BY <1>1, <1>t DEF LinesAccounted, Data, TypeOK
<1>2. ASSUME NEW j \in Jobs, Open(j) PROVE LinesAccounted'
  <2>1. j \in Imports /\ pc[j] = "open" /\ j \notin batches /\ UNCHANGED <<rows, cut>>
    BY <1>2, <1>t DEF Open, BatchesOpen, ghost
  <2>2. PICK f \in Files : file' = [file EXCEPT ![j] = f] /\ todo' = [todo EXCEPT ![j] = DOMAIN f]
    BY <1>2 DEF Open
  <2>3. Working(j)' /\ todo'[j] = DOMAIN f /\ file'[j] = f /\ batches' = batches \cup {j}
    BY <1>2, <1>t, <2>1, <2>2 DEF Open, Working, TypeOK
  <2>4. \A b \in batches : ~ Working(b) /\ file'[b] = file[b]
    BY <1>t, <2>1, <2>2, Alone DEF Underway, TypeOK
  <2> QED
    BY <1>t, <2>1, <2>3, <2>4 DEF LinesAccounted, Data
<1>3. ASSUME NEW j \in Jobs, OpenAgain(j) PROVE LinesAccounted'
  <2>1. j \notin Imports /\ UNCHANGED <<file, batches, rows, cut>>
    BY <1>3, ImportsAssumption DEF OpenAgain, ghost
  <2>2. \A b \in Imports : pc'[b] = pc[b] /\ todo'[b] = todo[b]
    BY <1>3, <1>t, <2>1 DEF OpenAgain, TypeOK
  <2> QED
    BY <1>t, <2>1, <2>2 DEF LinesAccounted, Data, Working, TypeOK
<1>4. ASSUME NEW j \in Jobs, Begin(j) \/ Load(j) PROVE LinesAccounted'
  <2>1. UNCHANGED <<file, batches, rows, cut, todo>> /\ \A i \in Jobs : Working(i) => Working(i)'
    BY <1>4, <1>t DEF Begin, Load, Working, ghost, TypeOK
  <2> QED
    BY <1>1, <2>1
<1>5. ASSUME NEW j \in Jobs, NEW p \in todo[j], BlankStep(j, p) PROVE LinesAccounted'
  <2>1. /\ UNCHANGED <<file, batches, rows, cut, pc>> /\ Working(j) /\ p \notin Data(batch[j])
        /\ todo' = [todo EXCEPT ![j] = @ \ {p}]
    BY <1>5 DEF BlankStep, Working
  <2> QED
    BY <1>t, <1>b, <2>1 DEF LinesAccounted, Data, Working, TypeOK
<1>6. ASSUME NEW j \in Jobs, NEW p \in todo[j], NEW s \in Nat, FailStep(j, p) \/ SaleStep(j, p, s)
      PROVE  LinesAccounted'
  <2>1. UNCHANGED <<file, batches, rows, cut, todo>> /\ \A i \in Jobs : Working(i) => Working(i)'
    BY <1>6, <1>t DEF FailStep, SaleStep, Working, TypeOK
  <2> QED
    BY <1>1, <2>1
<1>7. ASSUME NEW j \in Jobs, NEW p \in todo[j], NEW s \in Nat, NEW status \in Status,
             RowStep(j, p, status, s)
      PROVE  LinesAccounted'
  <2> DEFINE new == NewRow(j, p, status, s)
  <2>1. /\ UNCHANGED <<file, batches, cut>> /\ Working(j) /\ rows' = (rows \ At(j, p)) \cup {new}
        /\ todo' = [todo EXCEPT ![j] = @ \ {p}] /\ \A i \in Jobs : Working(i) => Working(i)'
    BY <1>7, <1>t DEF RowStep, Loaded, Working, Written, TypeOK
  <2>2. new.batch = batch[j] /\ new.pos = p
    BY DEF NewRow
  <2>3. \A r \in rows : \E q \in rows' : q.batch = r.batch /\ q.pos = r.pos
    BY <2>1, <2>2 DEF At
  <2> HIDE DEF new
  <2>4. ASSUME NEW b \in batches \ cut, NEW x \in Data(b)
        PROVE  (\E r \in rows' : r.batch = b /\ r.pos = x) \/ (Working(b)' /\ x \in todo'[b])
    <3>1. CASE \E r \in rows : r.batch = b /\ r.pos = x
      BY <2>3, <3>1
    <3>2. CASE Working(b) /\ x \in todo[b]
      BY <1>t, <1>b, <2>1, <2>2, <3>2 DEF TypeOK
    <3> QED
      BY <1>t, <3>1, <3>2 DEF LinesAccounted
  <2> QED
    BY <2>1, <2>4 DEF LinesAccounted, Data
<1>8. CASE StopStep
  <2>1. UNCHANGED <<file, batches, rows>> /\ cut \subseteq cut'
    BY <1>8 DEF StopStep
  <2>2. \A b \in Imports : Working(b) /\ todo[b] # {} => b \in cut'
    BY <1>8, <1>t DEF StopStep, Running, Working, Underway
  <2> QED
    BY <1>t, <2>1, <2>2 DEF LinesAccounted, Data, TypeOK
<1>9. CASE StillStep
  BY <1>1, <1>9 DEF StillStep, Working
<1> QED
  BY <1>2, <1>3, <1>4, <1>5, <1>6, <1>7, <1>8, <1>9 DEF AnyStep, StartStep

\* The inductive invariant: one run at a time, on a batch of its own, with
\* true rows, caches that hold every recorded sale, and every line and every
\* sale accounted for.
THEOREM Invariance == Spec => []IInv
<1>1. IInv /\ [Next]_vars => IInv'
  <2> SUFFICES ASSUME IInv, [Next]_vars PROVE IInv'
    OBVIOUS
  <2>1. AnyStep
    BY StepKinds
  <2> QED
    BY <2>1, TypeStep, LockHeldStep, BatchesOpenStep, RowsTrueStep, HandTrueStep, CacheTrueStep,
       OneEachStep, SalesAccountedStep, LinesAccountedStep DEF IInv
<1> QED
  BY <1>1, InitIInv, PTL DEF Spec

\* Every variable has its type, and nobody works on a batch that is not there.
THEOREM TypeCorrect == Spec => []TypeOK
<1>1. IInv => TypeOK
  BY DEF IInv
<1> QED
  BY <1>1, Invariance, PTL

-----------------------------------------------------------------------------
LEMMA AtMostOne ==
    ASSUME NEW S, \A s, t \in S : s = t
    PROVE  IsFiniteSet(S) /\ Cardinality(S) \in Nat /\ Cardinality(S) <= 1
<1>1. CASE S = {}
  BY <1>1, FS_EmptySet
<1>2. CASE S # {}
  <2>1. PICK s \in S : TRUE
    BY <1>2
  <2>2. S = {s}
    BY <2>1
  <2> QED
    BY <2>2, FS_Singleton
<1> QED
  BY <1>1, <1>2

\* The rows of one key name one sale at most: no line is ever held because its
\* key is ambiguous.
LEMMA RecordedOnce == IInv => OneRecordedSale
BY AtMostOne DEF IInv, OneEach, OneRecordedSale

\* A batch whose import was not cut short has exactly one row, with the right
\* line, for every line with data of its file, once nobody works on it.
THEOREM NoLineLost == Spec => []RowPerLine
<1>1. IInv => RowPerLine
  <2> SUFFICES ASSUME IInv, NEW b \in batches \ cut, ~ InWork(b), NEW p \in Data(b)
               PROVE  Cardinality({r \in rows : r.batch = b /\ r.pos = p /\ r.line = file[b][p]}) = 1
    BY DEF RowPerLine
  <2>t. TypeOK /\ RowsTrue /\ BatchesOpen /\ LinesAccounted /\ b \in Imports /\ b \in Jobs
    BY DEF IInv, TypeOK, Jobs
  <2>1. ~ Working(b)
    BY <2>t, ImportsAssumption DEF InWork, Working, Underway, BatchesOpen, TypeOK
  <2>2. PICK r \in rows : r.batch = b /\ r.pos = p
    BY <2>t, <2>1 DEF LinesAccounted
  <2>3. r.line = file[b][p]
    BY <2>t, <2>2 DEF RowsTrue
  <2>4. {q \in rows : q.batch = b /\ q.pos = p /\ q.line = file[b][p]} = {r}
    BY <2>t, <2>2, <2>3 DEF RowsTrue
  <2> QED
    BY <2>4, FS_Singleton
<1> QED
  BY <1>1, Invariance, PTL

\* Importing and reprocessing duplicate no sale: the rows of a key name one sale,
\* and it has at most one more for every sale of the key whose row a fault kept
\* from being written.
THEOREM NoDuplicates == Spec => []SalesOnce
<1>1. IInv => OneSalePerKey
  <2> SUFFICES ASSUME IInv, NEW k \in Keys
               PROVE  Cardinality({s \in DOMAIN sales : KeyOf[sales[s]] = k})
                        <= 1 + Cardinality({s \in lost : KeyOf[sales[s]] = k})
    BY DEF OneSalePerKey
  <2> DEFINE written == {s \in DOMAIN sales : KeyOf[sales[s]] = k}
             gone    == {s \in lost : KeyOf[sales[s]] = k}
             kept    == {s \in written : s \notin lost}
  <2>t. /\ TypeOK /\ LockHeld /\ BatchesOpen /\ HandTrue /\ CacheTrue /\ OneEach /\ SalesAccounted
        /\ lost \subseteq DOMAIN sales
    BY DEF IInv, TypeOK
  <2>1. \A s \in kept : \/ s \in SalesOf(k)
                        \/ \E j \in Jobs : pc[j] = "record" /\ s \in cache[j].byKey[k]
    <3> TAKE s \in kept
    <3>1. CASE \E q \in Keys : s \in SalesOf(q)
      BY <2>t, <3>1 DEF OneEach
    <3>2. ASSUME NEW j \in Jobs, pc[j] = "record", hand[j].sale = s
          PROVE  s \in cache[j].byKey[k]
      <4>1. s \in Prior(j, hand[j].pos) /\ hand[j].pos \in todo[j] /\ Loaded(j) /\ Working(j)
        BY <2>t, <3>2 DEF HandTrue, Loaded, Working
      <4>2. KeyOf[LineAt(j, hand[j].pos)] \in Keys
        BY <2>t, <4>1, LineInFile
      <4>3. KeyOf[sales[s]] = KeyOf[LineAt(j, hand[j].pos)]
        BY <2>t, <4>1, <4>2 DEF CacheTrue, Prior
      <4> QED
        BY <4>1, <4>3 DEF Prior
    <3> QED
      BY <2>t, <3>1, <3>2 DEF SalesAccounted
  <2>2. \A s, t \in kept : s = t
    <3>1. CASE \E j \in Jobs : pc[j] = "record"
      <4>1. PICK j \in Jobs : pc[j] = "record"
        BY <3>1
      <4>2. \A i \in Jobs : pc[i] = "record" => i = j
        BY <2>t, <4>1 DEF LockHeld, Underway
      <4>3. SalesOf(k) \subseteq cache[j].byKey[k] /\ \A s, t \in cache[j].byKey[k] : s = t
        BY <2>t, <4>1 DEF CacheTrue, Loaded
      <4>4. \A s \in kept : s \in cache[j].byKey[k]
        BY <2>1, <4>2, <4>3
      <4> QED
        BY <4>3, <4>4
    <3>2. CASE \A j \in Jobs : pc[j] # "record"
      <4>1. \A s \in kept : s \in SalesOf(k)
        BY <2>1, <3>2
      <4> QED
        BY <2>t, <4>1 DEF OneEach
    <3> QED
      BY <3>1, <3>2
  <2>3. IsFiniteSet(kept) /\ Cardinality(kept) \in Nat /\ Cardinality(kept) <= 1
    <3> HIDE DEF kept
    <3> QED
      BY <2>2, AtMostOne
  <2>4. written = kept \cup gone /\ kept \cap gone = {}
    BY <2>t
  <2>5. IsFiniteSet(gone) /\ Cardinality(gone) \in Nat
    <3>1. Len(sales) \in Nat /\ DOMAIN sales = 1..Len(sales)
      BY <2>t DEF TypeOK
    <3>2. IsFiniteSet(1..Len(sales))
      BY <3>1, FS_Interval
    <3>3. gone \subseteq 1..Len(sales)
      BY <2>t, <3>1
    <3> HIDE DEF gone
    <3> QED
      BY <3>2, <3>3, FS_Subset, FS_CardinalityType
  <2> HIDE DEF written, gone, kept
  <2>6. Cardinality(written) = Cardinality(kept) + Cardinality(gone) - Cardinality(kept \cap gone)
    BY <2>3, <2>4, <2>5, FS_Union
  <2>7. Cardinality(kept \cap gone) = 0
    BY <2>4, FS_EmptySet
  <2>8. Cardinality(written) <= 1 + Cardinality(gone)
    BY <2>3, <2>5, <2>6, <2>7
  <2> QED
    BY <2>8 DEF written, gone
<1>2. IInv => SalesOnce
  BY <1>1, RecordedOnce DEF SalesOnce
<1> QED
  BY <1>2, Invariance, PTL

-----------------------------------------------------------------------------
(* Ledger: what a step does to the rows and the sales, seen as the lines that *)
(* wait, the lines that are settled and the sale of every key.                *)

Waiting == {LineOf(r) : r \in {q \in rows : q.status = "PENDING"}}

Settled == {LineOf(r) : r \in {q \in rows : q.status # "PENDING"}}

Sold == [k \in Keys |-> SalesOf(k)]

\* A step that writes no row leaves all of them.
LEMMA NoRowWritten ==
    ASSUME rows' = rows
    PROVE  UNCHANGED <<Waiting, Settled, Sold>>
BY SalesOfSame DEF Waiting, Settled, Sold

\* A line with a run's row still to be written is not settled; its row settles
\* it, or lets it wait.
LEMMA RowMoves ==
    ASSUME IInv, NEW j \in Jobs, NEW p \in todo[j], NEW s \in Nat, NEW status \in Status,
           RowStep(j, p, status, s), NEW e, e = LineOf(NewRow(j, p, status, s))
    PROVE  /\ e \notin Settled
           /\ status = "PENDING" => Waiting' = Waiting \cup {e} /\ Settled' = Settled
           /\ status # "PENDING" => Waiting' = Waiting \ {e} /\ Settled' = Settled \cup {e}
<1> DEFINE new == NewRow(j, p, status, s)
<1>1. /\ Working(j) /\ TypeOK /\ BatchesOpen /\ RowsTrue
      /\ rows' = (rows \ At(j, p)) \cup {new}
  BY DEF RowStep, Written, Loaded, Working, IInv
<1>2. /\ new.batch = batch[j] /\ new.pos = p /\ new.line = file[batch[j]][p]
      /\ new.status = status
  BY DEF NewRow, LineAt
<1>3. \A r \in At(j, p) : r.status = "PENDING" /\ LineOf(r) = e
  <2> TAKE r \in At(j, p)
  <2>1. r \in rows /\ r.batch = batch[j] /\ r.pos = p
    BY DEF At
  <2>2. r.status = "PENDING" /\ r.line = file[batch[j]][p]
    BY <1>1, <2>1 DEF BatchesOpen, RowsTrue
  <2> QED
    BY <1>2, <2>1, <2>2 DEF LineOf
<1>4. \A r \in rows : LineOf(r) = e => r \in At(j, p)
  BY <1>2 DEF LineOf, At
<1>5. LineOf(new) = e
  OBVIOUS
<1> HIDE DEF new
<1>6. e \notin Settled
  BY <1>3, <1>4 DEF Settled
<1>7. ASSUME status = "PENDING" PROVE Waiting' = Waiting \cup {e} /\ Settled' = Settled
  <2>1. \A x : x \in Waiting' <=> x \in Waiting \cup {e}
    BY <1>1, <1>2, <1>3, <1>5, <1>7 DEF Waiting
  <2>2. \A x : x \in Settled' <=> x \in Settled
    BY <1>1, <1>2, <1>3, <1>7 DEF Settled
  <2> QED
    BY <2>1, <2>2
<1>8. ASSUME status # "PENDING" PROVE Waiting' = Waiting \ {e} /\ Settled' = Settled \cup {e}
  <2>1. \A x : x \in Waiting' <=> x \in Waiting \ {e}
    BY <1>1, <1>2, <1>3, <1>4, <1>8 DEF Waiting
  <2>2. \A x : x \in Settled' <=> x \in Settled \cup {e}
    BY <1>1, <1>2, <1>3, <1>5, <1>8 DEF Settled
  <2> QED
    BY <2>1, <2>2
<1> QED
  BY <1>6, <1>7, <1>8

\* The row of a sale gives its key that sale, which it had or which is its first.
LEMMA SoldMoves ==
    ASSUME IInv, NEW j \in Jobs, NEW p \in todo[j], NEW s \in Nat, NEW status \in Status,
           RowStep(j, p, status, s), NEW k, k = KeyOf[LineAt(j, p)]
    PROVE  /\ status \notin Applied => Sold' = Sold
           /\ status \in Applied =>
                /\ s \in DOMAIN sales /\ KeyOf[sales[s]] = k
                /\ Sold[k] \subseteq {s}
                /\ Sold' = [Sold EXCEPT ![k] = {s}]
<1>1. /\ Loaded(j) /\ Working(j) /\ TypeOK /\ BatchesOpen /\ CacheTrue
  BY DEF RowStep, Loaded, Working, IInv
<1>2. k \in Keys
  BY <1>1, LineInFile
<1>3. /\ \A q \in Keys : SalesOf(q) \subseteq SalesOf(q)'
      /\ \A q \in Keys : \A t \in SalesOf(q)' :
           t \in SalesOf(q) \/ (status \in Applied /\ t = s /\ q = k)
      /\ status \in Applied => s \in Prior(j, p) /\ s \in SalesOf(k)'
  BY <1>2, SalesOfRow
<1>4. ASSUME status \notin Applied PROVE Sold' = Sold
  <2>1. \A q \in Keys : SalesOf(q)' = SalesOf(q)
    BY <1>3, <1>4
  <2> QED
    BY <2>1 DEF Sold
<1>5. ASSUME status \in Applied
      PROVE  /\ s \in DOMAIN sales /\ KeyOf[sales[s]] = k
             /\ Sold[k] \subseteq {s}
             /\ Sold' = [Sold EXCEPT ![k] = {s}]
  <2>1. /\ SalesOf(k) \subseteq cache[j].byKey[k] /\ s \in cache[j].byKey[k]
        /\ \A t \in cache[j].byKey[k] : t \in DOMAIN sales /\ KeyOf[sales[t]] = k /\ t = s
    BY <1>1, <1>2, <1>3, <1>5 DEF CacheTrue, Prior
  <2>2. SalesOf(k)' = {s}
    BY <1>2, <1>3, <1>5, <2>1
  <2>3. \A q \in Keys \ {k} : SalesOf(q)' = SalesOf(q)
    BY <1>3
  <2>4. Sold[k] = SalesOf(k) /\ Sold' = [q \in Keys |-> SalesOf(q)']
    BY <1>2 DEF Sold
  <2>5. Sold' = [Sold EXCEPT ![k] = {s}]
    BY <2>2, <2>3, <2>4 DEF Sold
  <2> QED
    BY <2>1, <2>4, <2>5
<1> QED
  BY <1>4, <1>5

LEMMA InitLedger == Init => Sheets!Init
<1> SUFFICES ASSUME Init PROVE Sheets!Init
  OBVIOUS
<1>1. rows = {} /\ sales = <<>>
  BY DEF Init
<1>2. \A k \in Keys : SalesOf(k) = {}
  BY <1>1 DEF SalesOf, Recorded
<1> QED
  BY <1>1, <1>2 DEF Sheets!Init

\* Every step is one that Ledger allows, or changes nothing of it.
LEMMA NextLedger ==
    IInv /\ AnyStep => Sheets!Next \/ UNCHANGED <<Waiting, Settled, Sold, sales>>
<1> SUFFICES ASSUME IInv, AnyStep
             PROVE  Sheets!Next \/ UNCHANGED <<Waiting, Settled, Sold, sales>>
  OBVIOUS
<1>1. CASE UNCHANGED <<rows, sales>>
  BY <1>1, NoRowWritten
<1>2. ASSUME NEW j \in Jobs, NEW p \in todo[j], NEW s \in Nat, SaleStep(j, p, s)
      PROVE  Sheets!Write(LineAt(j, p)) /\ LineAt(j, p) \in Lines
  <2>1. /\ Loaded(j) /\ Working(j) /\ TypeOK /\ BatchesOpen /\ CacheTrue /\ rows' = rows
    BY <1>2 DEF SaleStep, Loaded, Working, IInv
  <2>2. LineAt(j, p) \in Lines /\ KeyOf[LineAt(j, p)] \in Keys
    BY <2>1, LineInFile
  <2>3. UNCHANGED <<Waiting, Settled, Sold>>
    BY <2>1, NoRowWritten
  <2>4. CASE s \in Prior(j, p) /\ sales' = [sales EXCEPT ![s] = LineAt(j, p)]
    <3>1. s \in DOMAIN sales /\ KeyOf[sales[s]] = KeyOf[LineAt(j, p)]
      BY <2>1, <2>2, <2>4 DEF CacheTrue, Prior
    <3> QED
      BY <2>2, <2>3, <2>4, <3>1 DEF Sheets!Write, Waiting, Settled, Sold
  <2>5. CASE Prior(j, p) = {} /\ sales' = Append(sales, LineAt(j, p))
    <3>1. SalesOf(KeyOf[LineAt(j, p)]) = {}
      BY <2>1, <2>2, <2>5 DEF CacheTrue, Prior
    <3> QED
      BY <2>2, <2>3, <2>5, <3>1 DEF Sheets!Write, Waiting, Settled, Sold
  <2> QED
    BY <1>2, <2>4, <2>5 DEF SaleStep
<1>3. ASSUME NEW e \in Waiting' \cup Settled',
             Sheets!Wait(e) \/ Sheets!Pass(e) \/ \E s \in DOMAIN sales : Sheets!Sell(e, s)
      PROVE  Sheets!Next
  BY <1>3 DEF Sheets!Next, Waiting, Settled
<1>4. ASSUME NEW j \in Jobs, NEW p \in todo[j], NEW s \in Nat, NEW status \in Status,
             RowStep(j, p, status, s)
      PROVE  Sheets!Next
  <2>e. PICK e : e = LineOf(NewRow(j, p, status, s))
    OBVIOUS
  <2>1. /\ e \notin Settled /\ UNCHANGED sales
        /\ status = "PENDING" => Waiting' = Waiting \cup {e} /\ Settled' = Settled
        /\ status # "PENDING" => Waiting' = Waiting \ {e} /\ Settled' = Settled \cup {e}
    BY <1>4, <2>e, RowMoves DEF RowStep
  <2>2. e.line = LineAt(j, p)
    BY <2>e DEF LineOf, NewRow
  <2>3. e \in Waiting' \cup Settled'
    BY <2>1
  <2>4. CASE status = "PENDING"
    <3>1. Sold' = Sold
      BY <1>4, <2>4, SoldMoves DEF Applied
    <3>2. Sheets!Wait(e)
      BY <2>1, <2>4, <3>1 DEF Sheets!Wait, Waiting, Settled, Sold
    <3> QED
      BY <1>3, <2>3, <3>2
  <2>5. CASE status # "PENDING" /\ status \notin Applied
    <3>1. Sold' = Sold
      BY <1>4, <2>5, SoldMoves
    <3>2. Sheets!Pass(e)
      BY <2>1, <2>5, <3>1 DEF Sheets!Pass, Sheets!Settle, Waiting, Settled, Sold
    <3> QED
      BY <1>3, <2>3, <3>2
  <2>6. CASE status \in Applied
    <3>1. /\ s \in DOMAIN sales /\ KeyOf[sales[s]] = KeyOf[e.line]
          /\ Sold[KeyOf[e.line]] \subseteq {s}
          /\ Sold' = [Sold EXCEPT ![KeyOf[e.line]] = {s}]
      BY <1>4, <2>2, <2>6, SoldMoves
    <3>2. status # "PENDING"
      BY <2>6 DEF Applied
    <3>3. Sheets!Sell(e, s)
      BY <2>1, <3>1, <3>2 DEF Sheets!Sell, Sheets!Settle, Waiting, Settled, Sold
    <3> QED
      BY <1>3, <2>3, <3>1, <3>3
  <2> QED
    BY <2>4, <2>5, <2>6
<1>5. ASSUME NEW j \in Jobs, StartStep(j) PROVE UNCHANGED <<rows, sales>>
  BY <1>5 DEF StartStep, Begin, Open, OpenAgain, Load
<1>6. ASSUME NEW j \in Jobs, NEW p \in todo[j], BlankStep(j, p) \/ FailStep(j, p)
      PROVE  UNCHANGED <<rows, sales>>
  BY <1>6 DEF BlankStep, FailStep
<1>7. StopStep \/ StillStep => UNCHANGED <<rows, sales>>
  BY DEF StopStep, StillStep
<1>8. ASSUME NEW l \in Lines, Sheets!Write(l) PROVE Sheets!Next
  BY <1>8 DEF Sheets!Next
<1> QED
  BY <1>1, <1>2, <1>4, <1>5, <1>6, <1>7, <1>8 DEF AnyStep

\* Importing and reprocessing implement Ledger: wherever a run stops, a line
\* that has its result keeps it, a key keeps the sale it has, and no sale is
\* written from a line of another key.
THEOREM LedgerImplemented == Spec => ImplementsLedger
<1>1. IInv /\ [Next]_vars => [Sheets!Next]_<<Waiting, Settled, Sold, sales>>
  BY StepKinds, NextLedger
<1> QED
  BY <1>1, InitLedger, Invariance, PTL DEF Spec, ImplementsLedger, Sheets!Spec, Waiting, Settled, Sold

-----------------------------------------------------------------------------
(* The statistics: an import counts as it goes, a reprocessing counts the     *)
(* rows.  The counts come after the effects of StepKinds, so these lemmas go  *)
(* through the actions themselves.                                            *)

\* The rows of a batch, and the blank lines of its file.
RowsOf(b) == {r \in rows : r.batch = b}

Blanks(b) == DOMAIN file[b] \ Data(b)

\* A batch whose import is not over has no statistics, and the import none of
\* the rows it still has to write; before it has the batch it has counted nothing.
FirstPass ==
    /\ \A j \in Imports : pc[j] \in {"new", "open"} => count[j] = NoStats
    /\ \A b \in Imports : b \notin batches \/ Working(b) => stats[b] = NULL
    /\ \A j \in Imports : Working(j) => \A r \in rows : r.batch = j => r.pos \notin todo[j]

\* What import j has counted are its rows, and the line in hand.
CountTrue(j) ==
    /\ count[j].total = Cardinality(RowsOf(j)) + (IF pc[j] \in {"record", "failed"} THEN 1 ELSE 0)
    /\ count[j].created = Number(j, "CREATED") + (IF pc[j] = "record" /\ hand[j].created THEN 1 ELSE 0)
    /\ count[j].updated = Number(j, "UPDATED") + (IF pc[j] = "record" /\ ~ hand[j].created THEN 1 ELSE 0)
    /\ count[j].skipped = Number(j, "SKIPPED")
    /\ count[j].pending = Number(j, "PENDING")

CountsTrue == \A j \in Imports : Working(j) /\ j \notin damaged => CountTrue(j)

\* The blank lines a run knows of are those of the file, or those an import
\* has come past.
BlanksCounted ==
    /\ \A b \in batches \ cut : ~ Working(b) =>
         stats[b] # NULL /\ stats[b].ignored = Cardinality(Blanks(b))
    /\ \A j \in Reprocesses : Working(j) /\ batch[j] \notin cut =>
         count[j].ignored = Cardinality(Blanks(batch[j]))
    /\ \A j \in Imports : Working(j) => count[j].ignored = Cardinality(Blanks(j) \ todo[j])

\* The statistics of a batch are those of its rows, until a run writes some.
StatsTrue ==
    \A b \in batches \ damaged :
        stats[b] # NULL /\ (\A j \in Jobs : Loaded(j) => batch[j] # b) =>
            stats[b] = ComputeBatchStats(b, stats[b].ignored)

StatsInv == FirstPass /\ CountsTrue /\ BlanksCounted /\ StatsTrue

\* What a run counts with a line.
LEMMA PlusFields ==
    ASSUME TypeOK, NEW j \in Jobs, NEW names, count' = Plus(j, names)
    PROVE  /\ j \in Imports => \A f \in DOMAIN NoStats :
                count'[j][f] = count[j][f] + (IF f \in names THEN 1 ELSE 0)
           /\ j \notin Imports => \A f \in DOMAIN NoStats : count'[j][f] = count[j][f]
           /\ \A i \in Jobs \ {j} : count'[i] = count[i]
<1>1. count[j] \in Stats /\ count \in [Jobs -> Stats]
  BY DEF TypeOK
<1>2. DOMAIN count[j] = DOMAIN NoStats
  BY <1>1 DEF Stats, NoStats
<1>3. \A f \in DOMAIN NoStats : count[j][f] \in Nat
  BY <1>1 DEF Stats, NoStats
<1>4. count'[j] = [f \in DOMAIN count[j] |-> count[j][f] + IF j \in Imports /\ f \in names THEN 1 ELSE 0]
  BY <1>1 DEF Plus
<1> QED
  BY <1>1, <1>2, <1>3, <1>4 DEF Plus

\* The counters a run keeps.
LEMMA Fields == DOMAIN NoStats = {"total", "created", "updated", "skipped", "pending", "ignored"}
BY DEF NoStats

\* Import j writes the row of a line for the first time.
LEMMA RowAdded ==
    ASSUME TypeOK, BatchesOpen, RowsTrue, FirstPass,
           NEW j \in Imports, Working(j), batch[j] = j, NEW p \in todo[j],
           NEW status \in Status, NEW s, rows' = Written(j, p, status, s)
    PROVE  /\ Cardinality(RowsOf(j))' = Cardinality(RowsOf(j)) + 1
           /\ Cardinality(RowsOf(j)) \in Nat
           /\ \A st \in Status :
                /\ Number(j, st)' = Number(j, st) + (IF st = status THEN 1 ELSE 0)
                /\ Number(j, st) \in Nat
<1> DEFINE new == NewRow(j, p, status, s)
<1>1. new.batch = j /\ new.pos = p /\ new.status = status
  BY DEF NewRow
<1>2. At(j, p) = {}
  BY DEF At, FirstPass
<1>3. new \notin rows /\ rows' = rows \cup {new}
  BY <1>1, <1>2 DEF Written, FirstPass
<1> HIDE DEF new
<1>4. RowsOf(j)' = RowsOf(j) \cup {new} /\ new \notin RowsOf(j)
  BY <1>1, <1>3 DEF RowsOf
<1>5. IsFiniteSet(RowsOf(j))
  BY FS_Subset DEF RowsOf, RowsTrue
<1>6. Cardinality(RowsOf(j))' = Cardinality(RowsOf(j)) + 1 /\ Cardinality(RowsOf(j)) \in Nat
  BY <1>4, <1>5, FS_AddElement, FS_CardinalityType
<1>7. ASSUME NEW st \in Status
      PROVE  /\ Number(j, st)' = Number(j, st) + (IF st = status THEN 1 ELSE 0)
             /\ Number(j, st) \in Nat
  <2> DEFINE some == {r \in rows : r.batch = j /\ r.status = st}
  <2>1. IsFiniteSet(some) /\ new \notin some
    BY <1>3, FS_Subset DEF RowsTrue
  <2>2. some' = IF st = status THEN some \cup {new} ELSE some
    BY <1>1, <1>3
  <2>3. Number(j, st) = Cardinality(some) /\ Number(j, st)' = Cardinality(some')
    BY DEF Number
  <2>4. Cardinality(some) \in Nat /\ Cardinality(some \cup {new}) = Cardinality(some) + 1
    <3> HIDE DEF some
    <3> QED
      BY <2>1, FS_AddElement, FS_CardinalityType
  <2> HIDE DEF some
  <2> QED
    BY <2>2, <2>3, <2>4
<1> QED
  BY <1>6, <1>7

\* The rows of a batch are counted alike while nobody writes one of them.
LEMMA OtherRows ==
    ASSUME NEW b, RowsOf(b)' = RowsOf(b)
    PROVE  \A i : ComputeBatchStats(b, i)' = ComputeBatchStats(b, i)
<1>1. \A st : {r \in rows' : r.batch = b /\ r.status = st} = {r \in rows : r.batch = b /\ r.status = st}
  BY DEF RowsOf
<1> QED
  BY <1>1 DEF ComputeBatchStats, Number, RowsOf

\* A row written for one batch is none of another one.
LEMMA RowOfOther ==
    ASSUME NEW j, NEW p, NEW status, NEW s, rows' = Written(j, p, status, s), NEW b, b # batch[j]
    PROVE  RowsOf(b)' = RowsOf(b)
<1>1. NewRow(j, p, status, s).batch = batch[j]
  BY DEF NewRow
<1> QED
  BY <1>1 DEF RowsOf, Written, At

\* An import works on its own batch.
LEMMA OwnBatch ==
    ASSUME TypeOK, BatchesOpen, NEW j \in Imports, Working(j)
    PROVE  batch[j] = j /\ j \in batches /\ j \in Jobs
BY ImportsAssumption DEF TypeOK, BatchesOpen, Working, Jobs

\* Every step keeps each part of the invariant.
LEMMA FirstPassStep == IInv /\ FirstPass /\ [Next]_vars => FirstPass'
<1> SUFFICES ASSUME IInv, FirstPass, [Next]_vars PROVE FirstPass'
  OBVIOUS
<1>t. TypeOK /\ LockHeld /\ BatchesOpen /\ RowsTrue /\ HandTrue
  BY DEF IInv
<1>i. Imports \subseteq Jobs /\ \A j \in Imports : j \notin Reprocesses
  BY ImportsAssumption DEF Jobs
<1>1. ASSUME NEW j \in Jobs, Begin(j) \/ Load(j) PROVE FirstPass'
  BY <1>1, <1>t, <1>i DEF Begin, Load, FirstPass, Working, TypeOK, ghost, Underway
<1>2. ASSUME NEW j \in Jobs, Reject(j) PROVE FirstPass'
  BY <1>2, <1>t, <1>i DEF Reject, Ends, FirstPass, Working, TypeOK, ghost
<1>3. ASSUME NEW j \in Jobs, Open(j) PROVE FirstPass'
  <2>1. j \in Imports /\ pc[j] = "open" /\ j \notin batches /\ UNCHANGED <<rows, stats, count>>
    BY <1>3, <1>t DEF Open, BatchesOpen
  <2>2. \A i \in Jobs \ {j} : ~ Working(i)
    BY <1>t, <2>1, Alone DEF Underway
  <2>3. \A r \in rows : r.batch # j
    BY <1>t, <2>1 DEF RowsTrue
  <2>4. pc' = [pc EXCEPT ![j] = "load"] /\ batches' = batches \cup {j}
    BY <1>3 DEF Open
  <2>5. \A i \in Imports : (pc'[i] \in {"new", "open"} => pc'[i] = pc[i]) /\ (Working(i)' => i = j)
    BY <1>t, <1>i, <2>2, <2>4 DEF TypeOK, Working
  <2> QED
    BY <1>t, <1>i, <2>1, <2>2, <2>3, <2>4, <2>5 DEF FirstPass
<1>4. ASSUME NEW j \in Jobs, OpenAgain(j) PROVE FirstPass'
  <2>1. j \in Reprocesses /\ pc[j] = "open" /\ UNCHANGED <<rows, stats, batches>>
    BY <1>4 DEF OpenAgain
  <2>2. \A i \in Imports : pc'[i] = pc[i] /\ todo'[i] = todo[i]
    BY <1>4, <1>t, <1>i, <2>1 DEF OpenAgain, TypeOK
  <2>3. \A i \in Imports : count'[i] = count[i]
    BY <1>4, <1>t, <1>i, <2>1 DEF OpenAgain, TypeOK
  <2> QED
    BY <1>t, <2>1, <2>2, <2>3 DEF FirstPass, Working
<1>5. ASSUME NEW j \in Jobs, NEW p \in todo[j], Ignore(j, p) PROVE FirstPass'
  <2>1. /\ pc[j] = "line" /\ UNCHANGED <<rows, stats, batches, pc>>
        /\ \A i \in Jobs \ {j} : count'[i] = count[i]
        /\ \A i \in Jobs : todo'[i] \subseteq todo[i]
    BY <1>5, <1>t DEF Ignore, Turn, CountIgnored, TypeOK
  <2> QED
    BY <1>t, <1>i, <2>1 DEF FirstPass, Working
<1>6. ASSUME NEW j \in Jobs, NEW p \in todo[j], NEW names, Loaded(j), Working(j)', UNCHANGED <<stats, batches>>,
             count' = Plus(j, names), \A i \in Jobs \ {j} : pc'[i] = pc[i] /\ todo'[i] = todo[i],
             \/ rows' = rows /\ todo'[j] = todo[j]
             \/ \E status \in Status : \E s : rows' = Written(j, p, status, s) /\ todo'[j] = todo[j] \ {p}
      PROVE  FirstPass'
  <2>1. \A i \in Jobs \ {j} : count'[i] = count[i]
    BY <1>6, <1>t, PlusFields
  <2>2. \A i \in Jobs \ {j} : ~ Working(i) /\ ~ Working(i)'
    BY <1>6, <1>t, Alone DEF Working, Loaded, Underway
  <2>3. \A r \in rows' : r \in rows \/ r.pos = p
    BY <1>6 DEF Written, NewRow
  <2>4. \A i \in Imports : Working(i)' => (Working(i) /\ i = j /\ \A r \in rows' : r.batch = i => r.pos \notin todo'[i])
    BY <1>6, <1>i, <2>2, <2>3 DEF FirstPass, Loaded, Working
  <2>5. \A i \in Imports : pc'[i] \in {"new", "open"} => i # j
    BY <1>6 DEF Working
  <2> QED
    BY <1>6, <1>i, <2>1, <2>4, <2>5 DEF FirstPass
<1>7. ASSUME NEW j \in Jobs, NEW p \in todo[j], Skip(j, p) \/ Hold(j, p) PROVE FirstPass'
  <2>1. PICK status, c : status \in Status /\ pc[j] = "line" /\ Note(j, p, status, c)
    BY <1>7 DEF Skip, Hold, Turn, Status
  <2>2. CASE Done(j, p) /\ rows' = Written(j, p, status, 0)
    BY <1>6, <1>t, <2>1, <2>2 DEF Note, Done, TypeOK, Loaded, Working
  <2>3. CASE Fails(j, p) /\ UNCHANGED rows
    BY <1>6, <1>t, <2>1, <2>3 DEF Note, Fails, TypeOK, Loaded, Working
  <2> QED
    BY <2>1, <2>2, <2>3 DEF Note
<1>8. ASSUME NEW j \in Jobs, NEW p \in todo[j], Apply(j, p) PROVE FirstPass'
  <2>1. pc[j] = "line" /\ Loaded(j) /\ UNCHANGED <<rows, stats, batches>>
    BY <1>8 DEF Apply, Turn, Loaded
  <2>2. ASSUME NEW s, NEW created, Wrote(j, p, s, created) PROVE FirstPass'
    BY <1>6, <1>t, <2>1, <2>2 DEF Wrote, TypeOK, Working
  <2>3. CASE Fails(j, p) /\ count' = Plus(j, {"total"})
    BY <1>6, <1>t, <2>1, <2>3 DEF Fails, TypeOK, Working
  <2> QED
    BY <1>8, <2>2, <2>3 DEF Apply
<1>9. ASSUME NEW j \in Jobs, Record(j) PROVE FirstPass'
  <2>1. pc[j] = "record" /\ Loaded(j) /\ hand[j].pos \in todo[j] /\ UNCHANGED <<stats, batches, count>>
    BY <1>9, <1>t DEF Record, Loaded, HandTrue
  <2>2. \A i \in Jobs \ {j} : ~ Working(i)
    BY <1>t, <2>1, Alone DEF Underway
  <2>3. CASE Fails(j, hand[j].pos) /\ UNCHANGED rows
    BY <1>t, <1>i, <2>1, <2>3 DEF Fails, FirstPass, Working, TypeOK
  <2>4. CASE /\ Done(j, hand[j].pos)
             /\ rows' = Written(j, hand[j].pos, IF hand[j].created THEN "CREATED" ELSE "UPDATED",
                                hand[j].sale)
    <3>1. \A r \in rows' : r \in rows \/ r.pos = hand[j].pos
      BY <2>4 DEF Written, NewRow
    <3>2. pc' = [pc EXCEPT ![j] = "line"] /\ todo' = [todo EXCEPT ![j] = @ \ {hand[j].pos}]
      BY <2>4 DEF Done
    <3>3. \A i \in Imports : Working(i)' => (Working(i) /\ i = j /\ \A r \in rows' : r.batch = i => r.pos \notin todo'[i])
      BY <1>t, <1>i, <2>1, <2>2, <3>1, <3>2 DEF FirstPass, Working, TypeOK
    <3>4. \A i \in Imports : pc'[i] \in {"new", "open"} => pc'[i] = pc[i]
      BY <1>t, <1>i, <3>2 DEF TypeOK
    <3> QED
      BY <1>i, <2>1, <3>3, <3>4 DEF FirstPass
  <2> QED
    BY <1>9, <2>3, <2>4 DEF Record
<1>10. ASSUME NEW j \in Jobs, Catch(j) PROVE FirstPass'
  <2>1. pc[j] = "failed" /\ Loaded(j) /\ hand[j].pos \in todo[j] /\ UNCHANGED <<stats, batches>>
    BY <1>10, <1>t DEF Catch, Loaded, HandTrue
  <2>2. count' = Plus(j, {"pending"}) /\ rows' = Written(j, hand[j].pos, "PENDING", 0) /\ Done(j, hand[j].pos)
    BY <1>10 DEF Catch, Caught
  <2> QED
    BY <1>6, <1>t, <2>1, <2>2 DEF Done, Working, TypeOK, Status
<1>11. ASSUME NEW j \in Jobs, Close(j) PROVE FirstPass'
  <2>1. /\ pc[j] = "line" /\ Ends(j, "done") /\ UNCHANGED <<rows, batches>> /\ batch[j] \in batches
        /\ Working(j) /\ \A b \in Imports \ {batch[j]} : stats'[b] = stats[b]
    BY <1>11, <1>t DEF Close, Working, BatchesOpen, TypeOK
  <2>2. \A i \in Jobs \ {j} : ~ Working(i)
    BY <1>t, <2>1, Alone DEF Underway
  <2>3. \A i \in Imports : ~ Working(i)' /\ (pc'[i] \in {"new", "open"} => pc'[i] = pc[i] /\ count'[i] = count[i])
    BY <1>t, <1>i, <2>1, <2>2 DEF Ends, Working, TypeOK
  <2> QED
    BY <2>1, <2>3 DEF FirstPass
<1>12. ASSUME NEW j \in Jobs, Abort(j) PROVE FirstPass'
  <2>1. Working(j) /\ Ends(j, "failure") /\ UNCHANGED <<rows, batches, stats>>
    BY <1>12 DEF Abort, Working
  <2>2. \A i \in Jobs \ {j} : ~ Working(i)
    BY <1>t, <2>1, Alone DEF Underway, Working
  <2>3. \A i \in Imports : ~ Working(i)' /\ (pc'[i] \in {"new", "open"} => pc'[i] = pc[i] /\ count'[i] = count[i])
    BY <1>t, <1>i, <2>1, <2>2 DEF Ends, Working, TypeOK
  <2> QED
    BY <2>1, <2>3 DEF FirstPass
<1>13. CASE Crash
  <2>1. \A i \in Imports : ~ Working(i)' /\ (pc'[i] \in {"new", "open"} => count'[i] = NoStats)
    BY <1>13, <1>i DEF Crash, Working, Underway
  <2> QED
    BY <1>13, <2>1 DEF Crash, FirstPass
<1>14. CASE Map \/ UNCHANGED vars
  BY <1>14 DEF Map, vars, job, ghost, FirstPass, Working
<1> QED
  BY <1>1, <1>2, <1>3, <1>4, <1>5, <1>7, <1>8, <1>9, <1>10, <1>11, <1>12, <1>13, <1>14
     DEF Next, Step, Finished

\* What is counted are numbers.
LEMMA NumbersTyped ==
    ASSUME RowsTrue, NEW b
    PROVE  Cardinality(RowsOf(b)) \in Nat /\ \A st : Number(b, st) \in Nat
<1>1. \A S : S \subseteq rows => Cardinality(S) \in Nat
  BY FS_Subset, FS_CardinalityType DEF RowsTrue
<1> QED
  BY <1>1 DEF RowsOf, Number

\* What an import counts stays true of its rows.
LEMMA CountsTrueStep == IInv /\ FirstPass /\ CountsTrue /\ [Next]_vars => CountsTrue'
<1> SUFFICES ASSUME IInv, FirstPass, CountsTrue, [Next]_vars,
                    NEW i \in Imports, Working(i)', i \notin damaged'
             PROVE  CountTrue(i)'
  BY DEF CountsTrue
<1>t. TypeOK /\ LockHeld /\ BatchesOpen /\ RowsTrue /\ HandTrue
  BY DEF IInv
<1>i. Imports \subseteq Jobs /\ (\A j \in Imports : j \notin Reprocesses) /\ i \in Jobs
  BY ImportsAssumption DEF Jobs
<1>f. \A f \in {"total", "created", "updated", "skipped", "pending"} : f \in DOMAIN NoStats
  BY Fields
<1>s. {"CREATED", "UPDATED", "SKIPPED", "PENDING"} = Status
  BY DEF Status
<1>n. /\ count[i].total \in Nat /\ count[i].created \in Nat /\ count[i].updated \in Nat
      /\ count[i].skipped \in Nat /\ count[i].pending \in Nat /\ hand[i].created \in BOOLEAN
  BY <1>t, <1>i DEF TypeOK, Stats, Hand
<1>0. ASSUME Working(i), UNCHANGED <<rows, damaged>>, count'[i] = count[i],
             hand'[i] = hand[i], pc'[i] = pc[i] \/ {pc[i], pc'[i]} \cap {"record", "failed"} = {}
      PROVE  CountTrue(i)'
  BY <1>0 DEF CountsTrue, CountTrue, RowsOf, Number
<1>1. ASSUME NEW j \in Jobs, Begin(j) \/ Load(j) PROVE CountTrue(i)'
  <2>1. /\ UNCHANGED <<rows, damaged, count, hand>> /\ Working(i)
        /\ pc'[i] = pc[i] \/ {pc[i], pc'[i]} \cap {"record", "failed"} = {}
    BY <1>1, <1>t, <1>i DEF Begin, Load, Working, TypeOK, ghost
  <2> QED
    BY <1>0, <2>1
<1>2. ASSUME NEW j \in Jobs, Reject(j) PROVE CountTrue(i)'
  <2>1. i # j /\ Working(i) /\ UNCHANGED <<rows, damaged>> /\ count'[i] = count[i] /\ hand'[i] = hand[i]
        /\ pc'[i] = pc[i]
    BY <1>2, <1>t, <1>i DEF Reject, Ends, Working, TypeOK, ghost
  <2> QED
    BY <1>0, <2>1
<1>3. ASSUME NEW j \in Jobs, Open(j) PROVE CountTrue(i)'
  <2>1. j \in Imports /\ pc[j] = "open" /\ j \notin batches /\ UNCHANGED <<rows, count>>
        /\ pc' = [pc EXCEPT ![j] = "load"]
    BY <1>3, <1>t DEF Open, BatchesOpen
  <2>2. i = j /\ pc'[i] = "load"
    BY <1>t, <1>i, <2>1, Alone DEF Underway, Working, TypeOK
  <2>3. RowsOf(j)' = {} /\ \A st : {r \in rows' : r.batch = j /\ r.status = st} = {}
    BY <1>t, <2>1 DEF RowsOf, RowsTrue
  <2>4. Cardinality(RowsOf(j))' = 0 /\ \A st : Number(j, st)' = 0
    BY <2>3, FS_EmptySet DEF Number
  <2>5. count'[i] = NoStats
    BY <2>1, <2>2 DEF FirstPass
  <2> QED
    BY <2>2, <2>4, <2>5 DEF CountTrue, NoStats
<1>4. ASSUME NEW j \in Jobs, OpenAgain(j) PROVE CountTrue(i)'
  <2>1. j \in Reprocesses /\ pc[j] = "open" /\ pc' = [pc EXCEPT ![j] = "load"]
    BY <1>4 DEF OpenAgain
  <2>2. Working(i)
    BY <1>t, <1>i, <2>1 DEF Working, TypeOK
  <2> QED
    BY <1>t, <1>i, <2>1, <2>2, Alone DEF Underway
<1>5. ASSUME NEW j \in Jobs, NEW p \in todo[j], Ignore(j, p) PROVE CountTrue(i)'
  <2>1. pc[j] = "line" /\ UNCHANGED <<rows, damaged, pc, hand>> /\ Working(i)
    BY <1>5 DEF Ignore, Turn, Working, ghost
  <2>2. i = j
    BY <1>t, <1>i, <2>1, Alone DEF Underway
  <2>3. count'[i] = [count[i] EXCEPT !.ignored = @ + 1]
    BY <1>5, <1>t, <1>i, <2>2 DEF Ignore, CountIgnored, TypeOK
  <2>4. /\ count'[i].total = count[i].total /\ count'[i].created = count[i].created
        /\ count'[i].updated = count[i].updated /\ count'[i].skipped = count[i].skipped
        /\ count'[i].pending = count[i].pending
    BY <1>t, <1>i, <2>3 DEF TypeOK, Stats
  <2> QED
    BY <2>1, <2>4 DEF CountsTrue, CountTrue, RowsOf, Number
<1>6. ASSUME NEW j \in Jobs, Loaded(j), i # j, pc'[i] = pc[i] PROVE FALSE
  BY <1>6, <1>t, <1>i, Alone DEF Working, Loaded, Underway
<1>7. ASSUME NEW p \in todo[i], Skip(i, p) \/ Hold(i, p) PROVE CountTrue(i)'
  <2>1. PICK sc \in {<<"SKIPPED", "skipped">>, <<"PENDING", "pending">>} : Note(i, p, sc[1], sc[2])
    BY <1>7 DEF Skip, Hold
  <2>2. pc[i] = "line" /\ Working(i) /\ batch[i] = i
    BY <1>7, <1>t, OwnBatch DEF Skip, Hold, Turn, Working
  <2>3. Done(i, p) /\ rows' = Written(i, p, sc[1], 0) /\ UNCHANGED damaged
    BY <2>1, <2>2 DEF Note, CountedTwice
  <2>4. \A f \in DOMAIN NoStats : count'[i][f] = count[i][f] + (IF f \in {"total", sc[2]} THEN 1 ELSE 0)
    <3>1. count' = Plus(i, {"total", sc[2]})
      BY <2>1 DEF Note
    <3> DEFINE names == {"total", sc[2]}
    <3>2. count' = Plus(i, names)
      BY <3>1
    <3> HIDE DEF names
    <3>3. \A f \in DOMAIN NoStats : count'[i][f] = count[i][f] + (IF f \in names THEN 1 ELSE 0)
      BY <1>t, <1>i, <3>2, PlusFields
    <3> QED
      BY <3>3 DEF names
  <2>5. pc'[i] = "line"
    BY <1>t, <1>i, <2>3 DEF Done, TypeOK
  <2>6. /\ Cardinality(RowsOf(i))' = Cardinality(RowsOf(i)) + 1
        /\ Cardinality(RowsOf(i)) \in Nat
        /\ \A st \in Status : /\ Number(i, st)' = Number(i, st) + (IF st = sc[1] THEN 1 ELSE 0)
                              /\ Number(i, st) \in Nat
    BY <1>t, <1>s, <2>2, <2>3, RowAdded
  <2>7. CountTrue(i)
    BY <2>2, <2>3 DEF CountsTrue
  <2>8. CASE sc = <<"SKIPPED", "skipped">>
    BY <1>f, <1>s, <1>n, <2>2, <2>4, <2>5, <2>6, <2>7, <2>8 DEF CountTrue
  <2>9. CASE sc = <<"PENDING", "pending">>
    BY <1>f, <1>s, <1>n, <2>2, <2>4, <2>5, <2>6, <2>7, <2>9 DEF CountTrue
  <2> QED
    BY <2>8, <2>9
<1>8. ASSUME NEW p \in todo[i], Apply(i, p) PROVE CountTrue(i)'
  <2>1. pc[i] = "line" /\ Working(i) /\ UNCHANGED <<rows, damaged>>
    BY <1>8 DEF Apply, Turn, Working, ghost
  <2>2. CountTrue(i) /\ Cardinality(RowsOf(i))' = Cardinality(RowsOf(i)) /\ \A st : Number(i, st)' = Number(i, st)
    BY <2>1 DEF CountsTrue, RowsOf, Number
  <2>n. Cardinality(RowsOf(i)) \in Nat /\ \A st : Number(i, st) \in Nat
    BY <1>t, NumbersTyped
  <2>3. ASSUME NEW s, NEW created \in BOOLEAN, Wrote(i, p, s, created) PROVE CountTrue(i)'
    <3>1. pc'[i] = "record" /\ hand'[i].created = created
      BY <1>t, <1>i, <2>3 DEF Wrote, TypeOK
    <3>2. \A f \in DOMAIN NoStats : count'[i][f] = count[i][f]
             + (IF f \in {"total", IF created THEN "created" ELSE "updated"} THEN 1 ELSE 0)
      <4> DEFINE names == {"total", IF created THEN "created" ELSE "updated"}
      <4>1. count' = Plus(i, names)
        BY <2>3 DEF Wrote
      <4> HIDE DEF names
      <4>2. \A f \in DOMAIN NoStats : count'[i][f] = count[i][f] + (IF f \in names THEN 1 ELSE 0)
        BY <1>t, <1>i, <4>1, PlusFields
      <4> QED
        BY <4>2 DEF names
    <3> QED
      BY <1>f, <1>n, <2>1, <2>2, <2>n, <3>1, <3>2 DEF CountTrue
  <2>4. CASE Fails(i, p) /\ count' = Plus(i, {"total"})
    <3>1. pc'[i] = "failed"
      BY <1>t, <1>i, <2>4 DEF Fails, TypeOK
    <3>2. \A f \in DOMAIN NoStats : count'[i][f] = count[i][f] + (IF f \in {"total"} THEN 1 ELSE 0)
      BY <1>t, <1>i, <2>4, PlusFields
    <3> QED
      BY <1>f, <1>n, <2>1, <2>2, <2>n, <3>1, <3>2 DEF CountTrue
  <2> QED
    BY <1>8, <2>3, <2>4 DEF Apply
<1>9. CASE Record(i)
  <2>1. pc[i] = "record" /\ Working(i) /\ hand[i].pos \in todo[i] /\ batch[i] = i /\ count' = count
    BY <1>9, <1>t, <1>i, OwnBatch DEF Record, Working, HandTrue
  <2> DEFINE status == IF hand[i].created THEN "CREATED" ELSE "UPDATED"
  <2>2. Done(i, hand[i].pos) /\ rows' = Written(i, hand[i].pos, status, hand[i].sale) /\ UNCHANGED damaged
    BY <1>9, <2>1 DEF Record, CountedTwice
  <2>3. pc'[i] = "line"
    BY <1>t, <1>i, <2>2 DEF Done, TypeOK
  <2>4. /\ Cardinality(RowsOf(i))' = Cardinality(RowsOf(i)) + 1
        /\ Cardinality(RowsOf(i)) \in Nat
        /\ \A st \in Status : /\ Number(i, st)' = Number(i, st) + (IF st = status THEN 1 ELSE 0)
                              /\ Number(i, st) \in Nat
    <3>1. status \in Status
      BY <1>s
    <3> HIDE DEF status
    <3> QED
      BY <1>t, <2>1, <2>2, <3>1, RowAdded
  <2>5. CountTrue(i)
    BY <2>1, <2>2 DEF CountsTrue
  <2> QED
    BY <1>s, <1>n, <2>1, <2>3, <2>4, <2>5 DEF CountTrue
<1>10. CASE Catch(i)
  <2>1. pc[i] = "failed" /\ Working(i) /\ hand[i].pos \in todo[i] /\ batch[i] = i /\ UNCHANGED damaged
    BY <1>10, <1>t, <1>i, OwnBatch DEF Catch, Working, HandTrue, ghost
  <2>2. count' = Plus(i, {"pending"}) /\ rows' = Written(i, hand[i].pos, "PENDING", 0) /\ Done(i, hand[i].pos)
    BY <1>10 DEF Catch, Caught
  <2>3. pc'[i] = "line"
    BY <1>t, <1>i, <2>2 DEF Done, TypeOK
  <2>4. \A f \in DOMAIN NoStats : count'[i][f] = count[i][f] + (IF f \in {"pending"} THEN 1 ELSE 0)
    BY <1>t, <1>i, <2>2, PlusFields
  <2>5. /\ Cardinality(RowsOf(i))' = Cardinality(RowsOf(i)) + 1
        /\ Cardinality(RowsOf(i)) \in Nat
        /\ \A st \in Status : /\ Number(i, st)' = Number(i, st) + (IF st = "PENDING" THEN 1 ELSE 0)
                              /\ Number(i, st) \in Nat
    BY <1>t, <1>s, <2>1, <2>2, RowAdded
  <2>6. CountTrue(i)
    BY <2>1 DEF CountsTrue
  <2> QED
    BY <1>f, <1>s, <1>n, <2>1, <2>3, <2>4, <2>5, <2>6 DEF CountTrue
<1>11. ASSUME NEW j \in Jobs, NEW p \in todo[j], Skip(j, p) \/ Hold(j, p) \/ Apply(j, p) PROVE CountTrue(i)'
  <2>1. Loaded(j) /\ (i # j => pc'[i] = pc[i])
    BY <1>11, <1>t, <1>i DEF Skip, Hold, Apply, Turn, Loaded, Note, Wrote, Fails, Done, TypeOK
  <2> QED
    BY <1>6, <1>7, <1>8, <1>11, <2>1
<1>12. ASSUME NEW j \in Jobs, Record(j) \/ Catch(j) PROVE CountTrue(i)'
  <2>1. Loaded(j) /\ (i # j => pc'[i] = pc[i])
    BY <1>12, <1>t, <1>i DEF Record, Catch, Loaded, Fails, Done, TypeOK
  <2> QED
    BY <1>6, <1>9, <1>10, <1>12, <2>1
<1>13. ASSUME NEW j \in Jobs, Close(j) \/ Abort(j) PROVE CountTrue(i)'
  <2>1. Working(j) /\ pc'[j] \in {"done", "failure"} /\ \A k \in Jobs \ {j} : pc'[k] = pc[k]
    BY <1>13, <1>t DEF Close, Abort, Ends, Working, TypeOK
  <2>2. \A k \in Jobs \ {j} : ~ Working(k)
    BY <1>t, <2>1, Alone DEF Underway, Working
  <2> QED
    BY <1>i, <2>1, <2>2 DEF Working
<1>14. CASE Crash
  BY <1>14, <1>i DEF Crash, Working, Underway
<1>15. CASE Map \/ UNCHANGED vars
  BY <1>0, <1>15 DEF Map, vars, job, ghost, Working
<1> QED
  BY <1>1, <1>2, <1>3, <1>4, <1>5, <1>11, <1>12, <1>13, <1>14, <1>15 DEF Next, Step, Finished

\* What a batch says of its rows stays true.
LEMMA StatsTrueStep == IInv /\ FirstPass /\ CountsTrue /\ StatsTrue /\ [Next]_vars => StatsTrue'
<1> SUFFICES ASSUME IInv, FirstPass, CountsTrue, StatsTrue, [Next]_vars,
                    NEW b \in batches', b \notin damaged', stats'[b] # NULL,
                    \A j \in Jobs : Loaded(j)' => batch'[j] # b
             PROVE  stats'[b] = ComputeBatchStats(b, stats[b].ignored)'
  BY DEF StatsTrue
<1>t. TypeOK /\ LockHeld /\ BatchesOpen /\ RowsTrue /\ HandTrue
  BY DEF IInv
<1>i. Imports \subseteq Jobs /\ Jobs = Imports \cup Reprocesses /\ \A j \in Imports : j \notin Reprocesses
  BY ImportsAssumption DEF Jobs
<1>0. ASSUME b \in batches, b \notin damaged, stats'[b] = stats[b], RowsOf(b)' = RowsOf(b),
             \A j \in Jobs : Loaded(j) => batch[j] # b
      PROVE  stats'[b] = ComputeBatchStats(b, stats[b].ignored)'
  <2>1. stats[b] = ComputeBatchStats(b, stats[b].ignored)
    BY <1>0 DEF StatsTrue
  <2>2. \A i : ComputeBatchStats(b, i)' = ComputeBatchStats(b, i)
    BY <1>0, OtherRows
  <2> QED
    BY <1>0, <2>1, <2>2 DEF ComputeBatchStats, Number
<1>1. ASSUME NEW j \in Jobs, Begin(j) \/ Load(j) PROVE stats'[b] = ComputeBatchStats(b, stats[b].ignored)'
  <2>1. /\ UNCHANGED <<rows, stats, batches, damaged, batch>>
        /\ \A k \in Jobs : Loaded(k) => Loaded(k)'
    BY <1>1, <1>t DEF Begin, Load, Loaded, TypeOK, ghost
  <2> QED
    BY <1>0, <2>1 DEF RowsOf
<1>2. ASSUME NEW j \in Jobs, Reject(j) \/ OpenAgain(j)
      PROVE stats'[b] = ComputeBatchStats(b, stats[b].ignored)'
  <2>1. /\ UNCHANGED <<rows, stats, batches, damaged>> /\ pc[j] = "open"
        /\ \A k \in Jobs \ {j} : pc'[k] = pc[k]
        /\ \A k \in Jobs \ {j} : batch'[k] = batch[k]
    BY <1>2, <1>t DEF Reject, OpenAgain, Ends, TypeOK, ghost
  <2>2. \A k \in Jobs : Loaded(k) => Loaded(k)' /\ batch'[k] = batch[k]
    BY <2>1 DEF Loaded
  <2> QED
    BY <1>0, <2>1, <2>2 DEF RowsOf
<1>3. ASSUME NEW j \in Jobs, Open(j) PROVE stats'[b] = ComputeBatchStats(b, stats[b].ignored)'
  <2>1. /\ j \in Imports /\ pc[j] = "open" /\ j \notin batches /\ UNCHANGED <<rows, stats, damaged>>
        /\ batches' = batches \cup {j}
    BY <1>3, <1>t DEF Open, BatchesOpen, ghost
  <2>2. b \in batches
    BY <2>1 DEF FirstPass
  <2>3. \A k \in Jobs : ~ Loaded(k)
    BY <1>t, <2>1, Alone DEF Underway, Loaded
  <2> QED
    BY <1>0, <2>1, <2>2, <2>3 DEF RowsOf
<1>6. ASSUME NEW j \in Jobs, Loaded(j), Loaded(j)', UNCHANGED <<batch, batches, stats>>,
             damaged \subseteq damaged', batch[j] # b => RowsOf(b)' = RowsOf(b)
      PROVE  stats'[b] = ComputeBatchStats(b, stats[b].ignored)'
  <2>1. \A k \in Jobs \ {j} : ~ Loaded(k)
    BY <1>6, <1>t, Alone DEF Loaded, Underway
  <2> QED
    BY <1>0, <1>6, <2>1
<1>7. ASSUME NEW j \in Jobs, NEW p \in todo[j], Ignore(j, p) \/ Apply(j, p)
      PROVE  stats'[b] = ComputeBatchStats(b, stats[b].ignored)'
  <2>1. Loaded(j) /\ Loaded(j)' /\ UNCHANGED <<rows, batch, batches, stats, damaged>>
    BY <1>7, <1>t DEF Ignore, Apply, Turn, Wrote, Fails, Loaded, TypeOK, ghost
  <2> QED
    BY <1>6, <2>1 DEF RowsOf
<1>8. ASSUME NEW j \in Jobs, NEW p \in todo[j], Skip(j, p) \/ Hold(j, p)
      PROVE  stats'[b] = ComputeBatchStats(b, stats[b].ignored)'
  <2>1. PICK status, c : pc[j] = "line" /\ Note(j, p, status, c)
    BY <1>8 DEF Skip, Hold, Turn
  <2>2. Loaded(j) /\ Loaded(j)' /\ UNCHANGED <<batch, batches, stats>> /\ damaged \subseteq damaged'
    BY <1>t, <2>1 DEF Note, Done, Fails, CountedTwice, Loaded, TypeOK
  <2>3. batch[j] # b => RowsOf(b)' = RowsOf(b)
    BY <2>1, RowOfOther DEF Note, RowsOf
  <2> QED
    BY <1>6, <2>2, <2>3
<1>9. ASSUME NEW j \in Jobs, Record(j) \/ Catch(j) PROVE stats'[b] = ComputeBatchStats(b, stats[b].ignored)'
  <2>1. Loaded(j) /\ Loaded(j)' /\ UNCHANGED <<batch, batches, stats>> /\ damaged \subseteq damaged'
    BY <1>9, <1>t DEF Record, Catch, Done, Fails, CountedTwice, Loaded, TypeOK, ghost
  <2>2. batch[j] # b => RowsOf(b)' = RowsOf(b)
    BY <1>9, RowOfOther DEF Record, Catch, Caught, RowsOf
  <2> QED
    BY <1>6, <2>1, <2>2
<1>11. ASSUME NEW j \in Jobs, Close(j) PROVE stats'[b] = ComputeBatchStats(b, stats[b].ignored)'
  <2>1. /\ pc[j] = "line" /\ Working(j) /\ UNCHANGED <<rows, batches>> /\ batch[j] \in batches /\ batch[j] \in Imports
        /\ stats' = [stats EXCEPT ![batch[j]] = IF j \in Imports THEN count[j]
                                                ELSE ComputeBatchStats(batch[j], count[j].ignored)]
        /\ damaged' = IF j \in Imports THEN damaged ELSE damaged \ {batch[j]}
    BY <1>11, <1>t DEF Close, Working, BatchesOpen, TypeOK
  <2>2. \A k \in Jobs \ {j} : ~ Loaded(k)
    BY <1>t, <2>1, Alone DEF Underway
  <2>3. CASE b # batch[j]
    <3>1. stats'[b] = stats[b] /\ b \in batches /\ b \notin damaged
      BY <1>t, <2>1, <2>3 DEF TypeOK
    <3> QED
      BY <1>0, <2>1, <2>2, <2>3, <3>1 DEF RowsOf
  <2>4. CASE b = batch[j] /\ j \notin Imports
    <3>1. stats'[b] = ComputeBatchStats(b, count[j].ignored)
      BY <1>t, <2>1, <2>4 DEF TypeOK
    <3> QED
      BY <2>1, <3>1 DEF ComputeBatchStats, Number
  <2>5. CASE b = batch[j] /\ j \in Imports
    <3>1. b = j /\ stats'[b] = count[j] /\ j \notin damaged
      BY <1>t, <2>1, <2>5, OwnBatch DEF TypeOK
    <3>2. CountTrue(j)
      BY <2>1, <2>5, <3>1 DEF CountsTrue
    <3>3. Cardinality(RowsOf(j)) \in Nat /\ \A st : Number(j, st) \in Nat
      BY <1>t, NumbersTyped
    <3>4. /\ count[j].total = Cardinality(RowsOf(j)) /\ count[j].created = Number(j, "CREATED")
          /\ count[j].updated = Number(j, "UPDATED") /\ count[j].skipped = Number(j, "SKIPPED")
          /\ count[j].pending = Number(j, "PENDING")
      BY <2>1, <3>2, <3>3 DEF CountTrue
    <3>5. count[j] \in Stats
      BY <1>t DEF TypeOK
    <3>6. count[j] = ComputeBatchStats(j, count[j].ignored)
      BY <3>4, <3>5 DEF Stats, ComputeBatchStats, RowsOf
    <3> QED
      BY <2>1, <3>1, <3>6 DEF ComputeBatchStats, Number
  <2> QED
    BY <2>3, <2>4, <2>5
<1>12. ASSUME UNCHANGED <<rows, batches, stats>>, damaged \subseteq damaged',
              \A k \in Reprocesses : Loaded(k) => batch[k] \in damaged'
       PROVE  stats'[b] = ComputeBatchStats(b, stats[b].ignored)'
  <2>1. \A k \in Imports : Loaded(k) => batch[k] # b
    <3>1. \A k \in Imports : Loaded(k) => Working(k) /\ stats[k] = NULL
      BY DEF FirstPass, Loaded, Working
    <3> QED
      BY <1>12, <1>t, <3>1, OwnBatch
  <2> QED
    BY <1>0, <1>12, <1>i, <2>1 DEF RowsOf
<1>13. ASSUME NEW j \in Jobs, Abort(j) PROVE stats'[b] = ComputeBatchStats(b, stats[b].ignored)'
  <2>1. /\ UNCHANGED <<rows, batches, stats>> /\ Interrupted({j}) /\ pc[j] \in Underway
    BY <1>13 DEF Abort, Underway
  <2>2. \A k \in Jobs \ {j} : ~ Loaded(k)
    BY <1>t, <2>1, Alone
  <2>3. damaged \subseteq damaged' /\ \A k \in Reprocesses : Loaded(k) => batch[k] \in damaged'
    BY <1>i, <2>1, <2>2 DEF Interrupted, Loaded
  <2> QED
    BY <1>12, <2>1, <2>3
<1>14. CASE Crash
  <2>1. /\ UNCHANGED <<rows, batches, stats>>
        /\ Interrupted({j \in {k \in Jobs : pc[k] \in Underway} : pc[j] # "open"})
    BY <1>14 DEF Crash
  <2>2. damaged \subseteq damaged' /\ \A k \in Reprocesses : Loaded(k) => batch[k] \in damaged'
    BY <1>i, <2>1 DEF Interrupted, Loaded, Underway
  <2> QED
    BY <1>12, <2>1, <2>2
<1>15. CASE Map \/ UNCHANGED vars
  BY <1>0, <1>15 DEF Map, vars, job, ghost, Loaded, RowsOf
<1> QED
  BY <1>1, <1>2, <1>3, <1>7, <1>8, <1>9, <1>11, <1>13, <1>14, <1>15 DEF Next, Step, Finished

\* Only lines with data have rows, are taken up by a reprocessing, and fail.
DataRows ==
    /\ \A r \in rows : r.pos \in Data(r.batch)
    /\ \A j \in Jobs : pc[j] \in {"record", "failed"} => hand[j].pos \in Data(batch[j])
    /\ \A j \in Reprocesses : Working(j) => todo[j] \subseteq Data(batch[j])

\* Blank lines never get rows.
LEMMA DataRowsStep == IInv /\ DataRows /\ [Next]_vars => DataRows'
<1> SUFFICES ASSUME IInv, DataRows, [Next]_vars PROVE DataRows'
  OBVIOUS
<1>t. TypeOK /\ LockHeld /\ BatchesOpen /\ RowsTrue /\ HandTrue
  BY DEF IInv
<1>i. Reprocesses \subseteq Jobs /\ \A j \in Imports : j \notin Reprocesses
  BY ImportsAssumption DEF Jobs
<1>1. ASSUME NEW j \in Jobs, Begin(j) \/ Load(j) \/ Reject(j) PROVE DataRows'
  <2>1. /\ UNCHANGED <<rows, file, batch>>
        /\ \A k \in Jobs : pc'[k] \in {"record", "failed"} => pc'[k] = pc[k] /\ hand'[k] = hand[k]
        /\ \A k \in Jobs : Working(k)' => Working(k) /\ todo'[k] = todo[k]
    BY <1>1, <1>t DEF Begin, Load, Reject, Ends, Working, TypeOK, ghost
  <2> QED
    BY <1>i, <2>1 DEF DataRows, Data
<1>2. ASSUME NEW j \in Jobs, Open(j) PROVE DataRows'
  <2>1. /\ j \in Imports /\ pc[j] = "open" /\ j \notin batches /\ UNCHANGED rows
        /\ pc' = [pc EXCEPT ![j] = "load"]
    BY <1>2, <1>t DEF Open, BatchesOpen
  <2>2. \A k \in Jobs : ~ Working(k)
    BY <1>t, <2>1, Alone DEF Underway, Working
  <2>3. \A k \in Reprocesses : ~ Working(k)'
    BY <1>t, <1>i, <2>1, <2>2 DEF Working, TypeOK
  <2>4. \A k \in Jobs : pc'[k] \notin {"record", "failed"}
    BY <1>t, <2>1, <2>2 DEF Working, TypeOK
  <2>5. \A r \in rows : Data(r.batch)' = Data(r.batch)
    BY <1>2, <1>t, <2>1 DEF Open, RowsTrue, Data, TypeOK
  <2> QED
    BY <2>1, <2>3, <2>4, <2>5 DEF DataRows
<1>3. ASSUME NEW j \in Jobs, OpenAgain(j) PROVE DataRows'
  <2>1. PICK b \in batches :
          /\ batch' = [batch EXCEPT ![j] = b]
          /\ todo' = [todo EXCEPT ![j] = {r.pos : r \in Pending(b)}]
    BY <1>3 DEF OpenAgain, Found
  <2>2. pc[j] = "open" /\ pc' = [pc EXCEPT ![j] = "load"] /\ UNCHANGED <<rows, file>>
    BY <1>3 DEF OpenAgain
  <2>3. \A k \in Jobs : ~ Working(k)
    BY <1>t, <2>2, Alone DEF Underway, Working
  <2>4. \A k \in Jobs : Working(k)' => k = j /\ pc'[k] = "load"
    BY <1>t, <2>2, <2>3 DEF Working, TypeOK
  <2>5. batch'[j] = b /\ todo'[j] = {r.pos : r \in Pending(b)}
    BY <1>t, <2>1 DEF TypeOK
  <2>6. todo'[j] \subseteq Data(b)
    BY <2>5 DEF DataRows, Pending
  <2>7. \A x : Data(x)' = Data(x)
    BY <2>2 DEF Data
  <2>8. \A k \in Jobs : pc'[k] \notin {"record", "failed"}
    BY <2>4 DEF Working
  <2> QED
    BY <1>i, <2>2, <2>4, <2>5, <2>6, <2>7, <2>8 DEF DataRows
<1>4. ASSUME NEW j \in Jobs, NEW p \in todo[j], Ignore(j, p) PROVE DataRows'
  BY <1>4, <1>t, <1>i DEF Ignore, DataRows, Data, Working, TypeOK
<1>5. ASSUME NEW j \in Jobs, NEW p \in todo[j], p \in Data(batch[j]), Loaded(j), UNCHANGED <<file, batch>>,
             \A i \in Jobs \ {j} : pc'[i] = pc[i], todo'[j] \subseteq todo[j],
             pc'[j] \in {"record", "failed"} => hand'[j].pos = p,
             rows' = rows \/ \E status, s : rows' = Written(j, p, status, s)
      PROVE  DataRows'
  <2>1. \A i \in Jobs \ {j} : ~ Working(i) /\ ~ Working(i)'
    BY <1>5, <1>t, Alone DEF Working, Loaded, Underway
  <2>2. \A r \in rows' : r \in rows \/ (r.pos = p /\ r.batch = batch[j])
    BY <1>5 DEF Written, NewRow
  <2>3. \A x : Data(x)' = Data(x)
    BY <1>5 DEF Data
  <2>4. \A i \in Jobs : pc'[i] \in {"record", "failed"} => i = j
    BY <2>1 DEF Working
  <2>5. Working(j)
    BY <1>5 DEF Loaded, Working
  <2> QED
    BY <1>5, <1>i, <2>1, <2>2, <2>3, <2>4, <2>5 DEF DataRows
<1>6. ASSUME NEW j \in Jobs, NEW p \in todo[j], Skip(j, p) \/ Hold(j, p) PROVE DataRows'
  <2>1. PICK status, c : pc[j] = "line" /\ IsData(j, p) /\ Note(j, p, status, c)
    BY <1>6 DEF Skip, Hold, Turn
  <2>2. Loaded(j) /\ p \in Data(batch[j]) /\ UNCHANGED <<file, batch>>
    BY <1>t, <2>1, LineInFile DEF IsData, LineAt, Data, Loaded, Working, Note
  <2>3. CASE Done(j, p) /\ rows' = Written(j, p, status, 0)
    BY <1>5, <1>t, <2>2, <2>3 DEF Done, TypeOK
  <2>4. CASE Fails(j, p) /\ UNCHANGED rows
    BY <1>5, <1>t, <2>2, <2>4 DEF Fails, TypeOK, NoHand
  <2> QED
    BY <2>1, <2>3, <2>4 DEF Note
<1>7. ASSUME NEW j \in Jobs, NEW p \in todo[j], Apply(j, p) PROVE DataRows'
  <2>1. pc[j] = "line" /\ IsData(j, p) /\ UNCHANGED <<file, batch, rows>>
    BY <1>7 DEF Apply, Turn
  <2>2. Loaded(j) /\ p \in Data(batch[j])
    BY <1>t, <2>1, LineInFile DEF IsData, LineAt, Data, Loaded, Working
  <2>3. ASSUME NEW s, NEW created, Wrote(j, p, s, created) PROVE DataRows'
    BY <1>5, <1>t, <2>1, <2>2, <2>3 DEF Wrote, TypeOK
  <2>4. CASE Fails(j, p)
    BY <1>5, <1>t, <2>1, <2>2, <2>4 DEF Fails, TypeOK, NoHand
  <2> QED
    BY <1>7, <2>3, <2>4 DEF Apply
<1>8. ASSUME NEW j \in Jobs, Record(j) \/ Catch(j) PROVE DataRows'
  <2>1. pc[j] \in {"record", "failed"} /\ Loaded(j) /\ UNCHANGED <<file, batch>>
    BY <1>8 DEF Record, Catch, Loaded
  <2>2. hand[j].pos \in todo[j] /\ hand[j].pos \in Data(batch[j])
    BY <1>t, <2>1 DEF HandTrue, DataRows
  <2>3. rows' = rows \/ \E status, s : rows' = Written(j, hand[j].pos, status, s)
    BY <1>8 DEF Record, Catch, Caught
  <2>4. /\ \A i \in Jobs \ {j} : pc'[i] = pc[i]
        /\ todo'[j] \subseteq todo[j]
        /\ pc'[j] \in {"record", "failed"} => hand'[j].pos = hand[j].pos
    BY <1>8, <1>t DEF Record, Catch, Done, Fails, TypeOK, NoHand
  <2> QED
    BY <1>5, <2>1, <2>2, <2>3, <2>4
<1>9. ASSUME UNCHANGED <<rows, file>>, \A k \in Jobs : ~ Working(k)' PROVE DataRows'
  BY <1>9, <1>i DEF DataRows, Working, Data
<1>10. ASSUME NEW j \in Jobs, Close(j) \/ Abort(j) PROVE DataRows'
  <2>1. /\ Working(j) /\ UNCHANGED <<rows, file>> /\ pc'[j] \in {"done", "failure"}
        /\ \A k \in Jobs \ {j} : pc'[k] = pc[k]
    BY <1>10, <1>t DEF Close, Abort, Ends, Working, TypeOK
  <2>2. \A k \in Jobs \ {j} : ~ Working(k)
    BY <1>t, <2>1, Alone DEF Working, Underway
  <2> QED
    BY <1>9, <2>1, <2>2 DEF Working
<1>11. CASE Crash
  BY <1>9, <1>11 DEF Crash, Working, Underway
<1>12. CASE Map \/ UNCHANGED vars
  BY <1>12 DEF Map, vars, job, ghost, DataRows, Data, Working
<1> QED
  BY <1>1, <1>2, <1>3, <1>4, <1>6, <1>7, <1>8, <1>10, <1>11, <1>12 DEF Next, Step, Finished

\* The blank lines are those without data.
LEMMA BlanksFinite ==
    ASSUME TypeOK, NEW b \in Imports
    PROVE  /\ IsFiniteSet(Blanks(b))
           /\ Cardinality(Blanks(b)) = Len(file[b]) - Cardinality(Data(b))
<1>1. DOMAIN file[b] = 1..Len(file[b]) /\ Len(file[b]) \in Nat
  BY DEF TypeOK
<1>2. IsFiniteSet(1..Len(file[b])) /\ Cardinality(1..Len(file[b])) = Len(file[b])
  BY <1>1, FS_Interval
<1>3. Data(b) = DOMAIN file[b] \cap Data(b)
  BY DEF Data
<1>4. /\ IsFiniteSet(DOMAIN file[b] \ Data(b))
      /\ Cardinality(DOMAIN file[b] \ Data(b))
           = Cardinality(DOMAIN file[b]) - Cardinality(DOMAIN file[b] \cap Data(b))
  BY <1>1, <1>2, FS_Difference
<1> QED
  BY <1>1, <1>2, <1>3, <1>4 DEF Blanks

\* What a run knows of blank lines stays true.
LEMMA BlanksCountedStep ==
    IInv /\ FirstPass /\ DataRows /\ BlanksCounted /\ [Next]_vars => BlanksCounted'
<1> SUFFICES ASSUME IInv, FirstPass, DataRows, BlanksCounted, [Next]_vars PROVE BlanksCounted'
  OBVIOUS
<1>t. TypeOK /\ LockHeld /\ BatchesOpen /\ RowsTrue /\ HandTrue
  BY DEF IInv
<1>i. /\ Reprocesses \subseteq Jobs /\ Imports \subseteq Jobs /\ Jobs = Imports \cup Reprocesses
      /\ \A j \in Imports : j \notin Reprocesses
  BY ImportsAssumption DEF Jobs
<1>o. "ignored" \in DOMAIN NoStats
  BY Fields
<1>0. ASSUME file' = file PROVE \A b : Blanks(b)' = Blanks(b)
  BY <1>0 DEF Blanks, Data
<1>1. ASSUME UNCHANGED <<file, batches, stats, cut, batch>>,
             \A k \in Jobs : Working(k) <=> Working(k)',
             \A k \in Jobs : Working(k) => count'[k] = count[k] /\ todo'[k] = todo[k]
      PROVE  BlanksCounted'
  <2>1. \A b \in batches : Working(b)' <=> Working(b)
    BY <1>1, <1>t, <1>i DEF TypeOK
  <2> QED
    BY <1>0, <1>1, <1>i, <2>1 DEF BlanksCounted
<1>2. ASSUME NEW j \in Jobs, Begin(j) \/ Load(j) \/ Reject(j) PROVE BlanksCounted'
  <2>1. /\ UNCHANGED <<file, batches, stats, cut, batch>>
        /\ \A k \in Jobs : Working(k) <=> Working(k)'
        /\ \A k \in Jobs : Working(k) => count'[k] = count[k] /\ todo'[k] = todo[k]
    BY <1>2, <1>t DEF Begin, Load, Reject, Ends, Working, TypeOK, ghost
  <2> QED
    BY <1>1, <2>1
<1>3. ASSUME NEW j \in Jobs, Open(j) PROVE BlanksCounted'
  <2>1. /\ j \in Imports /\ pc[j] = "open" /\ j \notin batches /\ UNCHANGED <<stats, cut, count>>
        /\ pc' = [pc EXCEPT ![j] = "load"] /\ batches' = batches \cup {j}
    BY <1>3, <1>t DEF Open, BatchesOpen, ghost
  <2>2. PICK f \in Files : file' = [file EXCEPT ![j] = f] /\ todo' = [todo EXCEPT ![j] = DOMAIN f]
    BY <1>3 DEF Open
  <2>3. \A k \in Jobs : ~ Working(k) /\ (Working(k)' <=> k = j)
    BY <1>t, <2>1, Alone DEF Underway, Working, TypeOK
  <2>4. Blanks(j)' \ todo'[j] = {} /\ count'[j].ignored = 0
    BY <1>t, <1>i, <2>1, <2>2 DEF Blanks, TypeOK, FirstPass, NoStats
  <2>5. \A b \in batches : Blanks(b)' = Blanks(b) /\ b # j /\ b \in Jobs
    BY <1>t, <1>i, <2>1, <2>2 DEF Blanks, Data, TypeOK
  <2>6. Cardinality(Blanks(j) \ todo[j])' = 0
    BY <2>4, FS_EmptySet
  <2> QED
    BY <1>i, <2>1, <2>3, <2>4, <2>5, <2>6 DEF BlanksCounted
<1>4. ASSUME NEW j \in Jobs, OpenAgain(j) PROVE BlanksCounted'
  <2>1. PICK b \in batches :
          /\ batch' = [batch EXCEPT ![j] = b]
          /\ count' = [count EXCEPT ![j] = [NoStats EXCEPT !.ignored = ReadIgnored(b)]]
    BY <1>4 DEF OpenAgain, Found
  <2>2. /\ j \in Reprocesses /\ pc[j] = "open" /\ pc' = [pc EXCEPT ![j] = "load"]
        /\ UNCHANGED <<file, batches, stats, cut>>
    BY <1>4 DEF OpenAgain, ghost
  <2>3. \A k \in Jobs : ~ Working(k) /\ (Working(k)' <=> k = j)
    BY <1>t, <2>2, Alone DEF Underway, Working, TypeOK
  <2>4. batch'[j] = b /\ count'[j].ignored = ReadIgnored(b) /\ b \in Jobs /\ b # j
    BY <1>t, <1>i, <2>1, <2>2 DEF TypeOK, NoStats
  <2>5. b \notin cut => count'[j].ignored = Cardinality(Blanks(b))
    BY <2>3, <2>4 DEF BlanksCounted, ReadIgnored
  <2>6. \A x \in batches : ~ Working(x) /\ x \in Imports
    BY <1>t, <1>i, <2>3 DEF TypeOK
  <2>7. (\A x : Blanks(x)' = Blanks(x)) /\ \A k \in Imports : ~ Working(k)'
    BY <1>0, <1>i, <2>2, <2>3
  <2> QED
    BY <1>i, <2>2, <2>3, <2>4, <2>5, <2>6, <2>7 DEF BlanksCounted
<1>5. ASSUME NEW j \in Jobs, NEW p \in todo[j], Ignore(j, p) PROVE BlanksCounted'
  <2>1. /\ pc[j] = "line" /\ Working(j) /\ ~ IsData(j, p) /\ UNCHANGED <<file, batches, stats, cut, batch, pc>>
        /\ count' = CountIgnored(j) /\ todo' = [todo EXCEPT ![j] = @ \ {p}]
    BY <1>5 DEF Ignore, Turn, Working, ghost
  <2>2. p \in Blanks(batch[j])
    BY <1>t, <2>1, LineInFile DEF IsData, LineAt, Blanks, Data
  <2>3. j \in Imports
    BY <1>i, <2>1, <2>2 DEF DataRows, Blanks
  <2>4. \A k \in Jobs \ {j} : ~ Working(k)
    BY <1>t, <2>1, Alone DEF Underway
  <2>5. batch[j] = j /\ todo'[j] = todo[j] \ {p} /\ count'[j].ignored = count[j].ignored + 1
    <3>1. count \in [Jobs -> Stats] /\ todo \in [Jobs -> SUBSET Nat]
      BY <1>t DEF TypeOK
    <3>2. count'[j] = [count[j] EXCEPT !.ignored = @ + 1]
      BY <2>1, <3>1 DEF CountIgnored
    <3>3. count'[j].ignored = count[j].ignored + 1
      BY <3>1, <3>2 DEF Stats
    <3> QED
      BY <1>t, <2>1, <2>3, <3>1, <3>3, OwnBatch
  <2>6. IsFiniteSet(Blanks(j) \ todo[j])
    BY <1>t, <2>3, BlanksFinite, FS_Difference
  <2>7. Blanks(j) \ todo'[j] = (Blanks(j) \ todo[j]) \cup {p} /\ p \notin Blanks(j) \ todo[j]
    BY <2>2, <2>5
  <2>8. Cardinality(Blanks(j) \ todo'[j]) = Cardinality(Blanks(j) \ todo[j]) + 1
    BY <2>6, <2>7, FS_AddElement
  <2>9. count'[j].ignored = Cardinality(Blanks(j) \ todo'[j])
    BY <2>1, <2>3, <2>5, <2>8 DEF BlanksCounted
  <2>10. \A x : Blanks(x)' = Blanks(x) /\ (Working(x)' <=> Working(x))
    BY <1>0, <2>1 DEF Working
  <2> QED
    BY <1>i, <2>1, <2>3, <2>4, <2>9, <2>10 DEF BlanksCounted
<1>6. ASSUME NEW j \in Jobs, NEW p \in Data(batch[j]), Loaded(j), Loaded(j)',
             UNCHANGED <<file, batches, stats, cut, batch>>,
             count'[j].ignored = count[j].ignored, \A k \in Jobs \ {j} : pc'[k] = pc[k],
             todo'[j] = todo[j] \/ todo'[j] = todo[j] \ {p}
      PROVE  BlanksCounted'
  <2>1. \A k \in Jobs \ {j} : ~ Working(k) /\ ~ Working(k)'
    BY <1>6, <1>t, Alone DEF Working, Loaded, Underway
  <2>2. Working(j) /\ Working(j)'
    BY <1>6 DEF Working, Loaded
  <2>3. j \in Imports => Blanks(j) \ todo'[j] = Blanks(j) \ todo[j]
    BY <1>6, <1>t, <2>2, OwnBatch DEF Blanks
  <2>4. \A b \in batches : b \in Jobs
    BY <1>t, <1>i DEF TypeOK
  <2>5. \A x : Blanks(x)' = Blanks(x)
    BY <1>0, <1>6
  <2> QED
    BY <1>6, <1>i, <2>1, <2>2, <2>3, <2>4, <2>5 DEF BlanksCounted
<1>7. ASSUME NEW j \in Jobs, NEW names, "ignored" \notin names, count' = Plus(j, names)
      PROVE  count'[j].ignored = count[j].ignored
  <2>1. count[j].ignored \in Nat
    BY <1>t DEF TypeOK, Stats
  <2>2. count'[j].ignored = count[j].ignored + (IF "ignored" \in names THEN 1 ELSE 0)
        \/ count'[j].ignored = count[j].ignored
    BY <1>7, <1>t, <1>o, PlusFields
  <2> QED
    BY <1>7, <2>1, <2>2
<1>8. ASSUME NEW j \in Jobs, NEW p \in todo[j], Skip(j, p) \/ Hold(j, p) PROVE BlanksCounted'
  <2>1. PICK status \in Status, c \in {"skipped", "pending"} :
          pc[j] = "line" /\ IsData(j, p) /\ Note(j, p, status, c)
    BY <1>8 DEF Skip, Hold, Turn, Status
  <2>2. Loaded(j) /\ p \in Data(batch[j]) /\ UNCHANGED <<file, batches, stats, cut, batch>>
    BY <1>t, <2>1, LineInFile DEF IsData, LineAt, Data, Loaded, Working, Note
  <2>3. count'[j].ignored = count[j].ignored
    BY <1>7, <2>1 DEF Note
  <2>4. /\ Loaded(j)' /\ \A k \in Jobs \ {j} : pc'[k] = pc[k]
        /\ todo'[j] = todo[j] \/ todo'[j] = todo[j] \ {p}
    BY <1>t, <2>1 DEF Note, Done, Fails, Loaded, TypeOK
  <2> QED
    BY <1>6, <2>2, <2>3, <2>4
<1>9. ASSUME NEW j \in Jobs, NEW p \in todo[j], Apply(j, p) PROVE BlanksCounted'
  <2>1. pc[j] = "line" /\ IsData(j, p) /\ UNCHANGED <<file, batches, stats, cut, batch>>
    BY <1>9 DEF Apply, Turn, ghost
  <2>2. Loaded(j) /\ p \in Data(batch[j])
    BY <1>t, <2>1, LineInFile DEF IsData, LineAt, Data, Loaded, Working
  <2>3. count'[j].ignored = count[j].ignored
    <3>1. \E names \in {{"total", "created"}, {"total", "updated"}, {"total"}} : count' = Plus(j, names)
      BY <1>9 DEF Apply, Wrote
    <3> QED
      BY <1>7, <3>1
  <2>4. Loaded(j)' /\ todo'[j] = todo[j] /\ \A k \in Jobs \ {j} : pc'[k] = pc[k]
    BY <1>9, <1>t DEF Apply, Wrote, Fails, Loaded, TypeOK
  <2> QED
    BY <1>6, <2>1, <2>2, <2>3, <2>4
<1>10. ASSUME NEW j \in Jobs, Record(j) \/ Catch(j) PROVE BlanksCounted'
  <2>1. pc[j] \in {"record", "failed"} /\ Loaded(j) /\ UNCHANGED <<file, batches, stats, cut, batch>>
    BY <1>10 DEF Record, Catch, Loaded, ghost
  <2>2. hand[j].pos \in Data(batch[j])
    BY <2>1 DEF DataRows
  <2>3. count'[j].ignored = count[j].ignored
    BY <1>7, <1>10 DEF Record, Catch
  <2>4. /\ Loaded(j)' /\ \A k \in Jobs \ {j} : pc'[k] = pc[k]
        /\ todo'[j] = todo[j] \/ todo'[j] = todo[j] \ {hand[j].pos}
    BY <1>10, <1>t DEF Record, Catch, Done, Fails, Loaded, TypeOK
  <2> QED
    BY <1>6, <2>1, <2>2, <2>3, <2>4
<1>11. ASSUME NEW j \in Jobs, Close(j) PROVE BlanksCounted'
  <2>1. /\ pc[j] = "line" /\ todo[j] = {} /\ Working(j) /\ batch[j] \in batches /\ batch[j] \in Imports
        /\ UNCHANGED <<file, batches, cut>>
        /\ stats' = [stats EXCEPT ![batch[j]] = IF j \in Imports THEN count[j]
                                                ELSE ComputeBatchStats(batch[j], count[j].ignored)]
    BY <1>11, <1>t DEF Close, Working, BatchesOpen, TypeOK
  <2>2. \A k \in Jobs \ {j} : ~ Working(k)
    BY <1>t, <2>1, Alone DEF Underway
  <2>3. \A k \in Jobs : ~ Working(k)'
    BY <1>11, <1>t, <2>2 DEF Close, Ends, Working, TypeOK
  <2>4. count[j] \in Stats /\ ComputeBatchStats(batch[j], count[j].ignored) \in Stats
    BY <1>t, CountedTyped DEF TypeOK, Stats, RowsTrue
  <2>5. stats'[batch[j]] # NULL /\ stats'[batch[j]].ignored = count[j].ignored
    BY <1>t, <2>1, <2>4, NullAssumption DEF TypeOK, ComputeBatchStats
  <2>6. batch[j] \notin cut => count[j].ignored = Cardinality(Blanks(batch[j]))
    <3>1. CASE j \in Imports
      <4>1. batch[j] = j /\ Blanks(j) \ todo[j] = Blanks(j)
        BY <1>t, <2>1, <3>1, OwnBatch
      <4> QED
        BY <2>1, <3>1, <4>1 DEF BlanksCounted
    <3>2. CASE j \in Reprocesses
      BY <2>1, <3>2 DEF BlanksCounted
    <3> QED
      BY <1>i, <3>1, <3>2
  <2>7. \A b \in batches \ {batch[j]} : b \in Imports /\ ~ Working(b) /\ stats'[b] = stats[b]
    <3>1. \A b \in batches \ {batch[j]} : b \in Imports /\ b # j
      BY <1>t, <2>1, OwnBatch DEF TypeOK
    <3> QED
      BY <1>t, <1>i, <2>1, <2>2, <3>1 DEF TypeOK
  <2>8. \A x : Blanks(x)' = Blanks(x)
    BY <1>0, <2>1
  <2> QED
    BY <1>i, <2>1, <2>3, <2>5, <2>6, <2>7, <2>8 DEF BlanksCounted
<1>12. ASSUME UNCHANGED <<file, batches, stats>>, cut \subseteq cut', \A k \in Jobs : ~ Working(k)',
              \A k \in Imports : Working(k) => k \in cut'
       PROVE  BlanksCounted'
  <2>1. \A b \in batches \ cut' : ~ Working(b) /\ b \notin cut
    BY <1>12, <1>t DEF TypeOK
  <2> QED
    BY <1>0, <1>12, <1>i, <2>1 DEF BlanksCounted
<1>13. ASSUME NEW j \in Jobs, Abort(j) PROVE BlanksCounted'
  <2>1. Working(j) /\ Interrupted({j}) /\ Ends(j, "failure") /\ UNCHANGED <<file, batches, stats>>
    BY <1>13 DEF Abort, Working
  <2>2. \A k \in Jobs \ {j} : ~ Working(k)
    BY <1>t, <2>1, Alone DEF Underway, Working
  <2>3. \A k \in Jobs : ~ Working(k)'
    BY <1>t, <2>1, <2>2 DEF Ends, Working, TypeOK
  <2>4. cut \subseteq cut' /\ \A k \in Imports : Working(k) => k \in cut'
    BY <1>i, <2>1, <2>2 DEF Interrupted
  <2> QED
    BY <1>12, <2>1, <2>3, <2>4
<1>14. CASE Crash
  <2>1. /\ UNCHANGED <<file, batches, stats>>
        /\ Interrupted({j \in {k \in Jobs : pc[k] \in Underway} : pc[j] # "open"})
        /\ \A k \in Jobs : ~ Working(k)'
    BY <1>14 DEF Crash, Working, Underway
  <2>2. cut \subseteq cut' /\ \A k \in Imports : Working(k) => k \in cut'
    BY <1>i, <2>1 DEF Interrupted, Working, Underway
  <2> QED
    BY <1>12, <2>1, <2>2
<1>15. CASE Map \/ UNCHANGED vars
  BY <1>1, <1>15 DEF Map, vars, job, ghost, Working
<1> QED
  BY <1>2, <1>3, <1>4, <1>5, <1>8, <1>9, <1>10, <1>11, <1>13, <1>14, <1>15 DEF Next, Step, Finished

\* The statistics of a batch nobody works on are those of its rows and of the
\* blank lines of its file, unless a fault came after a line was counted.
THEOREM StatisticsExact == Spec => []StatsExact
<1> DEFINE Inv == IInv /\ StatsInv /\ DataRows
<1>1. Init => Inv
  <2> SUFFICES ASSUME Init PROVE Inv
    OBVIOUS
  <2>1. IInv
    BY InitIInv
  <2>2. FirstPass /\ CountsTrue /\ DataRows
    BY DEF Init, FirstPass, CountsTrue, DataRows, Working, Jobs
  <2>3. BlanksCounted /\ StatsTrue
    BY DEF Init, BlanksCounted, StatsTrue, Working, Jobs
  <2> QED
    BY <2>1, <2>2, <2>3 DEF StatsInv
<1>2. Inv /\ [Next]_vars => Inv'
  <2> SUFFICES ASSUME Inv, [Next]_vars PROVE Inv'
    OBVIOUS
  <2>1. IInv'
    BY StepKinds, TypeStep, LockHeldStep, BatchesOpenStep, RowsTrueStep, HandTrueStep, CacheTrueStep,
       OneEachStep, SalesAccountedStep, LinesAccountedStep DEF IInv
  <2> QED
    BY <2>1, FirstPassStep, CountsTrueStep, StatsTrueStep, BlanksCountedStep, DataRowsStep DEF StatsInv
<1>3. Inv => StatsExact
  <2> SUFFICES ASSUME Inv, NEW b \in batches \ damaged, stats[b] # NULL, ~ InWork(b)
               PROVE  /\ stats[b] = ComputeBatchStats(b, stats[b].ignored)
                      /\ b \notin cut => stats[b].ignored = Len(file[b]) - Cardinality(Data(b))
    BY DEF StatsExact
  <2>1. TypeOK /\ BatchesOpen /\ b \in Imports /\ b \in Jobs
    BY DEF IInv, TypeOK, Jobs
  <2>2. \A j \in Jobs : Loaded(j) \/ Working(j) => batch[j] # b
    BY DEF InWork, Loaded, Working, Underway
  <2>3. ~ Working(b)
    BY <2>1, <2>2, OwnBatch
  <2>4. b \notin cut => stats[b].ignored = Cardinality(Blanks(b))
    BY <2>3 DEF StatsInv, BlanksCounted
  <2> QED
    BY <2>1, <2>2, <2>4, BlanksFinite DEF StatsInv, StatsTrue
<1> QED
  <2> HIDE DEF Inv
  <2> QED
    BY <1>1, <1>2, <1>3, PTL DEF Spec
=============================================================================
