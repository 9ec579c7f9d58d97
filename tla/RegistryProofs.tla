--------------------------- MODULE RegistryProofs ---------------------------
(* Theorems about SandboxRegistry, for any number of visitors, sweeps and    *)
(* sandboxes, any limits and any faults.                                     *)
EXTENDS SandboxRegistry, FiniteSetTheorems, TLAPS

\* Each kind of actor has steps of its own.
OwnSteps ==
    /\ \A v \in Visitors : at[v] \in VisitorSteps \cup ReleaseSteps
    /\ \A w \in Sweeps : at[w] \in ReleaseSteps \cup {"idle"}
    /\ at[Cron] \in RebuildSteps \cup {"idle"}

\* Before the server listens nobody works, and the orphans are dropped before
\* the template is built.
Booting ==
    ~Up =>
        /\ DOMAIN sandboxes = {}
        /\ \A a \in Releasers : at[a] = AfterRelease(a) /\ box[a] = NULL
        /\ \A w \in Sweeps : expired[w] = {}
        /\ \A v \in Uploaders : storing[v] = NULL
        /\ boot = "orphans" => at[Cron] = "idle"
        /\ boot = "template" => (\A s \in Ids : content[s] = "none") /\ folders = {}

\* A rebuild that has begun has its turn, and takes no new template over before
\* it is filled; without a fault there is none only while it has the turn.
Rebuilding ==
    /\ at[Cron] \in RebuildSteps \ {"dropNext"} => Runs(Cron)
    /\ at[Cron] = "fill" => content[NEXT_TEMPLATE_DATABASE] = "base"
    /\ at[Cron] \in {"dropTemplate", "rename"} => content[NEXT_TEMPLATE_DATABASE] = "demo"
    /\ content[TEMPLATE_DATABASE] \in {"none", "demo"}
    /\ Up /\ faults = 0 /\ content[TEMPLATE_DATABASE] = "none" => at[Cron] = "rename"

\* Who creates a sandbox has the turn, found a free place, and has an id that
\* nobody else knows.
Cloning ==
    \A v \in Visitors : at[v] = "cloning" =>
        /\ Runs(v) /\ ~Full
        /\ box[v] \in Ids /\ ~Live(box[v])
        /\ \A a \in Releasers \ {v} : box[a] # box[v]
        /\ \A w \in Sweeps : box[v] \notin expired[w]

\* A sandbox that is being released is no longer in the map.
Releasing ==
    \A a \in Releasers : at[a] \in ReleaseSteps => box[a] \in Ids /\ ~Live(box[a])

Safety == WithinLimit /\ ServedIsFilled /\ RefusedOnlyByFault /\ StorageAccounted

RegistryInv ==
    /\ TypeOK /\ OwnSteps /\ Booting /\ Rebuilding /\ Cloning /\ Releasing /\ Safety

-----------------------------------------------------------------------------
\* The kinds of actors, and the queue.
LEMMA Kinds ==
    /\ Cron \notin Releasers /\ Visitors \cap Sweeps = {}
    /\ Releasers \subseteq Actors /\ Cron \in Actors
    /\ TEMPLATE_DATABASE \notin Ids /\ NEXT_TEMPLATE_DATABASE \notin Ids
    /\ TEMPLATE_DATABASE # NEXT_TEMPLATE_DATABASE /\ NULL \notin Ids
    /\ {TEMPLATE_DATABASE, NEXT_TEMPLATE_DATABASE} \cup Ids = Databases
    /\ Uploaders \subseteq Visitors
BY RegistryAssumption DEF Releasers, Actors, Databases, TEMPLATE_DATABASE, NEXT_TEMPLATE_DATABASE

LEMMA Entered ==
    ASSUME queue \in Seq(Actors), NEW a \in Actors, Enter(a)
    PROVE  queue' \in Seq(Actors) /\ \A b : Runs(b) => Runs(b)'
BY DEF Enter, Runs

LEMMA Left ==
    ASSUME queue \in Seq(Actors), NEW a, Runs(a), Leave
    PROVE  queue' \in Seq(Actors) /\ \A b : Runs(b) => b = a
BY DEF Leave, Runs

\* The map, when it does not grow.
LEMMA Shrunk ==
    ASSUME TypeOK, Safety, DOMAIN sandboxes' \subseteq DOMAIN sandboxes
    PROVE  WithinLimit' /\ (~Full => ~Full')
<1>1. IsFiniteSet(DOMAIN sandboxes) /\ DOMAIN sandboxes \subseteq Ids
  BY FS_Subset, RegistryAssumption DEF TypeOK
<1>2. /\ Cardinality(DOMAIN sandboxes') <= Cardinality(DOMAIN sandboxes)
      /\ Cardinality(DOMAIN sandboxes') \in Nat /\ Cardinality(DOMAIN sandboxes) \in Nat
  BY <1>1, FS_Subset, FS_CardinalityType
<1> QED
  BY <1>2, RegistryAssumption DEF Safety, WithinLimit, Full

LEMMA Grown ==
    ASSUME TypeOK, NEW s \in Ids, ~Live(s), ~Full, sandboxes' = Register(s)
    PROVE  WithinLimit' /\ DOMAIN sandboxes' = DOMAIN sandboxes \cup {s}
<1>1. IsFiniteSet(DOMAIN sandboxes)
  BY FS_Subset, RegistryAssumption DEF TypeOK
<1>2. DOMAIN sandboxes' = DOMAIN sandboxes \cup {s}
  BY DEF Register
<1>3. Cardinality(DOMAIN sandboxes') = Cardinality(DOMAIN sandboxes) + 1
  BY <1>1, <1>2, FS_AddElement DEF Live
<1> QED
  BY <1>1, <1>2, <1>3, FS_CardinalityType, RegistryAssumption DEF Full, WithinLimit

\* What is accounted for stays so while releases go on and nothing is forgotten.
LEMMA StillAccounted ==
    ASSUME StorageAccounted, folders \subseteq Ids, folders' = folders, Up' => Up, leaked \subseteq leaked',
           DOMAIN sandboxes \subseteq DOMAIN sandboxes', \A s \in Ids : content'[s] = content[s],
           \A a \in Releasers :
               /\ at[a] \in {"disconnect", "drop"} =>
                      at'[a] \in {"disconnect", "drop"} /\ box'[a] = box[a]
               /\ at[a] = "rm" => at'[a] = "rm" /\ box'[a] = box[a]
    PROVE  StorageAccounted'
<1>1. DatabasesAccounted'
  <2> SUFFICES ASSUME Up', NEW s \in Ids, content'[s] # "none"
               PROVE  \/ Live(s)' \/ s \in leaked'
                      \/ \E a \in Releasers : box'[a] = s /\ at'[a] \in {"disconnect", "drop"}
    BY DEF DatabasesAccounted
  <2>1. \/ Live(s) \/ s \in leaked
        \/ \E a \in Releasers : box[a] = s /\ at[a] \in {"disconnect", "drop"}
    BY DEF StorageAccounted, DatabasesAccounted
  <2> QED
    BY <2>1 DEF Live
<1>2. FoldersAccounted'
  <2> SUFFICES ASSUME Up', NEW s \in folders
               PROVE  \/ content'[s] # "none" \/ s \in leaked'
                      \/ \E a \in Releasers : box'[a] = s /\ at'[a] = "rm"
    BY DEF FoldersAccounted
  <2>1. \/ content[s] # "none" \/ s \in leaked
        \/ \E a \in Releasers : box[a] = s /\ at[a] = "rm"
    BY DEF StorageAccounted, FoldersAccounted
  <2> QED
    BY <2>1
<1> QED
  BY <1>1, <1>2 DEF StorageAccounted

-----------------------------------------------------------------------------
LEMMA RegistryInitInv == Init => RegistryInv
<1> SUFFICES ASSUME Init PROVE RegistryInv
  OBVIOUS
<1>1. DOMAIN sandboxes = {}
  BY DEF Init, NoSandboxes
<1>2. TypeOK
  BY <1>1, Kinds, RegistryAssumption DEF Init, TypeOK, NoSandboxes, AfterRelease, VisitorSteps
<1>3. WithinLimit
  BY <1>1, FS_EmptySet, RegistryAssumption DEF WithinLimit
<1>4. OwnSteps
  BY Kinds DEF Init, OwnSteps, AfterRelease, Releasers, Actors, VisitorSteps
<1>5. Booting
  BY <1>1, Kinds, RegistryAssumption DEF Init, Booting, AfterRelease, Releasers, Actors, Databases
<1>6. Rebuilding /\ Cloning /\ Releasing
  BY Kinds, RegistryAssumption
     DEF Init, Rebuilding, Cloning, Releasing, AfterRelease, Up, Releasers, Actors, Databases,
         RebuildSteps, ReleaseSteps
<1>7. ServedIsFilled /\ RefusedOnlyByFault /\ StorageAccounted
  BY <1>1 DEF Init, ServedIsFilled, RefusedOnlyByFault, StorageAccounted, DatabasesAccounted,
     FoldersAccounted, Up
<1> QED
  BY <1>2, <1>3, <1>4, <1>5, <1>6, <1>7 DEF RegistryInv, Safety

\* A login asks, and finds a place or none.
LEMMA AskInv == ASSUME RegistryInv, NEW v \in Visitors, Ask(v) PROVE RegistryInv'
<1>1. v \in Releasers /\ v \in Actors /\ v # Cron
  BY Kinds DEF Releasers, Actors
<1>2. /\ queue' \in Seq(Actors) /\ \A b : Runs(b) => Runs(b)'
  BY <1>1, Entered DEF Ask, RegistryInv, TypeOK
<1>3. TypeOK'
  BY <1>1, <1>2 DEF Ask, RegistryInv, TypeOK, disk, VisitorSteps
<1>4. OwnSteps'
  BY <1>1, Kinds DEF Ask, RegistryInv, OwnSteps, TypeOK, VisitorSteps
<1>5. Booting' /\ Rebuilding'
  BY <1>1, <1>2, Kinds DEF Ask, RegistryInv, Booting, Rebuilding, Up, disk, TypeOK
<1>6. Cloning' /\ Releasing'
  BY <1>1, <1>2, Kinds DEF Ask, RegistryInv, Cloning, Releasing, Live, Full, TypeOK, ReleaseSteps
<1>7. Safety'
  BY <1>1, Kinds DEF Ask, RegistryInv, Safety, WithinLimit, ServedIsFilled, RefusedOnlyByFault,
     StorageAccounted, DatabasesAccounted, FoldersAccounted, Up, Live, disk, TypeOK
<1> QED
  BY <1>3, <1>4, <1>5, <1>6, <1>7 DEF RegistryInv

LEMMA BeginInv == ASSUME RegistryInv, NEW v \in Visitors, Begin(v) PROVE RegistryInv'
<1>1. v \in Releasers /\ v \in Actors /\ v # Cron /\ Runs(v) /\ at[v] = "asked"
  BY Kinds DEF Begin, Releasers, Actors
<1>2. UNCHANGED <<sandboxes, expired, storing, content, folders, boot, refused, faults, leaked>>
  BY DEF Begin, disk
<1>3. CASE Full /\ at' = [at EXCEPT ![v] = "out"] /\ Leave /\ UNCHANGED box
  <2>1. queue' \in Seq(Actors) /\ \A b : Runs(b) => b = v
    BY <1>1, <1>3, Left DEF RegistryInv, TypeOK
  <2>2. TypeOK'
    BY <1>1, <1>2, <1>3, <2>1 DEF RegistryInv, TypeOK, VisitorSteps
  <2>3. OwnSteps'
    BY <1>1, <1>3, Kinds DEF RegistryInv, OwnSteps, TypeOK, VisitorSteps
  <2>4. Booting' /\ Rebuilding'
    BY <1>1, <1>2, <1>3, <2>1, Kinds DEF RegistryInv, Booting, Rebuilding, Up, AfterRelease, TypeOK
  <2>5. Cloning' /\ Releasing'
    BY <1>1, <1>2, <1>3, <2>1 DEF RegistryInv, Cloning, Releasing, Live, Full, TypeOK, ReleaseSteps
  <2>6. Safety'
    <3>1. StorageAccounted'
      BY <1>1, <1>2, <1>3, StillAccounted DEF RegistryInv, Safety, Up, TypeOK
    <3> QED
      BY <1>2, <3>1 DEF RegistryInv, Safety, WithinLimit, ServedIsFilled, RefusedOnlyByFault
  <2> QED
    BY <2>2, <2>3, <2>4, <2>5, <2>6 DEF RegistryInv
<1>4. ASSUME NEW s \in Ids, Untraced(s), ~Full, box' = [box EXCEPT ![v] = s],
             at' = [at EXCEPT ![v] = "cloning"], UNCHANGED queue
      PROVE  RegistryInv'
  <2>1. Up
    BY <1>1 DEF RegistryInv, Booting, AfterRelease
  <2>2. TypeOK'
    BY <1>1, <1>2, <1>4 DEF RegistryInv, TypeOK, VisitorSteps
  <2>3. OwnSteps'
    BY <1>1, <1>4, Kinds DEF RegistryInv, OwnSteps, TypeOK, VisitorSteps
  <2>4. Booting' /\ Rebuilding'
    BY <1>1, <1>2, <1>4, <2>1 DEF RegistryInv, Booting, Rebuilding, Up, Runs, TypeOK, Actors
  <2>5. Cloning'
    BY <1>1, <1>2, <1>4 DEF RegistryInv, Cloning, Live, Full, TypeOK, Runs, Untraced, Releasers, Actors
  <2>6. Releasing'
    BY <1>1, <1>2, <1>4 DEF RegistryInv, Releasing, Live, TypeOK, ReleaseSteps, Releasers, Actors
  <2>7. Safety'
    <3>1. StorageAccounted'
      BY <1>1, <1>2, <1>4, StillAccounted DEF RegistryInv, Safety, Up, TypeOK
    <3> QED
      BY <1>2, <3>1 DEF RegistryInv, Safety, WithinLimit, ServedIsFilled, RefusedOnlyByFault
  <2> QED
    BY <2>2, <2>3, <2>4, <2>5, <2>6, <2>7 DEF RegistryInv
<1> QED
  BY <1>3, <1>4 DEF Begin

\* The clone registers an id that nobody releases.
LEMMA CloneInv == ASSUME RegistryInv, NEW v \in Visitors, Clone(v) PROVE RegistryInv'
<1>1. /\ v \in Releasers /\ v \in Actors /\ v # Cron /\ Runs(v) /\ at[v] = "cloning"
      /\ box[v] \in Ids /\ ~Live(box[v]) /\ ~Full
      /\ \A a \in Releasers \ {v} : box[a] # box[v]
  BY Kinds DEF Clone, Releasers, Actors, RegistryInv, Cloning
<1>2. /\ UNCHANGED <<box, expired, storing, folders, boot, refused, faults, leaked>>
      /\ sandboxes' = Register(box[v])
      /\ content' = [content EXCEPT ![box[v]] = "demo"]
      /\ at' = [at EXCEPT ![v] = "in"]
  BY DEF Clone, RegistryInv, Rebuilding
<1>3. WithinLimit' /\ DOMAIN sandboxes' = DOMAIN sandboxes \cup {box[v]}
  BY <1>1, <1>2, Grown DEF RegistryInv
<1>4. queue' \in Seq(Actors) /\ \A b : Runs(b) => b = v
  BY <1>1, Left DEF Clone, RegistryInv, TypeOK
<1>5. Up
  BY <1>1 DEF RegistryInv, Booting, AfterRelease
<1>6. TypeOK'
  <2>1. sandboxes' \in [DOMAIN sandboxes' -> [idle : 0 .. IDLE + 1, age : 0 .. LIFETIME + 1]]
    BY <1>1, <1>2, <1>3, RegistryAssumption DEF RegistryInv, TypeOK, Register, Fresh
  <2> QED
    BY <1>1, <1>2, <1>3, <1>4, <2>1, Kinds DEF RegistryInv, TypeOK, VisitorSteps
<1>7. OwnSteps'
  BY <1>1, <1>2, Kinds DEF RegistryInv, OwnSteps, TypeOK, VisitorSteps
<1>8. Booting' /\ Rebuilding'
  BY <1>1, <1>2, <1>4, <1>5, Kinds DEF RegistryInv, Booting, Rebuilding, Up, TypeOK
<1>9. Cloning' /\ Releasing'
  BY <1>1, <1>2, <1>3, <1>4, Kinds DEF RegistryInv, Cloning, Releasing, Live, TypeOK, ReleaseSteps
<1>10. Safety'
  <2>1. ServedIsFilled' /\ RefusedOnlyByFault'
    BY <1>1, <1>2, <1>3, Kinds DEF RegistryInv, Safety, ServedIsFilled, RefusedOnlyByFault, TypeOK
  <2>2. StorageAccounted'
    BY <1>1, <1>2, <1>3, Kinds DEF RegistryInv, Safety, StorageAccounted, DatabasesAccounted,
       FoldersAccounted, Up, Live, TypeOK
  <2> QED
    BY <1>3, <2>1, <2>2 DEF Safety
<1> QED
  BY <1>6, <1>7, <1>8, <1>9, <1>10 DEF RegistryInv

\* Without a fault the template is there when a visitor has the turn.
LEMMA CloneFailsInv == ASSUME RegistryInv, NEW v \in Visitors, CloneFails(v) PROVE RegistryInv'
<1>1. v \in Releasers /\ v \in Actors /\ v # Cron /\ Runs(v) /\ at[v] = "cloning"
  BY Kinds DEF CloneFails, Releasers, Actors
<1>2. /\ UNCHANGED <<sandboxes, expired, storing, content, folders, boot, leaked>>
      /\ at' = [at EXCEPT ![v] = "out"] /\ box' = [box EXCEPT ![v] = NULL]
      /\ refused' = refused \cup {v}
  BY DEF CloneFails, disk
<1>3. queue' \in Seq(Actors) /\ \A b : Runs(b) => b = v
  BY <1>1, Left DEF CloneFails, LeaveFailed, RegistryInv, TypeOK
<1>4. Up
  BY <1>1 DEF RegistryInv, Booting, AfterRelease
<1>5. faults' \in 0 .. MaxFaults /\ faults' > 0 /\ faults' >= faults
  <2>1. faults = 0 => content[TEMPLATE_DATABASE] # "none"
    BY <1>1, <1>3, <1>4 DEF RegistryInv, Rebuilding, RebuildSteps
  <2> QED
    BY <2>1, RegistryAssumption DEF CloneFails, Fault, RegistryInv, TypeOK
<1>6. TypeOK'
  BY <1>1, <1>2, <1>3, <1>5 DEF RegistryInv, TypeOK, VisitorSteps
<1>7. OwnSteps'
  BY <1>1, <1>2, Kinds DEF RegistryInv, OwnSteps, TypeOK, VisitorSteps
<1>8. Booting' /\ Rebuilding'
  BY <1>1, <1>2, <1>3, <1>4, <1>5 DEF RegistryInv, Booting, Rebuilding, Up, TypeOK, Actors
<1>9. Cloning' /\ Releasing'
  BY <1>1, <1>2, <1>3 DEF RegistryInv, Cloning, Releasing, Live, TypeOK, ReleaseSteps, Releasers, Actors
<1>10. Safety'
  <2>1. StorageAccounted'
    BY <1>1, <1>2, StillAccounted DEF RegistryInv, Safety, Up, TypeOK
  <2> QED
    BY <1>2, <1>5, <2>1 DEF RegistryInv, Safety, WithinLimit, ServedIsFilled, RefusedOnlyByFault
<1> QED
  BY <1>6, <1>7, <1>8, <1>9, <1>10 DEF RegistryInv

-----------------------------------------------------------------------------
\* Requests of a visitor touch his sandbox; time passes over all of them.
LEMMA TouchedInv ==
    ASSUME RegistryInv, DOMAIN sandboxes' = DOMAIN sandboxes,
           sandboxes' \in [DOMAIN sandboxes -> [idle : 0 .. IDLE + 1, age : 0 .. LIFETIME + 1]],
           storing' \in [Uploaders -> Ids \cup {NULL}], ~Up => UNCHANGED storing,
           UNCHANGED <<queue, at, box, expired, disk, boot, refused, faults, leaked>>
    PROVE  RegistryInv'
<1>1. TypeOK' /\ OwnSteps'
  BY DEF RegistryInv, TypeOK, OwnSteps, disk
<1>2. Booting' /\ Rebuilding'
  BY DEF RegistryInv, Booting, Rebuilding, Up, AfterRelease, Runs, disk
<1>3. Cloning' /\ Releasing'
  BY DEF RegistryInv, Cloning, Releasing, Live, Full, Runs
<1>4. Safety'
  <2>1. StorageAccounted'
    BY StillAccounted DEF RegistryInv, Safety, Up, TypeOK, disk
  <2> QED
    BY <2>1 DEF RegistryInv, Safety, WithinLimit, ServedIsFilled, RefusedOnlyByFault, disk
<1> QED
  BY <1>1, <1>2, <1>3, <1>4 DEF RegistryInv

LEMMA Touched ==
    ASSUME TypeOK, NEW s \in DOMAIN sandboxes, Touch(s)
    PROVE  /\ DOMAIN sandboxes' = DOMAIN sandboxes
           /\ sandboxes' \in [DOMAIN sandboxes -> [idle : 0 .. IDLE + 1, age : 0 .. LIFETIME + 1]]
<1>1. sandboxes \in [DOMAIN sandboxes -> [idle : 0 .. IDLE + 1, age : 0 .. LIFETIME + 1]]
  BY DEF TypeOK
<1>2. [sandboxes[s] EXCEPT !.idle = 0] \in [idle : 0 .. IDLE + 1, age : 0 .. LIFETIME + 1]
  BY <1>1, RegistryAssumption
<1>3. sandboxes' = [sandboxes EXCEPT ![s] = [sandboxes[s] EXCEPT !.idle = 0]]
  BY <1>1 DEF Touch
<1> QED
  BY <1>1, <1>2, <1>3

LEMMA WorkInv == ASSUME RegistryInv, NEW v \in Visitors, Work(v) PROVE RegistryInv'
BY Touched, TouchedInv DEF Work, RegistryInv, TypeOK, Live

LEMMA UploadRowInv == ASSUME RegistryInv, NEW v \in Uploaders, UploadRow(v) PROVE RegistryInv'
<1>1. v \in Visitors /\ v \in Releasers
  BY Kinds DEF Releasers
<1>2. Up
  BY <1>1 DEF UploadRow, RegistryInv, Booting, AfterRelease
<1> QED
  BY <1>1, <1>2, Touched, TouchedInv DEF UploadRow, RegistryInv, TypeOK, Live

LEMMA TickInv == ASSUME RegistryInv, Tick PROVE RegistryInv'
<1>1. \A s \in DOMAIN sandboxes :
        /\ sandboxes[s].idle \in 0 .. IDLE + 1 /\ sandboxes[s].age \in 0 .. LIFETIME + 1
  BY DEF RegistryInv, TypeOK
<1>2. \A s \in DOMAIN sandboxes :
        /\ Later(sandboxes[s].idle, IDLE) \in 0 .. IDLE + 1
        /\ Later(sandboxes[s].age, LIFETIME) \in 0 .. LIFETIME + 1
  BY <1>1, RegistryAssumption DEF Later
<1>3. /\ DOMAIN sandboxes' = DOMAIN sandboxes
      /\ sandboxes' \in [DOMAIN sandboxes -> [idle : 0 .. IDLE + 1, age : 0 .. LIFETIME + 1]]
  BY <1>2 DEF Tick
<1> QED
  BY <1>3, TouchedInv DEF Tick, RegistryInv, TypeOK

\* An upload that ends late may write the folder of a sandbox that is gone.
LEMMA UploadFileInv == ASSUME RegistryInv, NEW v \in Uploaders, UploadFile(v) PROVE RegistryInv'
<1>1. Up /\ storing[v] \in Ids
  BY DEF UploadFile, RegistryInv, Booting, TypeOK
<1>2. /\ UNCHANGED <<sandboxes, queue, at, box, expired, content, boot, refused, faults>>
      /\ folders' = folders \cup {storing[v]}
      /\ storing' = [storing EXCEPT ![v] = NULL]
      /\ leaked \subseteq leaked' /\ leaked' \subseteq Ids
      /\ \/ content[storing[v]] # "none" \/ storing[v] \in leaked'
         \/ \E a \in Releasers : box[a] = storing[v] /\ at[a] = "rm"
  BY <1>1 DEF UploadFile, memory, RegistryInv, TypeOK
<1>3. TypeOK' /\ OwnSteps'
  BY <1>1, <1>2 DEF RegistryInv, TypeOK, OwnSteps
<1>4. Booting' /\ Rebuilding'
  BY <1>1, <1>2 DEF RegistryInv, Booting, Rebuilding, Up, Runs
<1>5. Cloning' /\ Releasing'
  BY <1>2 DEF RegistryInv, Cloning, Releasing, Live, Full, Runs
<1>6. Safety'
  <2>1. DatabasesAccounted'
    BY <1>2 DEF RegistryInv, Safety, StorageAccounted, DatabasesAccounted, Up, Live
  <2>2. FoldersAccounted'
    BY <1>2 DEF RegistryInv, Safety, StorageAccounted, FoldersAccounted, Up
  <2> QED
    BY <1>2, <2>1, <2>2
       DEF RegistryInv, Safety, WithinLimit, ServedIsFilled, RefusedOnlyByFault, StorageAccounted
<1> QED
  BY <1>3, <1>4, <1>5, <1>6 DEF RegistryInv

\* A visitor who leaves his sandbox as it is.
LEMMA AbandonInv == ASSUME RegistryInv, NEW v \in Visitors, Abandon(v) PROVE RegistryInv'
<1>1. v \in Releasers /\ v \in Actors /\ v # Cron /\ at[v] = "in"
  BY Kinds DEF Abandon, Releasers, Actors
<1>2. /\ UNCHANGED <<sandboxes, queue, expired, storing, content, folders, boot, refused, faults, leaked>>
      /\ at' = [at EXCEPT ![v] = "out"] /\ box' = [box EXCEPT ![v] = NULL]
  BY DEF Abandon, memory, disk
<1>3. TypeOK' /\ OwnSteps'
  BY <1>1, <1>2, Kinds DEF RegistryInv, TypeOK, OwnSteps, VisitorSteps
<1>4. Booting' /\ Rebuilding'
  BY <1>1, <1>2 DEF RegistryInv, Booting, Rebuilding, Up, Runs, AfterRelease, TypeOK, Actors
<1>5. Cloning'
  BY <1>1, <1>2, Kinds DEF RegistryInv, Cloning, Live, Full, Runs, TypeOK, Releasers, Actors
<1>6. Releasing'
  BY <1>1, <1>2, Kinds DEF RegistryInv, Releasing, Live, TypeOK, ReleaseSteps
<1>7. Safety'
  <2>1. StorageAccounted'
    BY <1>1, <1>2, Kinds, StillAccounted DEF RegistryInv, Safety, Up, TypeOK
  <2> QED
    BY <1>2, <2>1 DEF RegistryInv, Safety, WithinLimit, ServedIsFilled, RefusedOnlyByFault
<1> QED
  BY <1>3, <1>4, <1>5, <1>6, <1>7 DEF RegistryInv

-----------------------------------------------------------------------------
\* A release takes the sandbox from the map first ...
LEMMA Unregistered ==
    ASSUME RegistryInv, NEW a \in Releasers, NEW s \in Ids, sandboxes' = Unregister(s),
           at[a] \in {"in", "idle"},
           at' = [at EXCEPT ![a] = "disconnect"], box' = [box EXCEPT ![a] = s], Up,
           \A v \in Visitors \ {a} : at[v] = "cloning" => box[v] # s,
           expired' \in [Sweeps -> SUBSET Ids], \A w \in Sweeps : expired'[w] \subseteq expired[w],
           UNCHANGED <<queue, storing, disk, boot, refused, faults, leaked>>
    PROVE  RegistryInv'
<1>1. DOMAIN sandboxes' = DOMAIN sandboxes \ {s}
  BY DEF Unregister, Restrict
<1>2. a # Cron /\ a \in Actors
  BY Kinds
<1>3. TypeOK'
  <2>1. sandboxes' \in [DOMAIN sandboxes' -> [idle : 0 .. IDLE + 1, age : 0 .. LIFETIME + 1]]
    BY DEF RegistryInv, TypeOK, Unregister, Restrict
  <2> QED
    BY <1>1, <1>2, <2>1 DEF RegistryInv, TypeOK, disk, ReleaseSteps
<1>4. OwnSteps'
  BY <1>2, Kinds DEF RegistryInv, OwnSteps, TypeOK, ReleaseSteps, Releasers
<1>5. Booting' /\ Rebuilding'
  BY <1>2 DEF RegistryInv, Booting, Rebuilding, Up, Runs, disk, TypeOK, Actors
<1>6. WithinLimit' /\ (~Full => ~Full')
  BY <1>1, Shrunk DEF RegistryInv
<1>7. Cloning'
  BY <1>1, <1>2, <1>6, Kinds DEF RegistryInv, Cloning, Live, Runs, TypeOK, Releasers
<1>8. Releasing'
  BY <1>1, <1>2, Kinds DEF RegistryInv, Releasing, Live, TypeOK, ReleaseSteps
<1>9. ServedIsFilled' /\ RefusedOnlyByFault'
  BY <1>1 DEF RegistryInv, Safety, ServedIsFilled, RefusedOnlyByFault, disk
<1>10. DatabasesAccounted'
  <2> SUFFICES ASSUME NEW t \in Ids, content[t] # "none"
               PROVE  \/ Live(t)' \/ t \in leaked
                      \/ \E b \in Releasers : box'[b] = t /\ at'[b] \in {"disconnect", "drop"}
    BY DEF DatabasesAccounted, disk
  <2>1. \/ Live(t) \/ t \in leaked
        \/ \E b \in Releasers : box[b] = t /\ at[b] \in {"disconnect", "drop"}
    BY DEF RegistryInv, Safety, StorageAccounted, DatabasesAccounted
  <2>2. at'[a] = "disconnect" /\ box'[a] = s
    BY <1>2 DEF RegistryInv, TypeOK
  <2>3. \A b \in Releasers : at[b] \in {"disconnect", "drop"} => at'[b] = at[b] /\ box'[b] = box[b]
    BY <1>2, Kinds DEF RegistryInv, TypeOK
  <2> QED
    BY <1>1, <2>1, <2>2, <2>3 DEF Live
<1>11. FoldersAccounted'
  <2> SUFFICES ASSUME NEW t \in folders
               PROVE  \/ content[t] # "none" \/ t \in leaked
                      \/ \E b \in Releasers : box'[b] = t /\ at'[b] = "rm"
    BY DEF FoldersAccounted, disk
  <2>1. \/ content[t] # "none" \/ t \in leaked
        \/ \E b \in Releasers : box[b] = t /\ at[b] = "rm"
    BY DEF RegistryInv, Safety, StorageAccounted, FoldersAccounted
  <2>2. \A b \in Releasers : at[b] = "rm" => at'[b] = "rm" /\ box'[b] = box[b]
    BY <1>2, Kinds DEF RegistryInv, TypeOK
  <2> QED
    BY <2>1, <2>2
<1> QED
  BY <1>3, <1>4, <1>5, <1>6, <1>7, <1>8, <1>9, <1>10, <1>11 DEF RegistryInv, Safety, StorageAccounted

LEMMA LogoutInv == ASSUME RegistryInv, NEW v \in Visitors, Logout(v) PROVE RegistryInv'
<1>1. v \in Releasers /\ at[v] = "in" /\ box[v] \in Ids /\ Live(box[v])
  BY DEF Logout, Releasers, RegistryInv, TypeOK, Live
<1>2. Up
  BY <1>1 DEF RegistryInv, Booting, AfterRelease
<1>3. box' = [box EXCEPT ![v] = box[v]]
  BY <1>1 DEF Logout, RegistryInv, TypeOK
<1>4. \A u \in Visitors \ {v} : at[u] = "cloning" => box[u] # box[v]
  BY <1>1 DEF RegistryInv, Cloning
<1> QED
  BY <1>1, <1>2, <1>3, <1>4, Unregistered DEF Logout, RegistryInv, TypeOK

\* ... also for the next of a list of expired sandboxes, whoever released it since.
LEMMA ReleaseNextInv == ASSUME RegistryInv, NEW w \in Sweeps, ReleaseNext(w) PROVE RegistryInv'
<1>1. w \in Releasers /\ at[w] = "idle"
  BY DEF ReleaseNext, Releasers
<1>2. PICK s \in expired[w] : /\ expired' = [expired EXCEPT ![w] = @ \ {s}]
                              /\ box' = [box EXCEPT ![w] = s]
                              /\ sandboxes' = Unregister(s)
  BY DEF ReleaseNext
<1>3. Up /\ s \in Ids
  BY <1>2 DEF RegistryInv, Booting, TypeOK
<1>4. \A v \in Visitors : at[v] = "cloning" => box[v] # s
  BY <1>2 DEF RegistryInv, Cloning
<1>5. expired' \in [Sweeps -> SUBSET Ids] /\ \A x \in Sweeps : expired'[x] \subseteq expired[x]
  BY <1>2 DEF RegistryInv, TypeOK
<1> QED
  BY <1>1, <1>2, <1>3, <1>4, <1>5, Unregistered DEF ReleaseNext

\* The list of expired sandboxes names none that is being created.
LEMMA SweepInv == ASSUME RegistryInv, NEW w \in Sweeps, Sweep(w) PROVE RegistryInv'
<1>1. /\ Up /\ expired' = [expired EXCEPT ![w] = {s \in Ids : Expired(s)}]
      /\ UNCHANGED <<sandboxes, queue, at, box, storing, content, folders, boot, refused, faults, leaked>>
  BY DEF Sweep, memory, disk
<1>2. TypeOK' /\ OwnSteps' /\ Booting' /\ Rebuilding'
  BY <1>1 DEF RegistryInv, TypeOK, OwnSteps, Booting, Rebuilding, Up, Runs
<1>3. Cloning' /\ Releasing'
  BY <1>1 DEF RegistryInv, TypeOK, Cloning, Releasing, Live, Full, Runs, Expired
<1>4. Safety'
  BY <1>1 DEF RegistryInv, Safety, WithinLimit, ServedIsFilled, RefusedOnlyByFault,
     StorageAccounted, DatabasesAccounted, FoldersAccounted, Up, Live
<1> QED
  BY <1>2, <1>3, <1>4 DEF RegistryInv

LEMMA DisconnectInv == ASSUME RegistryInv, NEW a \in Releasers, Disconnect(a) PROVE RegistryInv'
<1>1. a \in Actors /\ a # Cron /\ at[a] = "disconnect"
  BY Kinds DEF Disconnect
<1>2. /\ UNCHANGED <<sandboxes, box, expired, storing, content, folders, boot, refused, faults, leaked>>
      /\ at' = [at EXCEPT ![a] = "drop"]
  BY DEF Disconnect, disk
<1>3. queue' \in Seq(Actors) /\ \A b : Runs(b) => Runs(b)'
  BY <1>1, Entered DEF Disconnect, RegistryInv, TypeOK
<1>4. Up
  BY <1>1 DEF RegistryInv, Booting, AfterRelease
<1>5. TypeOK' /\ OwnSteps'
  BY <1>1, <1>2, <1>3, Kinds DEF RegistryInv, TypeOK, OwnSteps, ReleaseSteps
<1>6. Booting' /\ Rebuilding'
  BY <1>1, <1>2, <1>3, <1>4 DEF RegistryInv, Booting, Rebuilding, Up, TypeOK, Actors
<1>7. Cloning' /\ Releasing'
  BY <1>1, <1>2, <1>3, Kinds DEF RegistryInv, Cloning, Releasing, Live, Full, TypeOK, ReleaseSteps
<1>8. Safety'
  <2>1. StorageAccounted'
    BY <1>1, <1>2, Kinds, StillAccounted DEF RegistryInv, Safety, Up, TypeOK
  <2> QED
    BY <1>2, <2>1 DEF RegistryInv, Safety, WithinLimit, ServedIsFilled, RefusedOnlyByFault
<1> QED
  BY <1>5, <1>6, <1>7, <1>8 DEF RegistryInv

\* ... and drops the database of one that is not in it.
LEMMA DropInv == ASSUME RegistryInv, NEW a \in Releasers, Drop(a) PROVE RegistryInv'
<1>1. /\ a \in Actors /\ a # Cron /\ at[a] = "drop" /\ Runs(a)
      /\ box[a] \in Ids /\ ~Live(box[a])
  BY Kinds DEF Drop, RegistryInv, Releasing, ReleaseSteps
<1>2. /\ UNCHANGED <<sandboxes, box, expired, storing, folders, boot, refused, faults, leaked>>
      /\ at' = [at EXCEPT ![a] = "rm"] /\ content' = [content EXCEPT ![box[a]] = "none"]
  BY DEF Drop
<1>3. queue' \in Seq(Actors) /\ \A b : Runs(b) => b = a
  BY <1>1, Left DEF Drop, RegistryInv, TypeOK
<1>4. Up
  BY <1>1 DEF RegistryInv, Booting, AfterRelease
<1>5. TypeOK' /\ OwnSteps'
  BY <1>1, <1>2, <1>3, Kinds DEF RegistryInv, TypeOK, OwnSteps, ReleaseSteps
<1>6. Booting' /\ Rebuilding'
  BY <1>1, <1>2, <1>3, <1>4, Kinds DEF RegistryInv, Booting, Rebuilding, Up, TypeOK
<1>7. Cloning' /\ Releasing'
  BY <1>1, <1>2, <1>3, Kinds DEF RegistryInv, Cloning, Releasing, Live, TypeOK, ReleaseSteps
<1>8. WithinLimit' /\ ServedIsFilled' /\ RefusedOnlyByFault'
  BY <1>1, <1>2 DEF RegistryInv, Safety, WithinLimit, ServedIsFilled, RefusedOnlyByFault, Live, TypeOK
<1>9. DatabasesAccounted'
  <2> SUFFICES ASSUME NEW t \in Ids, t # box[a], content[t] # "none"
               PROVE  \/ Live(t) \/ t \in leaked
                      \/ \E b \in Releasers : box[b] = t /\ at'[b] \in {"disconnect", "drop"}
    BY <1>1, <1>2, Kinds DEF DatabasesAccounted, RegistryInv, TypeOK, Live
  <2>1. \/ Live(t) \/ t \in leaked
        \/ \E b \in Releasers : b # a /\ box[b] = t /\ at[b] \in {"disconnect", "drop"}
    BY <1>4 DEF RegistryInv, Safety, StorageAccounted, DatabasesAccounted
  <2>2. \A b \in Releasers \ {a} : at'[b] = at[b]
    BY <1>2, Kinds DEF RegistryInv, TypeOK
  <2> QED
    BY <2>1, <2>2
<1>10. FoldersAccounted'
  <2> SUFFICES ASSUME NEW t \in folders
               PROVE  \/ content'[t] # "none" \/ t \in leaked
                      \/ \E b \in Releasers : box[b] = t /\ at'[b] = "rm"
    BY <1>2 DEF FoldersAccounted
  <2>1. \/ content[t] # "none" \/ t \in leaked
        \/ \E b \in Releasers : box[b] = t /\ at[b] = "rm"
    BY <1>4 DEF RegistryInv, Safety, StorageAccounted, FoldersAccounted
  <2>2. \A b \in Releasers : at[b] = "rm" \/ b = a => at'[b] = "rm"
    BY <1>1, <1>2, Kinds DEF RegistryInv, TypeOK
  <2>3. t # box[a] => content'[t] = content[t]
    BY <1>2, Kinds DEF RegistryInv, TypeOK
  <2> QED
    BY <2>1, <2>2, <2>3
<1> QED
  BY <1>5, <1>6, <1>7, <1>8, <1>9, <1>10 DEF RegistryInv, Safety, StorageAccounted

\* A release ends, or fails and leaves something behind.
LEMMA Released ==
    ASSUME RegistryInv, NEW a \in Releasers, at[a] \in ReleaseSteps,
           at' = [at EXCEPT ![a] = AfterRelease(a)], box' = [box EXCEPT ![a] = NULL],
           queue' \in Seq(Actors), \A b \in Actors \ {a} : Runs(b) => Runs(b)',
           expired' \in [Sweeps -> SUBSET Ids], \A w \in Sweeps : expired'[w] \subseteq expired[w],
           faults' \in 0 .. MaxFaults, faults' >= faults, leaked \subseteq leaked', leaked' \subseteq Ids,
           folders' \subseteq folders, at[a] = "rm" \/ box[a] \in leaked',
           at[a] = "rm" => box[a] \notin folders' \/ box[a] \in leaked',
           UNCHANGED <<sandboxes, storing, content, boot, refused>>
    PROVE  RegistryInv'
<1>1. a \in Actors /\ a # Cron /\ at'[a] \notin ReleaseSteps \cup {"cloning"}
  BY Kinds DEF RegistryInv, TypeOK, AfterRelease, ReleaseSteps
<1>2. Up
  BY DEF RegistryInv, Booting, AfterRelease, ReleaseSteps
<1>3. TypeOK' /\ OwnSteps'
  BY <1>1, Kinds DEF RegistryInv, TypeOK, OwnSteps, VisitorSteps, AfterRelease, Releasers
<1>4. Booting' /\ Rebuilding'
  BY <1>1, <1>2, Kinds, RegistryAssumption DEF RegistryInv, Booting, Rebuilding, Up, TypeOK
<1>5. Cloning'
  BY <1>1, Kinds DEF RegistryInv, Cloning, Live, Full, TypeOK, Releasers, Actors
<1>6. Releasing'
  BY <1>1, Kinds DEF RegistryInv, Releasing, Live, TypeOK, Actors
<1>7. WithinLimit' /\ ServedIsFilled' /\ RefusedOnlyByFault'
  BY RegistryAssumption DEF RegistryInv, Safety, WithinLimit, ServedIsFilled, RefusedOnlyByFault, TypeOK
<1>8. \A b \in Releasers \ {a} : at'[b] = at[b] /\ box'[b] = box[b]
  BY Kinds DEF RegistryInv, TypeOK
<1>9. DatabasesAccounted'
  <2> SUFFICES ASSUME NEW t \in Ids, content[t] # "none"
               PROVE  \/ Live(t) \/ t \in leaked'
                      \/ \E b \in Releasers : box'[b] = t /\ at'[b] \in {"disconnect", "drop"}
    BY DEF DatabasesAccounted, Live
  <2>1. \/ Live(t) \/ t \in leaked
        \/ \E b \in Releasers : box[b] = t /\ at[b] \in {"disconnect", "drop"}
    BY <1>2 DEF RegistryInv, Safety, StorageAccounted, DatabasesAccounted
  <2> QED
    BY <1>8, <2>1
<1>10. FoldersAccounted'
  <2> SUFFICES ASSUME NEW t \in folders'
               PROVE  \/ content[t] # "none" \/ t \in leaked'
                      \/ \E b \in Releasers : box'[b] = t /\ at'[b] = "rm"
    BY DEF FoldersAccounted
  <2>1. \/ content[t] # "none" \/ t \in leaked
        \/ \E b \in Releasers : box[b] = t /\ at[b] = "rm"
    BY <1>2 DEF RegistryInv, Safety, StorageAccounted, FoldersAccounted
  <2> QED
    BY <1>8, <2>1
<1> QED
  BY <1>3, <1>4, <1>5, <1>6, <1>7, <1>9, <1>10 DEF RegistryInv, Safety, StorageAccounted

LEMMA RemoveInv == ASSUME RegistryInv, NEW a \in Releasers, Remove(a) PROVE RegistryInv'
<1>1. at[a] = "rm" /\ folders' = folders \ {box[a]} /\ UNCHANGED queue
  BY DEF Remove, RemoveFolder, memory
<1>2. queue' \in Seq(Actors) /\ \A b : Runs(b) => Runs(b)'
  BY <1>1 DEF RegistryInv, TypeOK, Runs
<1>3. /\ faults' \in 0 .. MaxFaults /\ faults' >= faults /\ leaked' = leaked /\ leaked \subseteq Ids
      /\ expired' \in [Sweeps -> SUBSET Ids] /\ \A w \in Sweeps : expired'[w] \subseteq expired[w]
  BY RegistryAssumption DEF Remove, RegistryInv, TypeOK
<1> QED
  BY <1>1, <1>2, <1>3, Released DEF Remove, memory, ReleaseSteps

LEMMA ReleaseFailsInv == ASSUME RegistryInv, NEW a \in Releasers, ReleaseFails(a) PROVE RegistryInv'
<1>1. box[a] \in Ids /\ at[a] \in ReleaseSteps
  BY DEF ReleaseFails, RegistryInv, Releasing
<1>2. queue' \in Seq(Actors) /\ \A b \in Actors \ {a} : Runs(b) => Runs(b)'
  <2>1. CASE at[a] = "drop"
    BY <2>1, Left DEF ReleaseFails, LeaveFailed, RegistryInv, TypeOK
  <2>2. CASE at[a] # "drop"
    BY <2>2 DEF ReleaseFails, RegistryInv, TypeOK, Runs
  <2> QED
    BY <2>1, <2>2
<1>3. expired' \in [Sweeps -> SUBSET Ids] /\ \A w \in Sweeps : expired'[w] \subseteq expired[w]
  BY DEF ReleaseFails, RegistryInv, TypeOK
<1>4. faults' \in 0 .. MaxFaults /\ faults' >= faults
  BY RegistryAssumption DEF ReleaseFails, Fault, RegistryInv, TypeOK
<1>5. /\ at' = [at EXCEPT ![a] = AfterRelease(a)] /\ box' = [box EXCEPT ![a] = NULL]
      /\ leaked' = leaked \cup {box[a]}
      /\ UNCHANGED <<sandboxes, storing, content, folders, boot, refused>>
  BY DEF ReleaseFails, disk
<1>6. leaked' \subseteq Ids
  BY <1>1, <1>5 DEF RegistryInv, TypeOK
<1> QED
  BY <1>1, <1>2, <1>3, <1>4, <1>5, <1>6, Released

-----------------------------------------------------------------------------
\* The rebuild of the template, which writes none of the sandboxes.
LEMMA Rebuilt ==
    ASSUME RegistryInv, NEW step \in RebuildSteps \cup {"idle"},
           at' = [at EXCEPT ![Cron] = step], queue' \in Seq(Actors),
           content' \in [Databases -> {"none", "base", "partial", "demo"}],
           \A s \in Ids : content'[s] = content[s],
           boot' \in {"orphans", "template", "up"}, Up => Up',
           Up' /\ ~Up => boot = "template", ~Up' => step = "idle" \/ boot' = "template",
           boot' = "template" => boot = "template" \/ ((\A s \in Ids : content[s] = "none") /\ folders' = {}),
           \A v \in Visitors : Runs(v) /\ at[v] = "cloning" => Runs(v)',
           faults' \in 0 .. MaxFaults, faults' >= faults, Rebuilding',
           folders' = folders \/ (folders' = {} /\ ~Up'),
           UNCHANGED <<sandboxes, box, expired, storing, refused, leaked>>
    PROVE  RegistryInv'
<1>1. \A a \in Releasers : at'[a] = at[a]
  BY Kinds DEF RegistryInv, TypeOK
<1>2. at'[Cron] = step
  BY Kinds DEF RegistryInv, TypeOK
<1>3. TypeOK'
  BY Kinds DEF RegistryInv, TypeOK
<1>4. OwnSteps'
  BY <1>1, <1>2 DEF RegistryInv, OwnSteps, Releasers
<1>5. Booting'
  BY <1>1, <1>2 DEF RegistryInv, Booting, Up, TypeOK
<1>6. Cloning' /\ Releasing'
  BY <1>1 DEF RegistryInv, Cloning, Releasing, Live, Full, Releasers
<1>7. Safety'
  <2>1. WithinLimit' /\ RefusedOnlyByFault'
    BY RegistryAssumption DEF RegistryInv, Safety, WithinLimit, RefusedOnlyByFault, TypeOK
  <2>2. ServedIsFilled'
    BY DEF RegistryInv, Safety, ServedIsFilled, TypeOK
  <2>3. StorageAccounted'
    <3>1. CASE Up
      BY <1>1, <3>1, StillAccounted DEF RegistryInv, Safety, TypeOK
    <3>2. CASE Up' /\ ~Up
      BY <3>2 DEF RegistryInv, Booting, StorageAccounted, DatabasesAccounted, FoldersAccounted
    <3>3. CASE ~Up'
      BY <3>3 DEF StorageAccounted, DatabasesAccounted, FoldersAccounted
    <3> QED
      BY <3>1, <3>2, <3>3
  <2> QED
    BY <2>1, <2>2, <2>3 DEF Safety
<1> QED
  BY <1>3, <1>4, <1>5, <1>6, <1>7 DEF RegistryInv

LEMMA RebuildStartsInv == ASSUME RegistryInv, RebuildStarts PROVE RegistryInv'
<1>1. /\ Up /\ at[Cron] = "idle" /\ at' = [at EXCEPT ![Cron] = "dropNext"] /\ Enter(Cron)
      /\ UNCHANGED <<sandboxes, box, expired, storing, content, folders, boot, refused, faults, leaked>>
  BY DEF RebuildStarts, disk
<1>2. queue' \in Seq(Actors) /\ \A b : Runs(b) => Runs(b)'
  BY <1>1, Entered, Kinds DEF RegistryInv, TypeOK
<1>3. Rebuilding'
  BY <1>1, <1>2, Kinds DEF RegistryInv, Rebuilding, Up, TypeOK
<1>4. faults' \in 0 .. MaxFaults /\ faults' >= faults
  BY <1>1, RegistryAssumption DEF RegistryInv, TypeOK
<1> QED
  BY <1>1, <1>2, <1>3, <1>4, Rebuilt DEF RegistryInv, TypeOK, Up, RebuildSteps

LEMMA StepInv ==
    ASSUME RegistryInv, NEW from \in RebuildSteps, NEW to \in RebuildSteps,
           NEW database \in {TEMPLATE_DATABASE, NEXT_TEMPLATE_DATABASE},
           NEW holds \in {"none", "base", "demo"}, Step(from, to, database, holds), Rebuilding'
    PROVE  RegistryInv'
<1>1. /\ at[Cron] = from /\ at' = [at EXCEPT ![Cron] = to]
      /\ content' = [content EXCEPT ![database] = holds]
      /\ UNCHANGED <<sandboxes, queue, box, expired, storing, folders, boot, refused, faults, leaked>>
  BY DEF Step, memory
<1>2. content' \in [Databases -> {"none", "base", "partial", "demo"}] /\ \A s \in Ids : content'[s] = content[s]
  BY <1>1, Kinds DEF RegistryInv, TypeOK
<1>3. ~Up => boot = "template"
  BY <1>1 DEF RegistryInv, Booting, TypeOK, Up, RebuildSteps
<1>4. faults' \in 0 .. MaxFaults /\ faults' >= faults
  BY <1>1, RegistryAssumption DEF RegistryInv, TypeOK
<1>5. \A v : Runs(v) => Runs(v)'
  BY <1>1 DEF Runs
<1> QED
  BY <1>1, <1>2, <1>3, <1>4, <1>5, Rebuilt DEF RegistryInv, TypeOK, Up

LEMMA StepsInv ==
    ASSUME RegistryInv, DropNext \/ Copy \/ Fill \/ DropTemplate PROVE RegistryInv'
<1>1. CASE DropNext
  BY <1>1, StepInv, Kinds
     DEF DropNext, Step, memory, RegistryInv, Rebuilding, RebuildSteps, Runs, Up, TypeOK
<1>2. CASE Copy
  BY <1>2, StepInv, Kinds
     DEF Copy, Step, memory, RegistryInv, Rebuilding, RebuildSteps, Runs, Up, TypeOK
<1>3. CASE Fill
  BY <1>3, StepInv, Kinds
     DEF Fill, Step, memory, RegistryInv, Rebuilding, RebuildSteps, Runs, Up, TypeOK
<1>4. CASE DropTemplate
  BY <1>4, StepInv, Kinds
     DEF DropTemplate, Step, memory, RegistryInv, Rebuilding, RebuildSteps, Runs, Up, TypeOK
<1> QED
  BY <1>1, <1>2, <1>3, <1>4

LEMMA RenameInv == ASSUME RegistryInv, Rename PROVE RegistryInv'
<1>1. /\ at[Cron] = "rename" /\ Runs(Cron) /\ at' = [at EXCEPT ![Cron] = "idle"] /\ boot' = "up"
      /\ UNCHANGED <<sandboxes, box, expired, storing, folders, refused, faults, leaked>>
  BY DEF Rename
<1>2. queue' \in Seq(Actors) /\ \A b : Runs(b) => b = Cron
  BY <1>1, Left DEF Rename, RegistryInv, TypeOK
<1>3. /\ content' \in [Databases -> {"none", "base", "partial", "demo"}]
      /\ \A s \in Ids : content'[s] = content[s]
      /\ content'[TEMPLATE_DATABASE] = "demo"
  BY <1>1, Kinds DEF Rename, RegistryInv, Rebuilding, TypeOK
<1>4. ~Up => boot = "template"
  BY <1>1 DEF RegistryInv, Booting, TypeOK, Up
<1>5. faults' \in 0 .. MaxFaults /\ faults' >= faults
  BY <1>1, RegistryAssumption DEF RegistryInv, TypeOK
<1>6. Rebuilding'
  BY <1>1, <1>3, Kinds DEF Rebuilding, RegistryInv, TypeOK, RebuildSteps
<1>7. \A v \in Visitors : ~Runs(v)
  BY <1>2, Kinds DEF Releasers
<1> QED
  BY <1>1, <1>2, <1>3, <1>4, <1>5, <1>6, <1>7, Rebuilt DEF Up

LEMMA RebuildFailsInv == ASSUME RegistryInv, RebuildFails PROVE RegistryInv'
<1>1. /\ at[Cron] \in RebuildSteps /\ Runs(Cron) /\ at' = [at EXCEPT ![Cron] = "idle"]
      /\ UNCHANGED <<sandboxes, box, expired, storing, folders, refused, leaked>>
  BY DEF RebuildFails, AfterFailedFill
<1>2. at'[Cron] = "idle"
  BY <1>1, Kinds DEF RegistryInv, TypeOK
<1>3. \/ Up /\ Leave /\ UNCHANGED boot
      \/ ~Up /\ queue' = <<>> /\ boot' = "orphans"
  BY <1>2 DEF RebuildFails, LeaveFailed
<1>4. queue' \in Seq(Actors) /\ \A b : Runs(b) => b = Cron
  <2>1. CASE Leave
    BY <1>1, <2>1, Left DEF RegistryInv, TypeOK
  <2>2. CASE queue' = <<>>
    BY <1>1, <2>2 DEF Runs
  <2> QED
    BY <1>3, <2>1, <2>2
<1>5. /\ content' \in [Databases -> {"none", "base", "partial", "demo"}]
      /\ \A s \in Ids \cup {TEMPLATE_DATABASE} : content'[s] = content[s]
  BY Kinds DEF RebuildFails, RegistryInv, TypeOK
<1>6. faults' \in 0 .. MaxFaults /\ faults' > 0 /\ faults' >= faults
  BY RegistryAssumption DEF RebuildFails, Fault, RegistryInv, TypeOK
<1>7. Rebuilding'
  BY <1>2, <1>5, <1>6 DEF Rebuilding, RegistryInv, RebuildSteps
<1>8. \A v \in Visitors : ~Runs(v)
  BY <1>4, Kinds DEF Releasers
<1> QED
  BY <1>1, <1>2, <1>3, <1>4, <1>5, <1>6, <1>7, <1>8, Rebuilt DEF Up, RegistryInv, TypeOK

-----------------------------------------------------------------------------
\* The boot, and a restart.
LEMMA RemoveOrphanFoldersInv == ASSUME RegistryInv, RemoveOrphanFolders PROVE RegistryInv'
<1>1. /\ boot = "orphans" /\ folders' = {} /\ boot' = "template"
      /\ at' = [at EXCEPT ![Cron] = "dropNext"] /\ Enter(Cron)
      /\ UNCHANGED <<sandboxes, box, expired, storing, content, refused, faults, leaked>>
      /\ \A s \in Ids : content[s] = "none"
  BY DEF RemoveOrphanFolders, Orphans
<1>2. queue' \in Seq(Actors) /\ \A b : Runs(b) => Runs(b)'
  BY <1>1, Entered, Kinds DEF RegistryInv, TypeOK
<1>3. Rebuilding'
  BY <1>1, <1>2, Kinds DEF RegistryInv, Rebuilding, Up, TypeOK, RebuildSteps
<1>4. faults' \in 0 .. MaxFaults /\ faults' >= faults
  BY <1>1, RegistryAssumption DEF RegistryInv, TypeOK
<1> QED
  BY <1>1, <1>2, <1>3, <1>4, Rebuilt DEF RegistryInv, TypeOK, Up, RebuildSteps

LEMMA DropOrphanInv == ASSUME RegistryInv, DropOrphan PROVE RegistryInv'
<1>1. /\ boot = "orphans" /\ \E s \in Ids : content' = [content EXCEPT ![s] = "none"]
      /\ UNCHANGED <<sandboxes, queue, at, box, expired, storing, folders, boot, refused, faults, leaked>>
  BY DEF DropOrphan, Orphans, memory
<1>2. TypeOK' /\ OwnSteps'
  BY <1>1, Kinds DEF RegistryInv, TypeOK, OwnSteps
<1>3. Booting' /\ Rebuilding'
  BY <1>1, Kinds DEF RegistryInv, Booting, Rebuilding, Up, Runs, AfterRelease, TypeOK
<1>4. Cloning' /\ Releasing'
  BY <1>1 DEF RegistryInv, Cloning, Releasing, Live, Full, Runs
<1>5. Safety'
  BY <1>1 DEF RegistryInv, Booting, Up, Safety, WithinLimit, ServedIsFilled, RefusedOnlyByFault,
     StorageAccounted, DatabasesAccounted, FoldersAccounted
<1> QED
  BY <1>2, <1>3, <1>4, <1>5 DEF RegistryInv

LEMMA RestartInv == ASSUME RegistryInv, Restart PROVE RegistryInv'
<1>1. /\ DOMAIN sandboxes' = {} /\ ~Up' /\ boot' = "orphans"
      /\ at' = [a \in Actors |-> AfterRelease(a)] /\ box' = [a \in Releasers |-> NULL]
      /\ UNCHANGED <<content, folders, refused>>
  BY DEF Restart, NoSandboxes, disk, Up
<1>2. faults' \in 0 .. MaxFaults /\ faults' > 0
  BY RegistryAssumption DEF Restart, Fault, RegistryInv, TypeOK
<1>3. TypeOK'
  BY <1>1, <1>2 DEF Restart, RegistryInv, TypeOK, NoSandboxes, AfterRelease, VisitorSteps
<1>4. OwnSteps' /\ Booting'
  BY <1>1, Kinds DEF Restart, OwnSteps, Booting, AfterRelease, Releasers, Actors, VisitorSteps
<1>5. Rebuilding' /\ Cloning' /\ Releasing'
  BY <1>1, Kinds DEF RegistryInv, Rebuilding, Cloning, Releasing, AfterRelease, Releasers, Actors,
     RebuildSteps, ReleaseSteps
<1>6. WithinLimit'
  BY <1>1, FS_EmptySet, RegistryAssumption DEF WithinLimit
<1>7. ServedIsFilled' /\ RefusedOnlyByFault' /\ StorageAccounted'
  BY <1>1, <1>2 DEF ServedIsFilled, RefusedOnlyByFault, StorageAccounted, DatabasesAccounted,
     FoldersAccounted
<1> QED
  BY <1>3, <1>4, <1>5, <1>6, <1>7 DEF RegistryInv, Safety

-----------------------------------------------------------------------------
LEMMA RegistryNextInv == RegistryInv /\ [Next]_vars => RegistryInv'
<1> SUFFICES ASSUME RegistryInv, [Next]_vars PROVE RegistryInv'
  OBVIOUS
<1>1. ASSUME NEW v \in Visitors, Ask(v) \/ Creates(v) \/ Work(v) \/ Abandon(v) \/ Logout(v)
      PROVE  RegistryInv'
  BY <1>1, AskInv, BeginInv, CloneInv, CloneFailsInv, WorkInv, AbandonInv, LogoutInv DEF Creates
<1>2. ASSUME NEW v \in Uploaders, UploadRow(v) \/ UploadFile(v) PROVE RegistryInv'
  BY <1>2, UploadRowInv, UploadFileInv
<1>3. ASSUME NEW w \in Sweeps, Sweep(w) \/ ReleaseNext(w) PROVE RegistryInv'
  BY <1>3, SweepInv, ReleaseNextInv
<1>4. ASSUME NEW a \in Releasers, Releases(a) PROVE RegistryInv'
  BY <1>4, DisconnectInv, DropInv, RemoveInv, ReleaseFailsInv DEF Releases
<1>5. CASE RebuildStarts \/ Rebuilds
  BY <1>5, RebuildStartsInv, StepsInv, RenameInv, RebuildFailsInv DEF Rebuilds
<1>6. CASE Boots \/ Restart \/ Tick
  BY <1>6, RemoveOrphanFoldersInv, DropOrphanInv, RestartInv, TickInv DEF Boots
<1>7. CASE UNCHANGED vars
  <2>1. UNCHANGED <<sandboxes, queue, at, box, expired, storing, disk, boot, refused, faults, leaked>>
    BY <1>7 DEF vars, disk
  <2> QED
    BY <2>1, TouchedInv DEF RegistryInv, TypeOK
<1> QED
  BY <1>1, <1>2, <1>3, <1>4, <1>5, <1>6, <1>7 DEF Next

\* The inductive invariant of the registry: a creation that has its turn keeps
\* it, with a place and an id of its own, a sandbox is out of the map before its
\* database goes, and the template in place is always a filled one.
THEOREM RegistryInvHolds == Spec => []RegistryInv
BY RegistryInitInv, RegistryNextInv, PTL DEF Spec

\* Every variable has its type.
THEOREM RegistryTypeCorrect == Spec => []TypeOK
BY RegistryInvHolds, PTL DEF RegistryInv

\* However logins, releases, sweeps and rebuilds wait for one another, the map
\* holds at most MAX_SANDBOXES.
THEOREM WithinLimitHolds == Spec => []WithinLimit
BY RegistryInvHolds, PTL DEF RegistryInv, Safety

\* Whatever fails or restarts, a sandbox in the map has a filled database.
THEOREM ServedIsFilledHolds == Spec => []ServedIsFilled
BY RegistryInvHolds, PTL DEF RegistryInv, Safety

\* Without a fault no visitor is told that the demo is unavailable.
THEOREM RefusedOnlyByFaultHolds == Spec => []RefusedOnlyByFault
BY RegistryInvHolds, PTL DEF RegistryInv, Safety

\* No database and no folder is lost track of, but by a failed release, a late
\* upload, or until the next boot.
THEOREM StorageAccountedHolds == Spec => []StorageAccounted
BY RegistryInvHolds, PTL DEF RegistryInv, Safety
=============================================================================
