-------------------------- MODULE SandboxRegistry --------------------------
(***************************************************************************)
(* The demo's sandboxes: SandboxRegistry (prisma/sandbox-registry.ts) with  *)
(* the actors that use it: visitors who log in, work, upload and log out    *)
(* (demo.service.ts, auth.controller.ts, attachments.service.ts), the       *)
(* cleanup of expired sandboxes and the daily rebuild of the template       *)
(* (demo-scheduler.ts, template-builder.ts), and the boot of the process.   *)
(*                                                                          *)
(* The registry is memory; databases and upload directories outlive the     *)
(* process.  Statements on whole databases go through one queue of          *)
(* promises (exclusive); everything else interleaves at every await.        *)
(***************************************************************************)
EXTENDS Naturals, Sequences, FiniteSets, Functions

CONSTANTS
    Visitors,        \* visitors of the demo page
    Uploaders,       \* those who attach files to sales
    Sweeps,          \* runs of dropExpired that may overlap
    Cron,            \* the daily rebuild, which the boot also runs
    Ids,             \* sandbox ids; one without any trace left may be drawn again
    MAX_SANDBOXES,
    IDLE,            \* SANDBOX_IDLE_MS, in ticks of the clock
    LIFETIME,        \* SANDBOX_MAX_LIFETIME_MS, in ticks of the clock
    MaxFaults,       \* bound on failed statements and restarts
    NULL             \* "no sandbox"

TEMPLATE_DATABASE      == "demo_template"
NEXT_TEMPLATE_DATABASE == "demo_template_next"

Actors    == Visitors \cup Sweeps \cup {Cron}
Releasers == Visitors \cup Sweeps
Databases == Ids \cup {TEMPLATE_DATABASE, NEXT_TEMPLATE_DATABASE}

ASSUME RegistryAssumption ==
    /\ Uploaders \subseteq Visitors
    /\ Visitors \cap Sweeps = {}
    /\ Cron \notin Visitors \cup Sweeps
    /\ TEMPLATE_DATABASE \notin Ids /\ NEXT_TEMPLATE_DATABASE \notin Ids
    /\ NULL \notin Ids
    /\ IsFiniteSet(Ids)
    /\ MAX_SANDBOXES \in Nat
    /\ IDLE \in Nat /\ LIFETIME \in Nat /\ MaxFaults \in Nat

VARIABLES
    sandboxes,   \* the map: sandboxes[s].idle and .age, ticks since lastSeenAt and createdAt
    queue,       \* the actors whose exclusive task waits or runs, oldest first
    at,          \* at[a]: the next step of actor a
    box,         \* box[a]: the sandbox actor a works in or on
    expired,     \* expired[w]: what is left of the list dropExpired computed
    storing,     \* storing[v]: the sandbox v's upload created its row in, or NULL
    content,     \* content[d]: what database d holds, or "none" if there is none
    folders,     \* ids with a folder under UPLOAD_DIR
    boot,        \* "orphans" and "template" before the server listens, then "up"
    refused,     \* visitors who were told DEMO_UNAVAILABLE
    faults,      \* how many faults there were
    leaked       \* history variable: ids whose release failed or was overtaken by an upload

memory == <<sandboxes, queue>>
disk   == <<content, folders>>
vars   == <<sandboxes, queue, at, box, expired, storing, content,
            folders, boot, refused, faults, leaked>>

VisitorSteps == {"out", "asked", "cloning", "in"}
ReleaseSteps == {"disconnect", "drop", "rm"}
RebuildSteps == {"dropNext", "copy", "fill", "dropTemplate", "rename"}

\* Actors with a task in the queue.
Queued == {"asked", "cloning", "drop"} \cup RebuildSteps

Up == boot = "up"

Live(s) == s \in DOMAIN sandboxes

\* Nothing is left of an id, so that it stands for a new one (randomUUID).
Untraced(s) ==
    /\ ~Live(s)
    /\ content[s] = "none"
    /\ s \notin folders
    /\ \A a \in Releasers : box[a] # s
    /\ \A w \in Sweeps : s \notin expired[w]
    /\ \A v \in Uploaders : storing[v] # s

-----------------------------------------------------------------------------
\* exclusive(): tasks run one at a time, in the order they were asked for.

\* Mutant of Runs: a task starts as soon as it is asked for.
RunsAtOnce(a) == \E i \in DOMAIN queue : queue[i] = a

Runs(a) == queue # <<>> /\ Head(queue) = a

Enter(a) == queue' = Append(queue, a)

\* The task is over, and the next one starts ...
Leave == queue' = Tail(queue)

\* Mutant of LeaveFailed: tasks behind a rejected one never start.
LeaveFailedStuck == queue' = [queue EXCEPT ![1] = NULL]

\* ... when it was rejected as well: this.queue = run.catch(() => undefined).
LeaveFailed == Leave

Fault == faults < MaxFaults /\ faults' = faults + 1

\* client(sandboxId), which every query of a request in s goes through.
Touch(s) == sandboxes' = [sandboxes EXCEPT ![s].idle = 0]

Fresh == [idle |-> 0, age |-> 0]

\* sandboxes.set(sandboxId, ...)
Register(s) == [t \in DOMAIN sandboxes \cup {s} |-> IF t = s THEN Fresh ELSE sandboxes[t]]

-----------------------------------------------------------------------------
\* Visitors: demo.service.ts, and the requests of a session.

\* DemoService.login asks for a sandbox.
Ask(v) ==
    /\ Up
    /\ at[v] = "out"
    /\ at' = [at EXCEPT ![v] = "asked"]
    /\ Enter(v)
    /\ UNCHANGED <<sandboxes, box, expired, storing, disk, boot, refused,
                   faults, leaked>>

\* Mutant of Full: the limit is passed by one.
FullAbove == Cardinality(DOMAIN sandboxes) > MAX_SANDBOXES

Full == Cardinality(DOMAIN sandboxes) >= MAX_SANDBOXES

\* create(), up to the clone: DEMO_FULL or a new id.
Begin(v) ==
    /\ at[v] = "asked"
    /\ Runs(v)
    /\ \/ /\ Full
          /\ at' = [at EXCEPT ![v] = "out"]
          /\ Leave
          /\ UNCHANGED box
       \/ /\ ~Full
          /\ \E s \in Ids :
                /\ Untraced(s)
                /\ box' = [box EXCEPT ![v] = s]
          /\ at' = [at EXCEPT ![v] = "cloning"]
          /\ UNCHANGED queue
    /\ UNCHANGED <<sandboxes, expired, storing, disk, boot, refused, faults, leaked>>

\* Mutant of Clone: the sandbox is registered before its database is copied.
CloneLate(v) ==
    /\ at[v] = "cloning"
    /\ Runs(v)
    /\ \/ /\ ~Live(box[v])
          /\ sandboxes' = Register(box[v])
          /\ UNCHANGED <<content, at, queue>>
       \/ /\ Live(box[v])
          /\ content' = [content EXCEPT ![box[v]] = content[TEMPLATE_DATABASE]]
          /\ at' = [at EXCEPT ![v] = "in"]
          /\ Leave
          /\ UNCHANGED sandboxes
    /\ UNCHANGED <<box, expired, storing, folders, boot, refused, faults, leaked>>

\* The template is copied and the sandbox registered.
Clone(v) ==
    /\ at[v] = "cloning"
    /\ Runs(v)
    /\ content[TEMPLATE_DATABASE] # "none"
    /\ content' = [content EXCEPT ![box[v]] = content[TEMPLATE_DATABASE]]
    /\ sandboxes' = Register(box[v])
    /\ at' = [at EXCEPT ![v] = "in"]
    /\ Leave
    /\ UNCHANGED <<box, expired, storing, folders, boot, refused, faults, leaked>>

\* The copy fails, which it does for sure without a template.
CloneFails(v) ==
    /\ at[v] = "cloning"
    /\ Runs(v)
    /\ \/ Fault
       \/ content[TEMPLATE_DATABASE] = "none" /\ UNCHANGED faults
    /\ at' = [at EXCEPT ![v] = "out"]
    /\ box' = [box EXCEPT ![v] = NULL]
    /\ refused' = refused \cup {v}
    /\ LeaveFailed
    /\ UNCHANGED <<sandboxes, expired, storing, disk, boot, leaked>>

\* Any request of a visitor, switching the profile included.
Work(v) ==
    /\ at[v] = "in"
    /\ Live(box[v])
    /\ Touch(box[v])
    /\ UNCHANGED <<queue, at, box, expired, storing, disk, boot,
                   refused, faults, leaked>>

\* The session did not start, the browser is closed, or the sandbox is gone
\* (DEMO_SESSION_EXPIRED): the visitor is out and the sandbox stays as it is.
Abandon(v) ==
    /\ at[v] = "in"
    /\ at' = [at EXCEPT ![v] = "out"]
    /\ box' = [box EXCEPT ![v] = NULL]
    /\ UNCHANGED <<memory, expired, storing, disk, boot, refused, faults, leaked>>

\* AttachmentsService.upload as far as the row of the attachment.
UploadRow(v) ==
    /\ at[v] = "in"
    /\ Live(box[v])
    /\ storing[v] = NULL
    /\ storing' = [storing EXCEPT ![v] = box[v]]
    /\ Touch(box[v])
    /\ UNCHANGED <<queue, at, box, expired, disk, boot, refused, faults, leaked>>

\* mkdir and rename: the path needs no look into the registry.  The update of
\* the row that follows fails if the sandbox is gone, and changes nothing here.
UploadFile(v) ==
    /\ storing[v] # NULL
    /\ folders' = folders \cup {storing[v]}
    /\ storing' = [storing EXCEPT ![v] = NULL]
    /\ leaked' = IF \/ content[storing[v]] # "none"
                    \/ \E a \in Releasers : box[a] = storing[v] /\ at[a] = "rm"
                 THEN leaked
                 ELSE leaked \cup {storing[v]}
    /\ UNCHANGED <<memory, at, box, expired, content, boot, refused, faults>>

-----------------------------------------------------------------------------
\* release(sandboxId), by the logout of a visitor or by a sweep.

\* Mutant of Unregister: the sandbox stays in the map while it is dropped.
UnregisterNot(s) == sandboxes

\* sandboxes.delete(sandboxId), before anything else is dropped.
Unregister(s) == Restrict(sandboxes, DOMAIN sandboxes \ {s})

\* Where a releaser is when its release is over or has failed: a visitor is out
\* either way (the failure is only logged), a sweep goes on or waits for its next turn.
AfterRelease(a) == IF a \in Visitors THEN "out" ELSE "idle"

Logout(v) ==
    /\ at[v] = "in"
    /\ Live(box[v])
    /\ sandboxes' = Unregister(box[v])
    /\ at' = [at EXCEPT ![v] = "disconnect"]
    /\ UNCHANGED <<queue, box, expired, storing, disk, boot, refused, faults, leaked>>

\* $disconnect of the sandbox's client, then the drop is queued.
Disconnect(a) ==
    /\ at[a] = "disconnect"
    /\ at' = [at EXCEPT ![a] = "drop"]
    /\ Enter(a)
    /\ UNCHANGED <<sandboxes, box, expired, storing, disk, boot, refused,
                   faults, leaked>>

Drop(a) ==
    /\ at[a] = "drop"
    /\ Runs(a)
    /\ content' = [content EXCEPT ![box[a]] = "none"]
    /\ at' = [at EXCEPT ![a] = "rm"]
    /\ Leave
    /\ UNCHANGED <<sandboxes, box, expired, storing, folders, boot, refused,
                   faults, leaked>>

\* Mutant of RemoveFolder: the uploads of a sandbox stay.
KeepFolder(s) == folders

RemoveFolder(s) == folders \ {s}

\* rm of the upload directory ends the release.
Remove(a) ==
    /\ at[a] = "rm"
    /\ folders' = RemoveFolder(box[a])
    /\ at' = [at EXCEPT ![a] = AfterRelease(a)]
    /\ box' = [box EXCEPT ![a] = NULL]
    /\ UNCHANGED <<memory, expired, storing, content, boot, refused, faults, leaked>>

\* A rejected $disconnect, DROP DATABASE or rm.  A logout logs it; a sweep
\* ends there, with the rest of its list not released.
ReleaseFails(a) ==
    /\ at[a] \in ReleaseSteps
    /\ at[a] = "drop" => Runs(a)
    /\ Fault
    /\ at' = [at EXCEPT ![a] = AfterRelease(a)]
    /\ box' = [box EXCEPT ![a] = NULL]
    /\ expired' = IF a \in Sweeps THEN [expired EXCEPT ![a] = {}] ELSE expired
    /\ leaked' = leaked \cup {box[a]}
    /\ IF at[a] = "drop" THEN LeaveFailed ELSE UNCHANGED queue
    /\ UNCHANGED <<sandboxes, storing, disk, boot, refused>>

-----------------------------------------------------------------------------
\* dropExpired().

\* Mutant of Expired: only idle sandboxes expire.
ExpiredIdle(s) == Live(s) /\ sandboxes[s].idle > IDLE

Expired(s) == Live(s) /\ (sandboxes[s].idle > IDLE \/ sandboxes[s].age > LIFETIME)

\* The list is computed once ...
Sweep(w) ==
    /\ Up
    /\ at[w] = "idle"
    /\ expired[w] = {}
    /\ expired' = [expired EXCEPT ![w] = {s \in Ids : Expired(s)}]
    /\ expired'[w] # {}
    /\ UNCHANGED <<memory, at, box, storing, disk, boot, refused, faults, leaked>>

\* ... and released one by one, whatever has happened to a sandbox since.
ReleaseNext(w) ==
    /\ at[w] = "idle"
    /\ \E s \in expired[w] :
        /\ expired' = [expired EXCEPT ![w] = @ \ {s}]
        /\ box' = [box EXCEPT ![w] = s]
        /\ sandboxes' = Unregister(s)
    /\ at' = [at EXCEPT ![w] = "disconnect"]
    /\ UNCHANGED <<queue, storing, disk, boot, refused, faults, leaked>>

-----------------------------------------------------------------------------
\* TemplateBuilder.rebuild(), daily and at boot: one task of six steps.

RebuildStarts ==
    /\ Up
    /\ at[Cron] = "idle"
    /\ at' = [at EXCEPT ![Cron] = "dropNext"]
    /\ Enter(Cron)
    /\ UNCHANGED <<sandboxes, box, expired, storing, disk, boot, refused, faults, leaked>>

\* One statement of the rebuild, inside its task.
Step(from, to, database, holds) ==
    /\ at[Cron] = from
    /\ Runs(Cron)
    /\ content' = [content EXCEPT ![database] = holds]
    /\ at' = [at EXCEPT ![Cron] = to]
    /\ UNCHANGED <<memory, box, expired, storing, folders, boot, refused, faults, leaked>>

DropNext     == Step("dropNext", "copy", NEXT_TEMPLATE_DATABASE, "none")
\* A copy of the client's own database ...
Copy         == Step("copy", "fill", NEXT_TEMPLATE_DATABASE, "base")
\* ... cleared and filled with the demo data.
Fill         == Step("fill", "dropTemplate", NEXT_TEMPLATE_DATABASE, "demo")
DropTemplate == Step("dropTemplate", "rename", TEMPLATE_DATABASE, "none")

\* The server listens once the template of the boot is there.
Rename ==
    /\ at[Cron] = "rename"
    /\ Runs(Cron)
    /\ content' = [content EXCEPT ![TEMPLATE_DATABASE] = content[NEXT_TEMPLATE_DATABASE],
                                  ![NEXT_TEMPLATE_DATABASE] = "none"]
    /\ at' = [at EXCEPT ![Cron] = "idle"]
    /\ boot' = "up"
    /\ Leave
    /\ UNCHANGED <<sandboxes, box, expired, storing, folders, refused, faults, leaked>>

\* Mutant of AfterFailedFill: the error of the fill is swallowed.
SwallowFailedFill == "dropTemplate"

\* Where the rebuild is after its fill has failed: the error goes up.
AfterFailedFill == "idle"

\* A statement fails.  A failed fill leaves some of the rows written; a failed
\* rebuild at boot ends the process, which is then started again.
RebuildFails ==
    /\ at[Cron] \in RebuildSteps
    /\ Runs(Cron)
    /\ Fault
    /\ at' = [at EXCEPT ![Cron] = IF at[Cron] = "fill" THEN AfterFailedFill ELSE "idle"]
    /\ content' = IF at[Cron] = "fill"
                  THEN [content EXCEPT ![NEXT_TEMPLATE_DATABASE] = "partial"]
                  ELSE content
    /\ \/ at'[Cron] # "idle" /\ UNCHANGED <<queue, boot>>
       \/ at'[Cron] = "idle" /\ Up /\ LeaveFailed /\ UNCHANGED boot
       \/ at'[Cron] = "idle" /\ ~Up /\ queue' = <<>> /\ boot' = "orphans"
    /\ UNCHANGED <<sandboxes, box, expired, storing, folders, refused, leaked>>

-----------------------------------------------------------------------------
\* The process starts, and starts again after a crash or a deploy.

\* The sandbox databases listDatabases finds.
Orphans == {s \in Ids : content[s] # "none"}

\* dropOrphans, one database at a time ...
DropOrphan ==
    /\ boot = "orphans"
    /\ \E s \in Orphans : content' = [content EXCEPT ![s] = "none"]
    /\ UNCHANGED <<memory, at, box, expired, storing, folders, boot, refused, faults, leaked>>

\* ... then their upload folders; the template is built next.
RemoveOrphanFolders ==
    /\ boot = "orphans"
    /\ Orphans = {}
    /\ folders' = {}
    /\ boot' = "template"
    /\ at' = [at EXCEPT ![Cron] = "dropNext"]
    /\ Enter(Cron)
    /\ UNCHANGED <<sandboxes, box, expired, storing, content, refused, faults, leaked>>

NoSandboxes == [s \in {} |-> Fresh]

\* The process dies and is started again: what it held in memory is gone.
Restart ==
    /\ Fault
    /\ sandboxes' = NoSandboxes
    /\ queue' = <<>>
    /\ at' = [a \in Actors |-> AfterRelease(a)]
    /\ box' = [a \in Releasers |-> NULL]
    /\ expired' = [w \in Sweeps |-> {}]
    /\ storing' = [v \in Uploaders |-> NULL]
    /\ boot' = "orphans"
    /\ leaked' = {}
    /\ UNCHANGED <<disk, refused>>

Later(n, limit) == IF n > limit THEN n ELSE n + 1

\* Time passes; past its limit the age of a sandbox makes no difference.
Tick ==
    /\ Up
    /\ sandboxes' = [s \in DOMAIN sandboxes |->
                        [idle |-> Later(sandboxes[s].idle, IDLE),
                         age  |-> Later(sandboxes[s].age, LIFETIME)]]
    /\ UNCHANGED <<queue, at, box, expired, storing, disk, boot, refused, faults, leaked>>

-----------------------------------------------------------------------------
Init ==
    /\ sandboxes = NoSandboxes
    /\ queue = <<>>
    /\ at = [a \in Actors |-> AfterRelease(a)]
    /\ box = [a \in Releasers |-> NULL]
    /\ expired = [w \in Sweeps |-> {}]
    /\ storing = [v \in Uploaders |-> NULL]
    /\ content = [d \in Databases |-> "none"]
    /\ folders = {}
    /\ boot = "orphans"
    /\ refused = {}
    /\ faults = 0
    /\ leaked = {}

Creates(v)  == Begin(v) \/ Clone(v) \/ CloneFails(v)
Releases(a) == Disconnect(a) \/ Drop(a) \/ Remove(a) \/ ReleaseFails(a)
Rebuilds    == DropNext \/ Copy \/ Fill \/ DropTemplate \/ Rename \/ RebuildFails
Boots       == DropOrphan \/ RemoveOrphanFolders

Next ==
    \/ \E v \in Visitors : Ask(v) \/ Creates(v) \/ Work(v) \/ Abandon(v)
                           \/ Logout(v)
    \/ \E v \in Uploaders : UploadRow(v) \/ UploadFile(v)
    \/ \E w \in Sweeps : Sweep(w) \/ ReleaseNext(w)
    \/ \E a \in Releasers : Releases(a)
    \/ RebuildStarts
    \/ Rebuilds
    \/ Boots
    \/ Restart
    \/ Tick

Spec == Init /\ [][Next]_vars

\* What is under way goes on, the timers keep firing, and time passes; no
\* visitor has to do anything.
Fairness ==
    /\ \A v \in Visitors : WF_vars(Creates(v))
    /\ \A v \in Uploaders : WF_vars(UploadFile(v))
    /\ \A a \in Releasers : WF_vars(Releases(a))
    /\ \A w \in Sweeps : WF_vars(Sweep(w)) /\ WF_vars(ReleaseNext(w))
    /\ WF_vars(RebuildStarts)
    /\ WF_vars(Rebuilds)
    /\ WF_vars(Boots)
    /\ WF_vars(Tick)

FairSpec == Spec /\ Fairness

-----------------------------------------------------------------------------
TypeOK ==
    /\ DOMAIN sandboxes \subseteq Ids
    /\ sandboxes \in [DOMAIN sandboxes -> [idle : 0 .. IDLE + 1, age : 0 .. LIFETIME + 1]]
    /\ queue \in Seq(Actors)
    /\ at \in [Actors -> VisitorSteps \cup ReleaseSteps \cup RebuildSteps \cup {"idle"}]
    /\ box \in [Releasers -> Ids \cup {NULL}]
    /\ expired \in [Sweeps -> SUBSET Ids]
    /\ storing \in [Uploaders -> Ids \cup {NULL}]
    /\ content \in [Databases -> {"none", "base", "partial", "demo"}]
    /\ folders \subseteq Ids
    /\ boot \in {"orphans", "template", "up"}
    /\ refused \subseteq Visitors
    /\ faults \in 0 .. MaxFaults
    /\ leaked \subseteq Ids

\* The map never outgrows MAX_SANDBOXES, although create() tests its size
\* before the clone and fills it after: the queue keeps two creations apart.
WithinLimit == Cardinality(DOMAIN sandboxes) <= MAX_SANDBOXES

\* A sandbox in the map has its database, with all of the demo data and none
\* of the client's own: release() takes it from the map before the database
\* goes, create() puts it in after the clone, and a rebuild that failed never
\* becomes the template.
ServedIsFilled == \A s \in DOMAIN sandboxes : content[s] = "demo"

\* Without a fault nobody is told DEMO_UNAVAILABLE: in the queue no clone ever
\* falls between the drop of the old template and the rename of the new one.
RefusedOnlyByFault == refused # {} => faults > 0

\* While the server is up every sandbox database is in the map, or a release
\* that did not fail is about to drop it; the boot leaves none behind.
DatabasesAccounted ==
    Up => \A s \in Ids : content[s] # "none" =>
              \/ Live(s)
              \/ s \in leaked
              \/ \E a \in Releasers : box[a] = s /\ at[a] \in {"disconnect", "drop"}

\* Upload folders go with their sandbox, but for the two ways one is left
\* behind until the next boot: a release that failed, and a late upload.
FoldersAccounted ==
    Up => \A s \in folders :
              \/ content[s] # "none"
              \/ s \in leaked
              \/ \E a \in Releasers : box[a] = s /\ at[a] = "rm"

\* What sandboxes leave behind is known: no database and no folder is lost track
\* of, but by a failed release, a late upload, or until the next boot.
StorageAccounted == DatabasesAccounted /\ FoldersAccounted

\* A login is answered, whatever failed before it in the queue.
LoginAnswered == \A v \in Visitors : at[v] \in {"asked", "cloning"} ~> at[v] \in {"in", "out"}

\* A failed rebuild may leave the demo without a template, but not for good.
TemplateReturns == []<>(content[TEMPLATE_DATABASE] = "demo")

\* Every sandbox ends, even when its visitor never stops working: its database
\* is dropped unless the release fails.
SandboxesEnd ==
    \A s \in Ids : content[s] # "none" ~> content[s] = "none" \/ s \in leaked
=============================================================================
