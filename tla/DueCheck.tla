------------------------------ MODULE DueCheck ------------------------------
(***************************************************************************)
(* The check for sales that fall due, NotificationsService.runDueCheck: the  *)
(* job of every morning and the runs that users ask for, on a calendar of    *)
(* months that are not equally long.                                        *)
(***************************************************************************)
EXTENDS Naturals, Sequences

CONSTANTS
    Calendar,   \* the day of the month of each day, in order
    Offsets,    \* DUE_NOTIFICATION_DAYS
    Watchers,   \* users with notifications.collections
    Sellers,    \* the other users; each has one sale
    Runs,       \* the runs that may overlap
    MaxRuns,    \* bound on the runs
    MaxCancels  \* bound on sales canceled and sellers deactivated

VARIABLES
    day,        \* the number of the day
    dueDay,     \* seller -> the due day of his sale
    open,       \* sellers whose sale is not canceled
    active,     \* sellers who are active
    notices,    \* the notifications, each with the number of the run that made it
    run,        \* what each run has read
    started,    \* the runs so far
    overlapped, \* days on which two runs were under way at once, or one went past midnight
    cancels

dueVars == <<day, dueDay, open, active, notices, run, started, overlapped, cancels>>

Days == DOMAIN Calendar
Idle == [at |-> "idle"]

\* The due day that each offset aims at.
Targets(d) == {[offset |-> o, due |-> Calendar[d + o]] : o \in {x \in Offsets : d + x \in Days}}

DueKey(n) == <<n.user, n.due, n.offset>>

Due(target) == {s \in open : dueDay[s] = target.due}

\* Who is told about a target that has sales: the watchers about all of them,
\* each active seller about his own.
Audience(target) ==
    IF Due(target) = {} THEN {} ELSE Watchers \cup (Due(target) \cap active)

-----------------------------------------------------------------------------

Others(r) == {q \in Runs \ {r} : run[q].at # "idle"}

Start(r) ==
    /\ run[r].at = "idle" /\ started < MaxRuns
    /\ started' = started + 1
    /\ run' = [run EXCEPT ![r] = [at |-> "started", day |-> day]]
    /\ overlapped' = IF Others(r) # {} THEN overlapped \cup {day} ELSE overlapped
    /\ UNCHANGED <<day, dueDay, open, active, notices, cancels>>

\* What a check would find that does not ask for the day.
ExistingEver(d) == {DueKey(n) : n \in notices}

\* The notifications since the day began.
Existing(d) == {DueKey(n) : n \in {x \in notices : x.day >= d}}

Checking(d, existing, left, toCreate) ==
    [at |-> "existing", day |-> d, existing |-> existing, left |-> left, toCreate |-> toCreate]

ReadExisting(r) ==
    /\ run[r].at = "started"
    /\ run' = [run EXCEPT ![r] = Checking(run[r].day, Existing(run[r].day), Targets(run[r].day), {})]
    /\ UNCHANGED <<day, dueDay, open, active, notices, started, overlapped, cancels>>

Left(r) == IF run[r].at = "existing" THEN run[r].left ELSE {}

Notices(target) ==
    {[user |-> u, due |-> target.due, offset |-> target.offset] : u \in Audience(target)}

\* Notifications for everybody, told or not.
MissingOrNot(r, target) == Notices(target)

Missing(r, target) == {n \in Notices(target) : DueKey(n) \notin run[r].existing}

\* One target after the other.
Count(r, target) ==
    /\ target \in Left(r)
    /\ run' = [run EXCEPT ![r] = Checking(run[r].day, run[r].existing, run[r].left \ {target},
                                           run[r].toCreate \cup Missing(r, target))]
    /\ UNCHANGED <<day, dueDay, open, active, notices, started, overlapped, cancels>>

Insert(r) ==
    /\ run[r].at = "existing" /\ Left(r) = {}
    /\ notices' = notices \cup {[user |-> n.user, due |-> n.due, offset |-> n.offset,
                                 day |-> day, by |-> started, run |-> r] : n \in run[r].toCreate}
    /\ run' = [run EXCEPT ![r] = Idle]
    /\ overlapped' = IF run[r].day # day THEN overlapped \cup {day} ELSE overlapped
    /\ UNCHANGED <<day, dueDay, open, active, started, cancels>>

\* A statement fails; the run ends and has written nothing.
RunFails(r) ==
    /\ run[r].at # "idle"
    /\ run' = [run EXCEPT ![r] = Idle]
    /\ UNCHANGED <<day, dueDay, open, active, notices, started, overlapped, cancels>>

NextDay ==
    /\ day + 1 \in Days
    /\ day' = day + 1
    /\ overlapped' = IF \E r \in Runs : run[r].at # "idle" THEN overlapped \cup {day + 1} ELSE overlapped
    /\ UNCHANGED <<dueDay, open, active, notices, run, started, cancels>>

CancelDue(s) ==
    /\ s \in open /\ cancels < MaxCancels
    /\ open' = open \ {s} /\ cancels' = cancels + 1
    /\ UNCHANGED <<day, dueDay, active, notices, run, started, overlapped>>

Deactivate(s) ==
    /\ s \in active /\ cancels < MaxCancels
    /\ active' = active \ {s} /\ cancels' = cancels + 1
    /\ UNCHANGED <<day, dueDay, open, notices, run, started, overlapped>>

DueInit ==
    /\ day = 1
    /\ dueDay \in [Sellers -> {Calendar[d] : d \in Days}]
    /\ open = Sellers /\ active = Sellers
    /\ notices = {} /\ run = [r \in Runs |-> Idle]
    /\ started = 0 /\ overlapped = {} /\ cancels = 0

DueNext ==
    \/ \E r \in Runs :
           \/ Start(r) \/ ReadExisting(r) \/ Insert(r) \/ RunFails(r)
           \/ \E target \in Left(r) : Count(r, target)
    \/ NextDay
    \/ \E s \in Sellers : CancelDue(s) \/ Deactivate(s)

DueSpec == DueInit /\ [][DueNext]_dueVars

-----------------------------------------------------------------------------
(* Properties. *)

\* Nobody is told twice a day about the same due day, unless two runs overlapped
\* on that day or one lasted past midnight: the test for what exists and the
\* insert are two statements.
ToldOnce ==
    \A m, n \in notices : m.day = n.day /\ DueKey(m) = DueKey(n) /\ m.day \notin overlapped => m = n

\* A run that ends has told everybody it had to: whoever is to hear of a target
\* of the day still is when it ends has a notification of that day, also when the
\* same due day came up in an earlier month.
RunCovers ==
    [][\A r \in Runs : Insert(r) =>
          \A target \in Targets(run[r].day) : \A u \in Audience(target) :
              \E n \in notices' : /\ DueKey(n) = <<u, target.due, target.offset>>
                                  /\ n.day >= run[r].day]_dueVars
=============================================================================
