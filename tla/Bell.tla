-------------------------------- MODULE Bell --------------------------------
(***************************************************************************)
(* The bell of the web client: the tabs of one browser poll the number of   *)
(* unread notifications, refetch their list when it changes and play a      *)
(* sound when it grows; what was announced is shared through localStorage.   *)
(***************************************************************************)
EXTENDS Naturals, FiniteSets

CONSTANTS
    Tabs,
    MaxArrivals, \* bound on the notifications
    MaxReads,    \* bound on the notifications read
    NoCount      \* null: no count yet, nothing announced

ASSUME BellAssumption == NoCount \notin Nat

VARIABLES
    unread,      \* the unread notifications of the user, in the database
    arrivals,    \* the notifications so far
    reads,       \* those that were read, by a tab or another device
    announced,   \* crm-notification-sound-count
    previous,    \* tab -> the last count it acted on
    polls,       \* tab -> its poll: none, sent, or counted with the answer on its way
    sounds,      \* the sounds so far
    newest,      \* the moment of the newest count that a tab acted on: arrivals and reads so far
    late         \* answers that were acted on after a newer one

bellVars == <<unread, arrivals, reads, announced, previous, polls, sounds, newest, late>>

Moment == [arrivals |-> arrivals, reads |-> reads]

Start == [arrivals |-> 0, reads |-> 0]

Older(m, n) == m.arrivals + m.reads < n.arrivals + n.reads

NoPoll == [at |-> "none", count |-> 0, moment |-> Start]

Notify ==
    /\ arrivals < MaxArrivals
    /\ arrivals' = arrivals + 1 /\ unread' = unread + 1
    /\ UNCHANGED <<reads, announced, previous, polls, sounds, newest, late>>

\* markRead of n unread ones, or markAllRead.  The tab that asked polls anew;
\* a poll under way is given up for it.
MarkRead(n, tabs) ==
    /\ n \in 1..unread /\ reads + n <= MaxReads
    /\ unread' = unread - n /\ reads' = reads + n
    /\ polls' = [t \in Tabs |-> IF t \in tabs THEN [NoPoll EXCEPT !.at = "sent"] ELSE polls[t]]
    /\ UNCHANGED <<arrivals, announced, previous, sounds, newest, late>>

\* Every 30 seconds, and when the tab opens.
Poll(t) ==
    /\ polls[t].at = "none"
    /\ polls' = [polls EXCEPT ![t].at = "sent"]
    /\ UNCHANGED <<unread, arrivals, reads, announced, previous, sounds, newest, late>>

UnreadCount(t) ==
    /\ polls[t].at = "sent"
    /\ polls' = [polls EXCEPT ![t] = [at |-> "counted", count |-> unread, moment |-> Moment]]
    /\ UNCHANGED <<unread, arrivals, reads, announced, previous, sounds, newest, late>>

\* A tab that compares with its own last count only.
PlaysByOwnCount(t, count) ==
    previous[t] # NoCount /\ count > previous[t]

\* shouldPlayNotificationSound
Plays(t, count) ==
    /\ previous[t] # NoCount
    /\ count > (IF announced = NoCount THEN previous[t] ELSE announced)

\* useNotificationArrival, when the count of the tab changes.
Arrival(t) ==
    /\ polls[t].at = "counted"
    /\ polls' = [polls EXCEPT ![t] = NoPoll]
    /\ LET count == polls[t].count
       IN  IF count = previous[t]
           THEN UNCHANGED <<announced, previous, sounds, newest, late>>
           ELSE /\ sounds' = IF Plays(t, count) THEN sounds + 1 ELSE sounds
                /\ announced' = count
                /\ previous' = [previous EXCEPT ![t] = count]
                /\ IF Older(polls[t].moment, newest)
                   THEN late' = late + 1 /\ UNCHANGED newest
                   ELSE newest' = polls[t].moment /\ UNCHANGED late
    /\ UNCHANGED <<unread, arrivals, reads>>

\* The request fails; the next poll comes by itself.
PollFails(t) ==
    /\ polls[t].at # "none"
    /\ polls' = [polls EXCEPT ![t] = NoPoll]
    /\ UNCHANGED <<unread, arrivals, reads, announced, previous, sounds, newest, late>>

\* The tab is closed or loaded anew, and with it what it remembers.
Reload(t) ==
    /\ previous[t] # NoCount
    /\ previous' = [previous EXCEPT ![t] = NoCount]
    /\ polls' = [polls EXCEPT ![t] = NoPoll]
    /\ UNCHANGED <<unread, arrivals, reads, announced, sounds, newest, late>>

BellInit ==
    /\ unread \in 0..1 /\ arrivals = 0 /\ reads = 0
    /\ announced \in {NoCount, 0}
    /\ previous = [t \in Tabs |-> NoCount]
    /\ polls = [t \in Tabs |-> NoPoll]
    /\ sounds = 0 /\ newest = Start /\ late = 0

BellNext ==
    \/ Notify
    \/ \E n \in 1..MaxReads : MarkRead(n, {}) \/ \E t \in Tabs : MarkRead(n, {t})
    \/ \E t \in Tabs : Poll(t) \/ UnreadCount(t) \/ Arrival(t) \/ PollFails(t) \/ Reload(t)

BellSpec == BellInit /\ [][BellNext]_bellVars

-----------------------------------------------------------------------------
(* Properties. *)

\* Only the first tab that sees an increase plays the sound, as
\* notification-sound.ts:3 says: there are no more sounds than notifications,
\* but for one for each answer that a newer count of another tab overtook.
SoundsOnce == sounds <= arrivals + late
=============================================================================
