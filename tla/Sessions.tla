------------------------------ MODULE Sessions ------------------------------
(***************************************************************************)
(* The sessions of one user: AuthService (auth/auth.service.ts) and what    *)
(* UsersService does to sessions (users/users.service.ts), together with    *)
(* the tabs of one browser (web: lib/auth.ts, lib/api.ts), which share one  *)
(* refresh token in localStorage and renew it under a lock.                 *)
(*                                                                          *)
(* Between reading a session and rotating it the server waits for argon2    *)
(* and the database; between asking and storing the answer a tab waits for  *)
(* the network.  Everything else that happens meanwhile is an interleaving. *)
(***************************************************************************)
EXTENDS Naturals, FiniteSets

CONSTANTS
    Tabs,          \* tabs of the browser
    Sids,          \* session ids; one without any trace left may be drawn again
    HasLocks,      \* whether the browser has navigator.locks
    Rotations,     \* refresh tokens of a session told apart, counted modulo this
    IatSteps,      \* seconds between two tokens of a session: 0 is the same second
    MaxChanges,    \* bound on the changes of the password and of the status
    MaxFaults,     \* bound on lost answers and on reloads during a renewal
    NULL           \* "no token", "no session", "no tab"

\* Two tokens of a session issued in the same second are the same token: the
\* payload of a token is the session and the time.
Token == [sid : Sids, iat : 0 .. Rotations - 1]

\* A row, and whether its expiresAt has passed.
Row == [iat : 0 .. Rotations - 1, password : 0 .. MaxChanges, over : BOOLEAN]

ASSUME SessionsAssumption ==
    /\ NULL \notin Tabs /\ NULL \notin Sids /\ NULL \notin Token /\ NULL \notin Row
    /\ HasLocks \in BOOLEAN
    /\ Rotations \in Nat \ {0}
    /\ IatSteps \subseteq {0, 1} /\ IatSteps # {}
    /\ MaxChanges \in Nat /\ MaxFaults \in Nat

VARIABLES
    sessions,   \* sessions[i]: the row of session i, or NULL
    active,     \* whether the user's status is ACTIVE
    password,   \* which password the user has
    changes,    \* how often the administrator changed password or status
    rotating,   \* sessions a renewal nobody waits for is about to rotate
    stored,     \* the refresh token in localStorage, or NULL
    lock,       \* the tab that holds "crm-auth-refresh", or NULL
    access,     \* access[t]: the session of the tab's valid access token, or NULL
    promise,    \* promise[t]: refreshPromise: "none", "pending", or "false" for good
    renewal,    \* renewal[t]: how far the renewal of t has come
    token,      \* token[t]: the refresh token t's renewal sends, then the one it got
    at,         \* at[t]: what the user does in t
    verified,   \* verified[t]: the password the login of t was verified with
    faults,     \* how many faults there were
    excused,    \* history variable: something happened that may end a session
    refused,    \* history variable: tabs whose renewal the server refused
    late        \* history variable: sessions opened after the password they were verified with

server  == <<sessions, active, password, changes, rotating>>
renewing == <<lock, promise, renewal, token>>
ghosts  == <<excused, refused, late>>
vars    == <<sessions, active, password, changes, rotating, stored, lock, access,
             promise, renewal, token, at, verified, faults, excused, refused, late>>

Valid(t) == access[t] # NULL

IsOver(i) == sessions[i] # NULL /\ sessions[i].over

\* A tab, the storage or a renewal still names session i.
InUse(i) ==
    \/ i \in rotating
    \/ stored # NULL /\ stored.sid = i
    \/ \E t \in Tabs : access[t] = i \/ (token[t] # NULL /\ token[t].sid = i)

\* Nothing is left of an id but a row that is over, so that it stands for a new
\* one (randomUUID).
Untraced(i) ==
    /\ ~InUse(i)
    /\ sessions[i] = NULL \/ IsOver(i)

NoChange == UNCHANGED <<active, password, changes>>

-----------------------------------------------------------------------------
\* tryRefresh().

\* A call answered with 401 waits for the renewal under way, starts one, or is
\* told FALSE by a promise that has already settled.
Renew(t) ==
    IF promise[t] = "none"
    THEN /\ promise' = [promise EXCEPT ![t] = "pending"]
         /\ renewal' = [renewal EXCEPT ![t] = "waiting"]
    ELSE UNCHANGED <<promise, renewal>>

\* Mutant of LockFree: renewals of different tabs overlap.
LockFreeAlways == TRUE

\* navigator.locks.request; without locks the task runs at once.
LockFree == HasLocks => lock = NULL

\* The lock is granted and the token read.  Without one the task returns before
\* its try ... finally, so that refreshPromise keeps the promise of FALSE.
Acquire(t) ==
    /\ renewal[t] = "waiting"
    /\ LockFree
    /\ IF stored = NULL
       THEN /\ promise' = [promise EXCEPT ![t] = "false"]
            /\ renewal' = [renewal EXCEPT ![t] = "none"]
            /\ UNCHANGED <<lock, token>>
       ELSE /\ lock' = t
            /\ token' = [token EXCEPT ![t] = stored]
            /\ renewal' = [renewal EXCEPT ![t] = "asking"]
            /\ UNCHANGED promise
    /\ UNCHANGED <<server, stored, access, at, verified, faults, ghosts>>

\* Mutant of Acceptable: the status of the user is not checked again.
AcceptableInactive(k) ==
    /\ sessions[k.sid] # NULL
    /\ ~sessions[k.sid].over
    /\ sessions[k.sid].iat = k.iat

\* refresh(): the session is there and not over, the token is its latest, and
\* the user is active.
Acceptable(k) ==
    /\ sessions[k.sid] # NULL
    /\ ~sessions[k.sid].over
    /\ sessions[k.sid].iat = k.iat
    /\ active

\* A session that is over is deleted on the way.
Read(t) ==
    /\ renewal[t] = "asking"
    /\ sessions' = IF IsOver(token[t].sid) THEN [sessions EXCEPT ![token[t].sid] = NULL]
                   ELSE sessions
    /\ NoChange
    /\ renewal' = [renewal EXCEPT ![t] = IF Acceptable(token[t]) THEN "rotating" ELSE "refused"]
    /\ UNCHANGED <<rotating, stored, lock, access, promise, token, at, verified,
                   faults, ghosts>>

\* Mutant of Rotated: a session deleted meanwhile is written anew.
RotatedAnew(i, step) ==
    [sessions EXCEPT ![i] = IF @ = NULL THEN [iat |-> 0, password |-> 0, over |-> FALSE]
                            ELSE [@ EXCEPT !.iat = (@ + step) % Rotations,
                                       !.over = FALSE]]

\* session.update of rotateSession; a row that is gone stays gone.
Rotated(i, step) ==
    IF sessions[i] = NULL THEN sessions
    ELSE [sessions EXCEPT ![i] = [iat |-> (@.iat + step) % Rotations, password |-> @.password,
                                  over |-> FALSE]]

\* rotateSession: the new token is answered, or the update fails (P2025).
Rotate(t) ==
    /\ renewal[t] = "rotating"
    /\ LET i == token[t].sid IN
        /\ \E step \in IatSteps : sessions' = Rotated(i, step)
        /\ IF sessions'[i] = NULL
           THEN /\ renewal' = [renewal EXCEPT ![t] = "refused"]
                /\ UNCHANGED token
           ELSE /\ renewal' = [renewal EXCEPT ![t] = "answered"]
                /\ token' = [token EXCEPT ![t] = [sid |-> i, iat |-> sessions'[i].iat]]
    /\ NoChange
    /\ UNCHANGED <<rotating, stored, lock, access, promise, at, verified, faults, ghosts>>

\* The rotation of a renewal whose tab was reloaded.
RotateForNobody(i) ==
    /\ i \in rotating
    /\ rotating' = rotating \ {i}
    /\ \E step \in IatSteps : sessions' = Rotated(i, step)
    /\ NoChange
    /\ UNCHANGED <<stored, lock, access, promise, renewal, token, at, verified,
                   faults, ghosts>>

\* Mutant of Settled: refreshPromise is not reset when the task is over.
SettledNever == "pending"

\* finally: refreshPromise = null.
Settled == "none"

\* The task is over and the lock free again.
Finish(t) ==
    /\ promise' = [promise EXCEPT ![t] = Settled]
    /\ renewal' = [renewal EXCEPT ![t] = "none"]
    /\ token' = [token EXCEPT ![t] = NULL]
    /\ lock' = IF lock = t THEN NULL ELSE lock

\* What setTokens puts into localStorage.
Kept(t) == token[t]

\* setTokens with the answer.
Answer(t) ==
    /\ renewal[t] = "answered"
    /\ access' = [access EXCEPT ![t] = token[t].sid]
    /\ stored' = Kept(t)
    /\ Finish(t)
    /\ UNCHANGED <<server, at, verified, faults, ghosts>>

\* clearTokens, for this tab and for the storage all tabs share.
Clear(t) ==
    /\ access' = [access EXCEPT ![t] = NULL]
    /\ stored' = NULL

\* A refused renewal ends the session in this tab.
Refuse(t) ==
    /\ renewal[t] = "refused"
    /\ Clear(t)
    /\ Finish(t)
    /\ at' = [at EXCEPT ![t] = IF @ = "in" THEN "out" ELSE @]
    /\ refused' = refused \cup {t}
    /\ UNCHANGED <<server, verified, faults, excused, late>>

\* So does one whose request or answer is lost, rotated or not.
Lose(t) ==
    /\ renewal[t] \in {"asking", "answered"}
    /\ faults < MaxFaults
    /\ faults' = faults + 1
    /\ Clear(t)
    /\ Finish(t)
    /\ at' = [at EXCEPT ![t] = IF @ = "in" THEN "out" ELSE @]
    /\ excused' = TRUE
    /\ UNCHANGED <<server, verified, refused, late>>

-----------------------------------------------------------------------------
\* What the user does in a tab.

\* POST /auth/login with a wrong password, or while inactive: 401.
LoginFails(t) ==
    /\ at[t] = "out"
    /\ Renew(t)
    /\ UNCHANGED <<server, stored, lock, access, token, at, verified, faults, ghosts>>

\* login(): the user is read, the password verified against that reading, and
\* the sessions that are over are deleted.
Login(t) ==
    /\ at[t] = "out"
    /\ active
    /\ verified' = [verified EXCEPT ![t] = password]
    /\ sessions' = [i \in Sids |-> IF IsOver(i) THEN NULL ELSE sessions[i]]
    /\ at' = [at EXCEPT ![t] = "opening"]
    /\ NoChange
    /\ UNCHANGED <<rotating, stored, renewing, access, faults, ghosts>>

\* startSession, and setTokens in the tab: not under the lock.
Open(t) ==
    /\ at[t] = "opening"
    /\ \E i \in Sids :
        /\ Untraced(i)
        /\ sessions' = [sessions EXCEPT ![i] = [iat |-> 0, password |-> verified[t],
                                                    over |-> FALSE]]
        /\ access' = [access EXCEPT ![t] = i]
        /\ stored' = [sid |-> i, iat |-> 0]
        /\ late' = IF verified[t] = password THEN late \ {i} ELSE late \cup {i}
    /\ at' = [at EXCEPT ![t] = "in"]
    /\ verified' = [verified EXCEPT ![t] = 0]
    /\ NoChange
    /\ UNCHANGED <<rotating, renewing, faults, excused, refused>>

\* A token that has expired is as good as none: either way the answer is 401.
Expire(t) ==
    /\ Valid(t)
    /\ access' = [access EXCEPT ![t] = NULL]
    /\ UNCHANGED <<server, stored, renewing, at, verified, faults, ghosts>>

\* A call of the app without a valid access token: 401, and then tryRefresh.
Call(t) ==
    /\ at[t] = "in"
    /\ ~Valid(t)
    /\ Renew(t)
    /\ UNCHANGED <<server, stored, lock, access, token, at, verified, faults, ghosts>>

\* POST /auth/logout renews first if it must.
Logout(t) ==
    /\ at[t] = "in"
    /\ ~Valid(t)
    /\ at' = [at EXCEPT ![t] = "leaving"]
    /\ Renew(t)
    /\ UNCHANGED <<server, stored, lock, access, token, verified, faults, ghosts>>

\* The session the access token names is deleted; whatever came of it, the
\* tokens are cleared when the answer is there.
EndSession(t) ==
    /\ \/ at[t] \in {"in", "leaving"} /\ Valid(t)
       \/ at[t] = "leaving" /\ promise[t] # "pending"
    /\ sessions' = IF Valid(t) THEN [sessions EXCEPT ![access[t]] = NULL] ELSE sessions
    /\ at' = [at EXCEPT ![t] = "left"]
    /\ excused' = TRUE
    /\ NoChange
    /\ UNCHANGED <<rotating, stored, renewing, access, verified, faults, refused, late>>

Leave(t) ==
    /\ at[t] = "left"
    /\ Clear(t)
    /\ at' = [at EXCEPT ![t] = "out"]
    /\ UNCHANGED <<server, renewing, verified, faults, ghosts>>

\* The page is loaded again: what the tab held in memory is gone, the lock too.
Reload(t) ==
    /\ at[t] \in {"in", "out"}
    /\ IF renewal[t] \in {"none", "waiting"}
       THEN UNCHANGED <<rotating, faults, excused>>
       ELSE /\ faults < MaxFaults
            /\ faults' = faults + 1
            /\ rotating' = IF renewal[t] = "rotating"
                           THEN rotating \cup {token[t].sid} ELSE rotating
            /\ excused' = TRUE
    /\ access' = [access EXCEPT ![t] = NULL]
    /\ promise' = [promise EXCEPT ![t] = "none"]
    /\ renewal' = [renewal EXCEPT ![t] = "none"]
    /\ token' = [token EXCEPT ![t] = NULL]
    /\ lock' = IF lock = t THEN NULL ELSE lock
    /\ at' = [at EXCEPT ![t] = IF stored = NULL THEN "out" ELSE "in"]
    /\ NoChange
    /\ UNCHANGED <<sessions, stored, verified, refused, late>>

\* expiresAt passes: of a session nobody uses any more, or of one in use.
Outdate(i) ==
    /\ sessions[i] # NULL
    /\ sessions' = [sessions EXCEPT ![i].over = TRUE]
    /\ IF InUse(i)
       THEN faults < MaxFaults /\ faults' = faults + 1 /\ excused' = TRUE
       ELSE UNCHANGED <<faults, excused>>
    /\ NoChange
    /\ UNCHANGED <<rotating, stored, renewing, access, at, verified, refused, late>>

-----------------------------------------------------------------------------
\* What an administrator does to the user.

Change ==
    /\ changes < MaxChanges
    /\ changes' = changes + 1
    /\ excused' = TRUE
    /\ UNCHANGED <<rotating, stored, renewing, access, at, verified, faults,
                   refused>>

\* setStatus.
SetStatus ==
    /\ Change
    /\ active' = ~active
    /\ UNCHANGED <<sessions, password, late>>

\* setPassword: one transaction writes the hash and deletes all sessions.
SetPassword ==
    /\ Change
    /\ password' = password + 1
    /\ sessions' = [i \in Sids |-> NULL]
    /\ late' = {}
    /\ UNCHANGED active

-----------------------------------------------------------------------------
\* The user is signed out everywhere.
Init ==
    /\ sessions = [i \in Sids |-> NULL]
    /\ active = TRUE
    /\ password = 0
    /\ changes = 0
    /\ rotating = {}
    /\ stored = NULL
    /\ lock = NULL
    /\ access = [t \in Tabs |-> NULL]
    /\ promise = [t \in Tabs |-> "none"]
    /\ renewal = [t \in Tabs |-> "none"]
    /\ token = [t \in Tabs |-> NULL]
    /\ at = [t \in Tabs |-> "out"]
    /\ verified = [t \in Tabs |-> 0]
    /\ faults = 0
    /\ excused = FALSE
    /\ refused = {}
    /\ late = {}

\* Steps nobody has to start.
Goes(t) == Acquire(t) \/ Read(t) \/ Rotate(t) \/ Answer(t) \/ Refuse(t)

Next ==
    \/ \E t \in Tabs :
        \/ Goes(t) \/ Lose(t)
        \/ LoginFails(t) \/ Login(t) \/ Open(t)
        \/ Expire(t) \/ Call(t) \/ Reload(t)
        \/ Logout(t) \/ EndSession(t) \/ Leave(t)
    \/ \E i \in Sids : RotateForNobody(i) \/ Outdate(i)
    \/ SetStatus
    \/ SetPassword

Spec == Init /\ [][Next]_vars

\* The server answers, a lock that is free again and again is granted, and
\* access tokens expire; no user has to do anything.
Fairness ==
    /\ \A t \in Tabs : SF_vars(Acquire(t)) /\ WF_vars(Read(t)) /\ WF_vars(Rotate(t))
                       /\ WF_vars(Answer(t)) /\ WF_vars(Refuse(t)) /\ WF_vars(Expire(t))

FairSpec == Spec /\ Fairness

-----------------------------------------------------------------------------
TypeOK ==
    /\ sessions \in [Sids -> Row \cup {NULL}]
    /\ active \in BOOLEAN
    /\ password \in 0 .. MaxChanges
    /\ changes \in 0 .. MaxChanges
    /\ rotating \subseteq Sids
    /\ stored \in Token \cup {NULL}
    /\ lock \in Tabs \cup {NULL}
    /\ access \in [Tabs -> Sids \cup {NULL}]
    /\ promise \in [Tabs -> {"none", "pending", "false"}]
    /\ renewal \in [Tabs -> {"none", "waiting", "asking", "rotating", "answered", "refused"}]
    /\ token \in [Tabs -> Token \cup {NULL}]
    /\ at \in [Tabs -> {"out", "opening", "in", "leaving", "left"}]
    /\ verified \in [Tabs -> 0 .. MaxChanges]
    /\ faults \in 0 .. MaxFaults
    /\ excused \in BOOLEAN
    /\ refused \subseteq Tabs
    /\ late \subseteq Sids

\* However renewals of the tabs interleave with each other, with logins and
\* with reloads between renewals, the server refuses none, unless a session was
\* ended or an answer lost: each tab reads the token once it holds the lock.
RefusedForAReason == refused # {} => excused

\* A new password ends every session: a renewal under way does not bring one
\* back.  Only a login verified before the change opens one after it.
OldPasswordGone ==
    \A i \in Sids : sessions[i] # NULL => sessions[i].password = password \/ i \in late

\* The renewal of t has found a token and asks the server to renew it.
AtServer(t) == renewal[t] \in {"asking", "rotating", "answered", "refused"}

\* Every renewal gets the lock, whatever the other tabs do, unless its page is
\* loaded again; and one that finds a token leaves its tab able to start another
\* one, whether it is accepted, refused or its answer lost.  A promise settled to
\* false for good is left by a renewal that found no token, and by no other
\* (RenewalReadsLatest shows what becomes of that one).
RenewalEnds ==
    \A t \in Tabs :
        /\ renewal[t] = "waiting" ~>
               \/ AtServer(t)
               \/ promise[t] = "none"
               \/ renewal[t] = "none" /\ stored = NULL
        /\ AtServer(t) ~> promise[t] = "none"

\* A user who stays deactivated is without a valid access token before long.
DeactivatedIsOut == <>[]~active => <>[](\A t \in Tabs : ~Valid(t))

\* lib/auth.ts: "renewals are serialized across tabs and each one reads the
\* latest token once it holds the lock": a tab that was told there is no token
\* is not told so when there is one.
RenewalReadsLatest == \A t \in Tabs : promise[t] = "false" => stored = NULL
=============================================================================
