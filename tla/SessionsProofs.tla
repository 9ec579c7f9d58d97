--------------------------- MODULE SessionsProofs ---------------------------
(* Theorems about Sessions, for any number of tabs and sessions, and any     *)
(* changes and faults.                                                       *)
EXTENDS Sessions, TLAPS

\* Tabs whose renewal has been granted the lock.
Renews(t) == renewal[t] \in {"asking", "rotating", "answered", "refused"}

Latest(k) ==
    sessions[k.sid] # NULL /\ ~sessions[k.sid].over /\ sessions[k.sid].iat = k.iat

\* A renewal under way has its promise and a token, and passwords are counted.
UnderWay ==
    /\ \A t \in Tabs : renewal[t] # "none" => promise[t] = "pending"
    /\ \A t \in Tabs : token[t] # NULL <=> Renews(t)
    /\ password <= changes

\* With locks only one tab renews at a time, and it holds the lock.
OneRenews == HasLocks => \A t \in Tabs : Renews(t) => lock = t

\* Until something happens that may end a session, every token anybody is going
\* to send is the latest of its session, but for the one in the storage while
\* its successor is on the way to the tab that renewed it.
Undisturbed ==
    HasLocks /\ ~excused =>
        /\ active /\ rotating = {} /\ refused = {}
        /\ \A t \in Tabs : renewal[t] # "refused" /\ at[t] # "left"
        /\ \A t \in Tabs : Renews(t) => Latest(token[t])
        /\ stored # NULL =>
             /\ sessions[stored.sid] # NULL /\ ~sessions[stored.sid].over
             /\ \/ sessions[stored.sid].iat = stored.iat
                \/ \E t \in Tabs : renewal[t] = "answered" /\ token[t].sid = stored.sid

SessionsInv == TypeOK /\ UnderWay /\ OneRenews /\ Undisturbed /\ OldPasswordGone

-----------------------------------------------------------------------------
LEMMA SessionsInitInv == Init => SessionsInv
<1> SUFFICES ASSUME Init PROVE SessionsInv
  OBVIOUS
<1>1. TypeOK
  <2>1. /\ sessions \in [Sids -> Row \cup {NULL}] /\ access \in [Tabs -> Sids \cup {NULL}]
        /\ token \in [Tabs -> Token \cup {NULL}] /\ verified \in [Tabs -> 0 .. MaxChanges]
        /\ stored \in Token \cup {NULL} /\ lock \in Tabs \cup {NULL}
        /\ faults \in 0 .. MaxFaults /\ changes \in 0 .. MaxChanges /\ password \in 0 .. MaxChanges
    BY SessionsAssumption DEF Init
  <2> QED
    BY <2>1 DEF Init, TypeOK
<1>2. UnderWay /\ OneRenews /\ Undisturbed /\ OldPasswordGone
  BY DEF Init, UnderWay, OneRenews, Undisturbed, OldPasswordGone, Renews
<1> QED
  BY <1>1, <1>2 DEF SessionsInv

\* A call that is told to renew, or to wait.
LEMMA Renewing ==
    ASSUME SessionsInv, NEW t \in Tabs, Renew(t),
           at' = at \/ (at[t] = "in" /\ at' = [at EXCEPT ![t] = "leaving"]),
           UNCHANGED <<server, stored, lock, access, token, verified, faults, ghosts>>
    PROVE  SessionsInv'
<1>1. UNCHANGED <<sessions, active, password, changes, rotating, excused, refused, late>>
  BY DEF server, ghosts
<1>2. /\ promise' \in [Tabs -> {"none", "pending", "false"}]
      /\ renewal' \in [Tabs -> {"none", "waiting", "asking", "rotating", "answered", "refused"}]
      /\ \A s \in Tabs : \/ renewal'[s] = renewal[s] /\ promise'[s] = promise[s]
                         \/ renewal[s] = "none" /\ renewal'[s] = "waiting" /\ promise'[s] = "pending"
  BY DEF Renew, SessionsInv, TypeOK, UnderWay
<1>3. TypeOK'
  BY <1>1, <1>2 DEF SessionsInv, TypeOK
<1>4. UnderWay' /\ OneRenews'
  BY <1>1, <1>2 DEF SessionsInv, UnderWay, OneRenews, Renews
<1>5. Undisturbed'
  BY <1>1, <1>2 DEF SessionsInv, TypeOK, Undisturbed, Renews, Latest
<1>6. OldPasswordGone'
  BY <1>1 DEF SessionsInv, OldPasswordGone
<1> QED
  BY <1>3, <1>4, <1>5, <1>6 DEF SessionsInv

LEMMA AcquireInv == ASSUME SessionsInv, NEW t \in Tabs, Acquire(t) PROVE SessionsInv'
<1>1. /\ renewal[t] = "waiting"
      /\ UNCHANGED <<sessions, active, password, changes, rotating, stored, access, at, verified,
                     faults, excused, refused, late>>
  BY DEF Acquire, server, ghosts
<1>2. CASE stored = NULL
  BY <1>1, <1>2 DEF Acquire, SessionsInv, TypeOK, UnderWay, OneRenews, Undisturbed, OldPasswordGone,
     Renews, Latest
<1>3. CASE stored # NULL
  <2>1. /\ lock' = t /\ token' = [token EXCEPT ![t] = stored]
        /\ renewal' = [renewal EXCEPT ![t] = "asking"] /\ UNCHANGED promise
    BY <1>3 DEF Acquire
  <2>2. HasLocks => \A s \in Tabs : ~Renews(s)
    BY SessionsAssumption DEF Acquire, LockFree, SessionsInv, OneRenews
  <2>3. TypeOK' /\ UnderWay'
    BY <1>1, <1>3, <2>1 DEF SessionsInv, TypeOK, UnderWay, Renews
  <2>4. OneRenews'
    BY <1>1, <2>1, <2>2 DEF SessionsInv, TypeOK, OneRenews, Renews
  <2>5. Undisturbed'
    BY <1>1, <1>3, <2>1, <2>2 DEF SessionsInv, TypeOK, Undisturbed, Renews, Latest
  <2> QED
    BY <1>1, <2>3, <2>4, <2>5 DEF SessionsInv, OldPasswordGone
<1> QED
  BY <1>2, <1>3

LEMMA ReadInv == ASSUME SessionsInv, NEW t \in Tabs, Read(t) PROVE SessionsInv'
<1>1. /\ renewal[t] = "asking" /\ Renews(t) /\ token[t] \in Token /\ token[t].sid \in Sids
      /\ UNCHANGED <<active, password, changes, rotating, stored, lock, access, promise, token, at,
                     verified, faults, excused, refused, late>>
  BY DEF Read, NoChange, ghosts, SessionsInv, TypeOK, UnderWay, Renews, Token
<1>2. \A i \in Sids : sessions'[i] \in {sessions[i], NULL}
  BY <1>1 DEF Read, SessionsInv, TypeOK
<1>3. sessions' \in [Sids -> Row \cup {NULL}]
  BY <1>1 DEF Read, SessionsInv, TypeOK
<1>4. /\ renewal' \in [Tabs -> {"none", "waiting", "asking", "rotating", "answered", "refused"}]
      /\ \A s \in Tabs \ {t} : renewal'[s] = renewal[s]
      /\ renewal'[t] = IF Acceptable(token[t]) THEN "rotating" ELSE "refused"
  BY DEF Read, SessionsInv, TypeOK
<1>5. TypeOK' /\ UnderWay' /\ OneRenews'
  BY <1>1, <1>3, <1>4 DEF SessionsInv, TypeOK, UnderWay, OneRenews, Renews
<1>6. Undisturbed'
  <2> SUFFICES ASSUME HasLocks, ~excused PROVE Undisturbed'
    BY <1>1 DEF Undisturbed
  <2>1. Acceptable(token[t]) /\ sessions' = sessions
    BY <1>1 DEF SessionsInv, Undisturbed, Latest, Acceptable, Read, IsOver
  <2> QED
    BY <1>1, <1>4, <2>1 DEF SessionsInv, Undisturbed, Latest, Renews
<1>7. OldPasswordGone'
  BY <1>1, <1>2 DEF SessionsInv, OldPasswordGone
<1> QED
  BY <1>5, <1>6, <1>7 DEF SessionsInv

\* A rotation keeps the password of its session, and revives none.
LEMMA RotatedRow ==
    ASSUME SessionsInv, NEW i \in Sids, NEW step \in IatSteps, sessions' = Rotated(i, step)
    PROVE  /\ sessions' \in [Sids -> Row \cup {NULL}]
           /\ \A j \in Sids : /\ sessions'[j] # NULL <=> sessions[j] # NULL
                              /\ sessions[j] # NULL => sessions'[j].password = sessions[j].password
                              /\ j # i => sessions'[j] = sessions[j]
           /\ sessions[i] # NULL => ~sessions'[i].over
<1>1. CASE sessions[i] = NULL
  BY <1>1 DEF Rotated, SessionsInv, TypeOK
<1>2. CASE sessions[i] # NULL
  <2>1. sessions[i] \in Row
    BY <1>2 DEF SessionsInv, TypeOK
  <2>2. (sessions[i].iat + step) % Rotations \in 0 .. Rotations - 1
    BY <2>1, SessionsAssumption DEF Row
  <2> DEFINE row == [iat |-> (sessions[i].iat + step) % Rotations, password |-> sessions[i].password,
                     over |-> FALSE]
  <2>3. sessions' = [sessions EXCEPT ![i] = row]
    BY <1>2 DEF Rotated, SessionsInv, TypeOK
  <2>4. row.password = sessions[i].password /\ ~row.over
    OBVIOUS
  <2>5. row \in Row
    BY <2>1, <2>2 DEF Row
  <2>6. row # NULL
    BY <2>5, SessionsAssumption
  <2> HIDE DEF row
  <2> QED
    BY <1>2, <2>3, <2>4, <2>5, <2>6 DEF SessionsInv, TypeOK
<1> QED
  BY <1>1, <1>2

LEMMA RotateInv == ASSUME SessionsInv, NEW t \in Tabs, Rotate(t) PROVE SessionsInv'
<1> DEFINE i == token[t].sid
<1>1. /\ renewal[t] = "rotating" /\ Renews(t) /\ token[t] \in Token /\ i \in Sids
      /\ UNCHANGED <<active, password, changes, rotating, stored, lock, access, promise, at,
                     verified, faults, excused, refused, late>>
  BY DEF Rotate, NoChange, ghosts, SessionsInv, TypeOK, UnderWay, Renews, Token
<1>2. /\ sessions' \in [Sids -> Row \cup {NULL}]
      /\ \A j \in Sids : /\ sessions'[j] # NULL <=> sessions[j] # NULL
                         /\ sessions[j] # NULL => sessions'[j].password = sessions[j].password
                         /\ j # i => sessions'[j] = sessions[j]
      /\ sessions[i] # NULL => ~sessions'[i].over
  BY <1>1, RotatedRow DEF Rotate
<1>3. OldPasswordGone'
  BY <1>1, <1>2 DEF SessionsInv, OldPasswordGone
<1>4. CASE sessions[i] = NULL
  <2>1. renewal' = [renewal EXCEPT ![t] = "refused"] /\ UNCHANGED token
    BY <1>1, <1>2, <1>4 DEF Rotate
  <2>2. TypeOK' /\ UnderWay' /\ OneRenews'
    BY <1>1, <1>2, <2>1 DEF SessionsInv, TypeOK, UnderWay, OneRenews, Renews
  <2>3. Undisturbed'
    BY <1>1, <1>4 DEF SessionsInv, Undisturbed, Latest
  <2> QED
    BY <1>3, <2>2, <2>3 DEF SessionsInv
<1>5. CASE sessions[i] # NULL
  <2> DEFINE k == [sid |-> i, iat |-> sessions'[i].iat]
  <2>1. renewal' = [renewal EXCEPT ![t] = "answered"] /\ token' = [token EXCEPT ![t] = k]
    BY <1>1, <1>2, <1>5 DEF Rotate
  <2>2. k \in Token /\ k # NULL /\ k.sid = i /\ k.iat = sessions'[i].iat
    <3>1. sessions'[i] \in Row
      BY <1>1, <1>2, <1>5
    <3>2. k \in Token
      BY <1>1, <3>1 DEF Token, Row
    <3> QED
      BY <3>2, SessionsAssumption
  <2> HIDE DEF k
  <2>3. TypeOK' /\ UnderWay' /\ OneRenews'
    BY <1>1, <1>2, <2>1, <2>2 DEF SessionsInv, TypeOK, UnderWay, OneRenews, Renews
  <2>4. Undisturbed'
    <3> SUFFICES ASSUME HasLocks, ~excused PROVE Undisturbed'
      BY <1>1 DEF Undisturbed
    <3>1. \A s \in Tabs \ {t} : ~Renews(s) /\ renewal'[s] = renewal[s] /\ token'[s] = token[s]
      BY <1>1, <2>1 DEF SessionsInv, TypeOK, OneRenews
    <3>2. Latest(token[t])' /\ renewal'[t] = "answered" /\ token'[t].sid = i
      BY <1>1, <1>2, <1>5, <2>1, <2>2 DEF SessionsInv, TypeOK, Latest
    <3>3. stored # NULL => stored.sid \in Sids
      BY DEF SessionsInv, TypeOK, Token
    <3>4. stored # NULL =>
             /\ sessions'[stored.sid] # NULL /\ ~sessions'[stored.sid].over
             /\ \/ sessions'[stored.sid].iat = stored.iat
                \/ stored.sid = i
      BY <1>1, <1>2, <1>5, <3>1, <3>3 DEF SessionsInv, Undisturbed, Renews
    <3> QED
      BY <1>1, <3>1, <3>2, <3>4 DEF SessionsInv, Undisturbed, Renews
  <2> QED
    BY <1>3, <2>3, <2>4 DEF SessionsInv
<1> QED
  BY <1>4, <1>5

LEMMA RotateForNobodyInv == ASSUME SessionsInv, NEW i \in Sids, RotateForNobody(i) PROVE SessionsInv'
<1>1. /\ i \in rotating /\ rotating' \subseteq rotating
      /\ UNCHANGED <<active, password, changes, stored, lock, access, promise, renewal, token, at,
                     verified, faults, excused, refused, late>>
  BY DEF RotateForNobody, NoChange, ghosts
<1>2. /\ sessions' \in [Sids -> Row \cup {NULL}]
      /\ \A j \in Sids : /\ sessions'[j] # NULL <=> sessions[j] # NULL
                         /\ sessions[j] # NULL => sessions'[j].password = sessions[j].password
  BY RotatedRow DEF RotateForNobody
<1>3. TypeOK' /\ UnderWay' /\ OneRenews' /\ OldPasswordGone'
  BY <1>1, <1>2 DEF SessionsInv, TypeOK, UnderWay, OneRenews, Renews, OldPasswordGone
<1>4. Undisturbed'
  BY <1>1 DEF SessionsInv, Undisturbed
<1> QED
  BY <1>3, <1>4 DEF SessionsInv

\* A renewal is over; in the storage there is its token or none.
LEMMA Finished ==
    ASSUME SessionsInv, NEW t \in Tabs, Renews(t), Finish(t),
           access' \in [Tabs -> Sids \cup {NULL}], stored' \in {NULL, token[t]},
           at' = at \/ at' = [at EXCEPT ![t] = "out"],
           faults' \in 0 .. MaxFaults, excused' \in BOOLEAN, refused' \subseteq Tabs,
           ~excused' => ~excused /\ refused' = refused,
           UNCHANGED <<sessions, active, password, changes, rotating, verified, late>>
    PROVE  SessionsInv'
<1>1. /\ promise' = [promise EXCEPT ![t] = "none"] /\ renewal' = [renewal EXCEPT ![t] = "none"]
      /\ token' = [token EXCEPT ![t] = NULL] /\ lock' = (IF lock = t THEN NULL ELSE lock)
  BY DEF Finish, Settled
<1>2. token[t] \in Token
  BY DEF SessionsInv, TypeOK, UnderWay
<1>3. TypeOK'
  BY <1>1, <1>2 DEF SessionsInv, TypeOK
<1>4. UnderWay'
  BY <1>1 DEF SessionsInv, TypeOK, UnderWay, Renews
<1>5. OneRenews'
  BY <1>1 DEF SessionsInv, TypeOK, OneRenews, Renews
<1>6. Undisturbed'
  <2> SUFFICES ASSUME HasLocks, ~excused' PROVE Undisturbed'
    BY DEF Undisturbed
  <2>1. \A s \in Tabs : ~Renews(s)' /\ renewal'[s] \in {renewal[s], "none"} /\ at'[s] \in {at[s], "out"}
    BY <1>1 DEF SessionsInv, TypeOK, OneRenews, Renews
  <2>2. stored' # NULL => Latest(stored)'
    BY DEF SessionsInv, Undisturbed, Latest
  <2> QED
    BY <2>1, <2>2 DEF SessionsInv, Undisturbed, Latest
<1> QED
  BY <1>3, <1>4, <1>5, <1>6 DEF SessionsInv, OldPasswordGone

LEMMA AnswerInv == ASSUME SessionsInv, NEW t \in Tabs, Answer(t) PROVE SessionsInv'
<1>1. Renews(t) /\ token[t].sid \in Sids /\ stored' = token[t]
  BY DEF Answer, Renews, SessionsInv, TypeOK, UnderWay, Token, Kept
<1> QED
  BY <1>1, Finished DEF Answer, server, ghosts, SessionsInv, TypeOK

LEMMA RefuseInv == ASSUME SessionsInv, NEW t \in Tabs, Refuse(t) PROVE SessionsInv'
<1>1. /\ Renews(t) /\ stored' = NULL /\ access' \in [Tabs -> Sids \cup {NULL}] /\ Finish(t)
      /\ UNCHANGED <<sessions, active, password, changes, rotating, verified, faults, excused, late>>
      /\ at' = [at EXCEPT ![t] = IF at[t] = "in" THEN "out" ELSE at[t]] /\ refused' = refused \cup {t}
  BY DEF Refuse, Renews, Clear, SessionsInv, TypeOK, server
<1>2. at' = at \/ at' = [at EXCEPT ![t] = "out"]
  BY <1>1 DEF SessionsInv, TypeOK
<1>3. CASE HasLocks /\ ~excused
  BY <1>3 DEF Refuse, SessionsInv, Undisturbed
<1>4. CASE excused
  BY <1>1, <1>2, <1>4, Finished DEF SessionsInv, TypeOK
<1>5. CASE ~HasLocks /\ ~excused
  <2>1. /\ promise' = [promise EXCEPT ![t] = "none"] /\ renewal' = [renewal EXCEPT ![t] = "none"]
        /\ token' = [token EXCEPT ![t] = NULL] /\ lock' = (IF lock = t THEN NULL ELSE lock)
    BY <1>1 DEF Finish, Settled
  <2> QED
    BY <1>1, <1>2, <1>5, <2>1
       DEF SessionsInv, TypeOK, UnderWay, Renews, OneRenews, Undisturbed, OldPasswordGone
<1> QED
  BY <1>3, <1>4, <1>5 DEF SessionsInv, TypeOK

LEMMA LoseInv == ASSUME SessionsInv, NEW t \in Tabs, Lose(t) PROVE SessionsInv'
<1>1. /\ Renews(t) /\ stored' = NULL /\ access' \in [Tabs -> Sids \cup {NULL}] /\ Finish(t)
      /\ UNCHANGED <<sessions, active, password, changes, rotating, verified, refused, late>>
      /\ at' = [at EXCEPT ![t] = IF at[t] = "in" THEN "out" ELSE at[t]] /\ excused' = TRUE
  BY DEF Lose, Renews, Clear, SessionsInv, TypeOK, server
<1>2. at' = at \/ at' = [at EXCEPT ![t] = "out"]
  BY <1>1 DEF SessionsInv, TypeOK
<1>3. faults' \in 0 .. MaxFaults
  BY SessionsAssumption DEF Lose, SessionsInv, TypeOK
<1> QED
  BY <1>1, <1>2, <1>3, Finished DEF SessionsInv, TypeOK

-----------------------------------------------------------------------------
\* What ends no session that is in use and starts no renewal.
LEMMA LoginInv == ASSUME SessionsInv, NEW t \in Tabs, Login(t) PROVE SessionsInv'
<1>1. /\ sessions' = [i \in Sids |-> IF IsOver(i) THEN NULL ELSE sessions[i]]
      /\ verified' = [verified EXCEPT ![t] = password] /\ at' = [at EXCEPT ![t] = "opening"]
      /\ UNCHANGED <<active, password, changes, rotating, stored, lock, promise, renewal, token,
                     access, faults, excused, refused, late>>
  BY DEF Login, NoChange, renewing, ghosts
<1>2. \A i \in Sids : /\ sessions'[i] \in {sessions[i], NULL}
                      /\ sessions[i] # NULL /\ ~sessions[i].over => sessions'[i] = sessions[i]
  BY <1>1 DEF IsOver
<1>3. sessions' \in [Sids -> Row \cup {NULL}]
  BY <1>1 DEF SessionsInv, TypeOK
<1>4. TypeOK' /\ UnderWay' /\ OneRenews' /\ OldPasswordGone'
  BY <1>1, <1>2, <1>3 DEF SessionsInv, TypeOK, UnderWay, OneRenews, Renews, OldPasswordGone
<1>5. Undisturbed'
  <2> SUFFICES ASSUME HasLocks, ~excused PROVE Undisturbed'
    BY <1>1 DEF Undisturbed
  <2>1. /\ \A s \in Tabs : Renews(s) => token[s].sid \in Sids
        /\ stored # NULL => stored.sid \in Sids
    BY DEF SessionsInv, TypeOK, UnderWay, Token
  <2>2. \A s \in Tabs : Renews(s) => Latest(token[s])'
    BY <1>1, <1>2, <2>1 DEF SessionsInv, Undisturbed, Latest
  <2>3. stored # NULL => sessions'[stored.sid] = sessions[stored.sid]
    BY <1>2, <2>1 DEF SessionsInv, Undisturbed
  <2>4. \A s \in Tabs : at'[s] # "left"
    BY <1>1 DEF SessionsInv, TypeOK, Undisturbed
  <2> QED
    BY <1>1, <2>2, <2>3, <2>4 DEF SessionsInv, Undisturbed, Renews
<1> QED
  BY <1>4, <1>5 DEF SessionsInv

LEMMA OpenInv == ASSUME SessionsInv, NEW t \in Tabs, Open(t) PROVE SessionsInv'
<1>1. PICK i \in Sids :
        /\ Untraced(i) /\ access' = [access EXCEPT ![t] = i]
        /\ sessions' = [sessions EXCEPT ![i] = [iat |-> 0, password |-> verified[t], over |-> FALSE]]
        /\ stored' = [sid |-> i, iat |-> 0]
        /\ late' = IF verified[t] = password THEN late \ {i} ELSE late \cup {i}
  BY DEF Open
<1>2. /\ at' = [at EXCEPT ![t] = "in"] /\ verified' = [verified EXCEPT ![t] = 0]
      /\ UNCHANGED <<active, password, changes, rotating, lock, promise, renewal, token, faults,
                     excused, refused>>
  BY DEF Open, NoChange, renewing
<1> DEFINE row == [iat |-> 0, password |-> verified[t], over |-> FALSE]
<1>3. row \in Row /\ row # NULL /\ row.password = verified[t] /\ row.iat = 0 /\ ~row.over
  <2>1. row \in Row
    BY SessionsAssumption DEF SessionsInv, TypeOK, Row
  <2> QED
    BY <2>1, SessionsAssumption
<1>4. sessions'[i] = row /\ \A j \in Sids \ {i} : sessions'[j] = sessions[j]
  BY <1>1 DEF SessionsInv, TypeOK
<1>5. stored' \in Token /\ stored' # NULL /\ stored'.sid = i /\ stored'.iat = 0
  BY <1>1, SessionsAssumption DEF Token
<1> HIDE DEF row
<1>6. TypeOK'
  <2>1. sessions' \in [Sids -> Row \cup {NULL}]
    BY <1>1, <1>3 DEF SessionsInv, TypeOK, row
  <2>2. verified' \in [Tabs -> 0 .. MaxChanges] /\ late' \subseteq Sids
    BY <1>1, <1>2, SessionsAssumption DEF SessionsInv, TypeOK
  <2> QED
    BY <1>1, <1>2, <1>5, <2>1, <2>2 DEF SessionsInv, TypeOK
<1>7. UnderWay' /\ OneRenews'
  BY <1>2 DEF SessionsInv, UnderWay, OneRenews, Renews
<1>8. Undisturbed'
  <2> SUFFICES ASSUME HasLocks, ~excused PROVE Undisturbed'
    BY <1>2 DEF Undisturbed
  <2>1. \A s \in Tabs : Renews(s) => token[s].sid \in Sids \ {i}
    BY <1>1 DEF SessionsInv, TypeOK, UnderWay, Token, Untraced, InUse
  <2>2. \A s \in Tabs : Renews(s) => Latest(token[s])'
    BY <1>2, <1>4, <2>1 DEF SessionsInv, Undisturbed, Latest
  <2>3. \A s \in Tabs : at'[s] # "left"
    BY <1>2 DEF SessionsInv, TypeOK, Undisturbed
  <2> QED
    BY <1>2, <1>3, <1>4, <1>5, <2>2, <2>3 DEF SessionsInv, Undisturbed, Renews
<1>9. OldPasswordGone'
  BY <1>1, <1>2, <1>3, <1>4 DEF SessionsInv, OldPasswordGone
<1> QED
  BY <1>6, <1>7, <1>8, <1>9 DEF SessionsInv

LEMMA ExpireInv == ASSUME SessionsInv, NEW t \in Tabs, Expire(t) PROVE SessionsInv'
<1>1. /\ access' = [access EXCEPT ![t] = NULL]
      /\ UNCHANGED <<sessions, active, password, changes, rotating, stored, lock, promise, renewal,
                     token, at, verified, faults, excused, refused, late>>
  BY DEF Expire, server, renewing, ghosts
<1> QED
  BY <1>1 DEF SessionsInv, TypeOK, UnderWay, OneRenews, Undisturbed, OldPasswordGone, Renews, Latest

-----------------------------------------------------------------------------
\* What ends a session, or may.
LEMMA Excused ==
    ASSUME SessionsInv, excused', TypeOK', password' <= changes', OldPasswordGone',
           UNCHANGED <<lock, promise, renewal, token>>
    PROVE  SessionsInv'
BY DEF SessionsInv, UnderWay, OneRenews, Undisturbed, Renews

LEMMA EndSessionInv == ASSUME SessionsInv, NEW t \in Tabs, EndSession(t) PROVE SessionsInv'
<1>1. /\ sessions' = IF Valid(t) THEN [sessions EXCEPT ![access[t]] = NULL] ELSE sessions
      /\ at' = [at EXCEPT ![t] = "left"] /\ excused' = TRUE
      /\ UNCHANGED <<active, password, changes, rotating, stored, lock, promise, renewal, token,
                     access, verified, faults, refused, late>>
  BY DEF EndSession, NoChange, renewing
<1>2. /\ sessions' \in [Sids -> Row \cup {NULL}]
      /\ \A i \in Sids : sessions'[i] \in {sessions[i], NULL}
  BY <1>1 DEF SessionsInv, TypeOK
<1>3. TypeOK' /\ OldPasswordGone'
  BY <1>1, <1>2 DEF SessionsInv, TypeOK, OldPasswordGone
<1> QED
  BY <1>1, <1>3, Excused DEF SessionsInv, UnderWay

LEMMA LeaveInv == ASSUME SessionsInv, NEW t \in Tabs, Leave(t) PROVE SessionsInv'
<1>1. /\ at[t] = "left" /\ access' = [access EXCEPT ![t] = NULL] /\ stored' = NULL
      /\ at' = [at EXCEPT ![t] = "out"]
      /\ UNCHANGED <<sessions, active, password, changes, rotating, lock, promise, renewal, token,
                     verified, faults, excused, refused, late>>
  BY DEF Leave, Clear, server, renewing, ghosts
<1> QED
  BY <1>1 DEF SessionsInv, TypeOK, UnderWay, OneRenews, Undisturbed, OldPasswordGone, Renews

LEMMA ReloadInv == ASSUME SessionsInv, NEW t \in Tabs, Reload(t) PROVE SessionsInv'
<1>1. /\ access' = [access EXCEPT ![t] = NULL] /\ promise' = [promise EXCEPT ![t] = "none"]
      /\ renewal' = [renewal EXCEPT ![t] = "none"] /\ token' = [token EXCEPT ![t] = NULL]
      /\ lock' = (IF lock = t THEN NULL ELSE lock)
      /\ at' = [at EXCEPT ![t] = IF stored = NULL THEN "out" ELSE "in"]
      /\ UNCHANGED <<sessions, active, password, changes, stored, verified, refused, late>>
  BY DEF Reload, NoChange
<1>2. /\ rotating' \subseteq Sids /\ faults' \in 0 .. MaxFaults
      /\ \/ excused' = TRUE
         \/ renewal[t] \in {"none", "waiting"} /\ excused' = excused /\ rotating' = rotating
  <2>1. renewal[t] \notin {"none", "waiting"} => token[t] \in Token /\ token[t].sid \in Sids
    BY DEF SessionsInv, TypeOK, UnderWay, Renews, Token
  <2> QED
    BY <2>1, SessionsAssumption DEF Reload, SessionsInv, TypeOK
<1>3. TypeOK'
  BY <1>1, <1>2 DEF SessionsInv, TypeOK
<1>4. UnderWay'
  BY <1>1 DEF SessionsInv, TypeOK, UnderWay, Renews
<1>5. OneRenews'
  BY <1>1 DEF SessionsInv, TypeOK, OneRenews, Renews
<1>6. Undisturbed'
  <2> SUFFICES ASSUME HasLocks, ~excused' PROVE Undisturbed'
    BY DEF Undisturbed
  <2>1. renewal[t] \in {"none", "waiting"} /\ ~excused /\ rotating' = rotating
    BY <1>2
  <2>2. \A s \in Tabs : /\ renewal'[s] \in {renewal[s], "none"} /\ at'[s] \in {at[s], "in", "out"}
                        /\ Renews(s)' => Renews(s) /\ token'[s] = token[s]
                        /\ renewal[s] = "answered" => renewal'[s] = "answered" /\ token'[s] = token[s]
    BY <1>1, <2>1 DEF SessionsInv, TypeOK, Renews
  <2> QED
    BY <1>1, <2>1, <2>2 DEF SessionsInv, Undisturbed, Latest
<1> QED
  BY <1>1, <1>3, <1>4, <1>5, <1>6 DEF SessionsInv, OldPasswordGone

LEMMA OutdateInv == ASSUME SessionsInv, NEW i \in Sids, Outdate(i) PROVE SessionsInv'
<1>1. /\ sessions[i] # NULL /\ sessions' = [sessions EXCEPT ![i].over = TRUE]
      /\ UNCHANGED <<active, password, changes, rotating, stored, lock, promise, renewal, token,
                     access, at, verified, refused, late>>
      /\ InUse(i) => excused' = TRUE
      /\ ~InUse(i) => excused' = excused
      /\ faults' \in 0 .. MaxFaults
  BY SessionsAssumption DEF Outdate, NoChange, renewing, SessionsInv, TypeOK
<1> DEFINE row == [sessions[i] EXCEPT !.over = TRUE]
<1>2. row \in Row /\ row # NULL /\ row.password = sessions[i].password
  <2>1. sessions[i] \in Row
    BY <1>1 DEF SessionsInv, TypeOK
  <2>2. row \in Row /\ row.password = sessions[i].password
    BY <2>1 DEF Row
  <2> QED
    BY <2>2, SessionsAssumption
<1>3. sessions' = [sessions EXCEPT ![i] = row]
  BY <1>1 DEF SessionsInv, TypeOK
<1> HIDE DEF row
<1>4. TypeOK'
  BY <1>1, <1>2, <1>3 DEF SessionsInv, TypeOK
<1>5. OldPasswordGone'
  BY <1>1, <1>2, <1>3 DEF SessionsInv, TypeOK, OldPasswordGone
<1>6. CASE InUse(i)
  BY <1>1, <1>4, <1>5, <1>6, Excused DEF SessionsInv, UnderWay
<1>7. CASE ~InUse(i)
  <2>1. /\ \A s \in Tabs : Renews(s) => token[s].sid \in Sids \ {i}
        /\ stored # NULL => stored.sid \in Sids \ {i}
    BY <1>7 DEF SessionsInv, TypeOK, UnderWay, Token, InUse
  <2>2. \A j \in Sids \ {i} : sessions'[j] = sessions[j]
    BY <1>3 DEF SessionsInv, TypeOK
  <2>3. Undisturbed'
    BY <1>1, <1>7, <2>1, <2>2 DEF SessionsInv, Undisturbed, Latest, Renews
  <2> QED
    BY <1>1, <1>4, <1>5, <2>3 DEF SessionsInv, UnderWay, OneRenews, Renews
<1> QED
  BY <1>6, <1>7

\* The administrator's changes: a new password leaves no session of the old one.
LEMMA SetStatusInv == ASSUME SessionsInv, SetStatus PROVE SessionsInv'
<1>1. /\ changes < MaxChanges /\ changes' = changes + 1 /\ excused' = TRUE /\ active' = ~active
      /\ UNCHANGED <<sessions, password, late, rotating, stored, lock, promise, renewal, token,
                     access, at, verified, faults, refused>>
  BY DEF SetStatus, Change, renewing
<1>2. changes' \in 0 .. MaxChanges /\ password' <= changes'
  BY <1>1, SessionsAssumption DEF SessionsInv, TypeOK, UnderWay
<1>3. active' \in BOOLEAN
  BY <1>1
<1>4. TypeOK' /\ OldPasswordGone'
  BY <1>1, <1>2, <1>3 DEF SessionsInv, TypeOK, OldPasswordGone
<1> QED
  BY <1>1, <1>2, <1>4, Excused

LEMMA SetPasswordInv == ASSUME SessionsInv, SetPassword PROVE SessionsInv'
<1>1. /\ changes < MaxChanges /\ changes' = changes + 1 /\ excused' = TRUE
      /\ password' = password + 1 /\ sessions' = [i \in Sids |-> NULL] /\ late' = {}
      /\ UNCHANGED <<active, rotating, stored, lock, promise, renewal, token,
                     access, at, verified, faults, refused>>
  BY DEF SetPassword, Change, renewing
<1>2. changes' \in 0 .. MaxChanges /\ password' <= changes' /\ password' \in 0 .. MaxChanges
  BY <1>1, SessionsAssumption DEF SessionsInv, TypeOK, UnderWay
<1>3. TypeOK' /\ OldPasswordGone'
  BY <1>1, <1>2 DEF SessionsInv, TypeOK, OldPasswordGone
<1> QED
  BY <1>1, <1>2, <1>3, Excused

-----------------------------------------------------------------------------
LEMMA SessionsNextInv == SessionsInv /\ [Next]_vars => SessionsInv'
<1> SUFFICES ASSUME SessionsInv, [Next]_vars PROVE SessionsInv'
  OBVIOUS
<1>1. ASSUME NEW t \in Tabs, Goes(t) \/ Lose(t) PROVE SessionsInv'
  BY <1>1, AcquireInv, ReadInv, RotateInv, AnswerInv, RefuseInv, LoseInv DEF Goes
<1>2. ASSUME NEW t \in Tabs, LoginFails(t) \/ Call(t) \/ Logout(t) PROVE SessionsInv'
  BY <1>2, Renewing DEF LoginFails, Call, Logout
<1>3. ASSUME NEW t \in Tabs, Login(t) \/ Open(t) \/ Expire(t) \/ Reload(t) \/ EndSession(t) \/ Leave(t)
      PROVE  SessionsInv'
  BY <1>3, LoginInv, OpenInv, ExpireInv, ReloadInv, EndSessionInv, LeaveInv
<1>4. ASSUME NEW i \in Sids, RotateForNobody(i) \/ Outdate(i) PROVE SessionsInv'
  BY <1>4, RotateForNobodyInv, OutdateInv
<1>5. CASE SetStatus \/ SetPassword
  BY <1>5, SetStatusInv, SetPasswordInv
<1>6. CASE UNCHANGED vars
  BY <1>6 DEF vars, SessionsInv, TypeOK, UnderWay, OneRenews, Undisturbed, OldPasswordGone,
     Renews, Latest
<1> QED
  BY <1>1, <1>2, <1>3, <1>4, <1>5, <1>6 DEF Next

\* The inductive invariant: a renewal under way has a token, with locks there is
\* one at a time, and it sends the latest token until something ends a session.
THEOREM SessionsInvHolds == Spec => []SessionsInv
BY SessionsInitInv, SessionsNextInv, PTL DEF Spec

\* Every variable has its type.
THEOREM SessionsTypeCorrect == Spec => []TypeOK
BY SessionsInvHolds, PTL DEF SessionsInv

\* In a browser with navigator.locks the server refuses no renewal, however many
\* tabs renew, log in and reload, unless something happened that ends a session.
THEOREM RefusedForAReasonHolds == HasLocks => (Spec => []RefusedForAReason)
<1> SUFFICES ASSUME HasLocks PROVE Spec => []RefusedForAReason
  OBVIOUS
<1>1. SessionsInv => RefusedForAReason
  BY DEF SessionsInv, TypeOK, Undisturbed, RefusedForAReason
<1> QED
  BY <1>1, SessionsInvHolds, PTL

\* After a change of the password no session of the old one is there, whatever
\* renewals were under way, but those of logins verified before it.
THEOREM OldPasswordGoneHolds == Spec => []OldPasswordGone
BY SessionsInvHolds, PTL DEF SessionsInv
=============================================================================
