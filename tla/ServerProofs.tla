---------------------------- MODULE ServerProofs ----------------------------
(* Theorems about the API's smaller services, for any users, roles, customers, *)
(* attachments and requests, about the notifications, for any calendar, people, *)
(* offsets and runs, and about the changes that reach the pages, for any        *)
(* visits, operations and faults: Administration, Customers, Uploads, DueCheck, *)
(* and LivePages, which implements Mirror.                                      *)
EXTENDS Administration, Customers, Uploads, DueCheck, LivePages, Lemmas

-----------------------------------------------------------------------------
(* Administration. *)

Kinds == {"createUser", "updateUser", "updateRole", "removeRole"}

AdminRequests ==
    [kind : Kinds, at : {"checked", "exhausted", "taken"}, actor : Users \cup {Root},
     actorRole : Roles \cup {NoRole}, user : Users \cup {Root}, role : Roles \cup {NoRole},
     reference : Nat]

AdminTyped ==
    /\ ref \in [Users -> Nat] /\ \A u \in Users : ref[u] < System
    /\ role \in [Users -> Roles \cup {NoRole}]
    /\ \A u \in Users : ref[u] = 0 => role[u] = NoRole
    /\ status \in [Users -> {"ACTIVE", "INACTIVE"}]
    /\ grants \in [Roles -> BOOLEAN]
    /\ roles \subseteq Roles
    /\ call \in [Calls -> AdminRequests \cup {NoCall}]

\* A user is created by one request, of another user; an updated one exists.
CreatesAnother ==
    /\ \A q \in Calls : call[q].kind = "createUser" =>
        /\ call[q].actor # call[q].user /\ call[q].user \in Users
        /\ ref[call[q].user] = 0
        /\ \A p \in Calls : call[p].kind = "createUser" /\ call[p].user = call[q].user => p = q
        /\ call[q].at = "checked" => call[q].reference # 0 /\ call[q].reference < System
    /\ \A q \in Calls : call[q].kind = "updateUser" => call[q].user \in Created

\* What a request has read still holds, unless a write of another one came
\* between.
StillChecked ==
    \A q \in Calls \ raced :
        /\ call[q].kind = "removeRole" =>
             call[q].role \in Roles /\ \A u \in Users : role[u] # call[q].role
        /\ call[q].kind = "updateUser" =>
             (call[q].actor = call[q].user => role[call[q].user] = call[q].role)
        /\ call[q].kind = "updateRole" =>
             /\ call[q].role \in Roles
             /\ call[q].actor # Root => role[call[q].actor] # call[q].role

AdminInv == AdminTyped /\ CreatesAnother /\ StillChecked /\ ReferenceFound

-----------------------------------------------------------------------------
\* The next reference is one more than one that is taken, or than zero.
LEMMA NextReferenceIs ==
    ASSUME AdminTyped
    PROVE  /\ NextReference(References) \in 1..System
           /\ NextReference(References) = System => System - 1 \in References
<1> DEFINE regular == (References \ {System}) \cup {0}
<1>1. /\ regular \in SUBSET Nat /\ 0 \in regular /\ \A n \in regular : n < System
      /\ \A n \in regular : n = 0 \/ n \in References
      /\ System \in Nat
  BY AdministrationAssumption DEF References, Created, AdminTyped
<1> HIDE DEF regular
<1>2. \E n \in regular : \A k \in regular : k <= n
  <2>1. \A n \in regular : n <= System
    BY <1>1
  <2> QED
    BY <1>1, <2>1, Greatest
<1> DEFINE n == CHOOSE x \in regular : \A k \in regular : k <= x
<1>3. n \in regular
  BY <1>2
<1>4. NextReference(References) = 1 + n
  BY DEF NextReference, regular
<1> HIDE DEF n
<1>5. n \in Nat /\ n < System /\ (n = 0 \/ n \in References)
  BY <1>1, <1>3
<1>6. 1 + n \in 1..System /\ (1 + n = System => n = System - 1 /\ n # 0)
  BY <1>5, <1>1, AdministrationAssumption
<1> QED
  BY <1>4, <1>5, <1>6

-----------------------------------------------------------------------------
LEMMA AdminInitInv == AdminInit => AdminInv
<1> SUFFICES ASSUME AdminInit PROVE AdminInv
  OBVIOUS
<1>1. \A q \in Calls : call[q] = NoCall /\ call[q].kind = "none"
  BY DEF AdminInit, NoCall
<1>2. AdminTyped
  BY <1>1, AdministrationAssumption DEF AdminInit, AdminTyped
<1> QED
  BY <1>1, <1>2 DEF AdminInv, CreatesAnother, StillChecked, ReferenceFound

\* A request begins, whose checks hold.
LEMMA Begun ==
    ASSUME AdminInv, NEW q \in Calls, NEW a, NEW record \in AdminRequests, BeginCall(q, a, record),
           record.kind = "createUser" =>
             /\ record.actor # record.user /\ record.user \in Users
             /\ ref[record.user] = 0
             /\ \A p \in Calls : call[p].kind = "createUser" => call[p].user # record.user
             /\ record.at = "checked" => record.reference # 0 /\ record.reference < System
             /\ record.at = "exhausted" => System - 1 \in References,
           record.kind = "removeRole" =>
             record.role \in Roles /\ \A u \in Users : role[u] # record.role,
           record.kind = "updateUser" =>
             record.user \in Created /\ (record.actor = record.user => role[record.user] = record.role),
           record.kind = "updateRole" =>
             record.role \in Roles /\ (record.actor # Root => role[record.actor] # record.role)
    PROVE  AdminInv'
<1>1. /\ call'[q] = record /\ \A p \in Calls \ {q} : call'[p] = call[p]
      /\ call' \in [Calls -> AdminRequests \cup {NoCall}]
      /\ raced' = raced \ {q}
      /\ UNCHANGED <<ref, role, status, grants, roles>>
  BY DEF BeginCall, AdminInv, AdminTyped
<1>2. References' = References /\ Created' = Created
  BY <1>1 DEF References, Created
<1>3. AdminTyped'
  BY <1>1 DEF AdminInv, AdminTyped
<1>4. CreatesAnother'
  BY <1>1, <1>2 DEF AdminInv, CreatesAnother
<1>5. StillChecked'
  <2>1. ASSUME NEW p \in Calls \ raced'
        PROVE  /\ call'[p].kind = "removeRole" =>
                    call'[p].role \in Roles /\ \A u \in Users : role[u] # call'[p].role
               /\ call'[p].kind = "updateUser" =>
                    (call'[p].actor = call'[p].user => role[call'[p].user] = call'[p].role)
               /\ call'[p].kind = "updateRole" =>
                    /\ call'[p].role \in Roles
                    /\ call'[p].actor # Root => role[call'[p].actor] # call'[p].role
    <3>1. CASE p = q
      BY <3>1, <1>1
    <3>2. CASE p # q
      BY <3>2, <1>1 DEF AdminInv, StillChecked
    <3> QED
      BY <3>1, <3>2
  <2> QED
    BY <2>1, <1>1, <1>2 DEF StillChecked
<1>6. ReferenceFound'
  BY <1>1, <1>2 DEF AdminInv, ReferenceFound
<1> QED
  BY <1>3, <1>4, <1>5, <1>6 DEF AdminInv

\* A request has written, or ends without: the others know.
LEMMA Wrote ==
    ASSUME AdminInv, NEW q \in Calls, AdminTyped',
           call'[q] = NoCall, \A p \in Calls \ {q} : call'[p] = call[p],
           References \subseteq References', Created \subseteq Created',
           \A p \in Calls \ {q} : call[p].kind = "createUser" => ref'[call[p].user] = 0,
           \/ raced' = raced \cup {p \in Calls \ {q} : call[p] # NoCall}
           \/ UNCHANGED <<ref, role, raced>>
    PROVE  AdminInv'
<1>1. NoCall.kind = "none"
  BY DEF NoCall
<1>2. CreatesAnother'
  BY <1>1 DEF AdminInv, CreatesAnother
<1>3. ReferenceFound'
  BY <1>1 DEF AdminInv, ReferenceFound
<1>4. StillChecked'
  <2>1. CASE raced' = raced \cup {p \in Calls \ {q} : call[p] # NoCall}
    <3>1. \A p \in Calls \ raced' : call'[p].kind = "none"
      BY <1>1, <2>1
    <3> QED
      BY <3>1 DEF StillChecked
  <2>2. CASE UNCHANGED <<ref, role, raced>>
    <3>1. Created' = Created
      BY <2>2 DEF Created
    <3>2. \A p \in Calls : call'[p] = call[p] \/ call'[p].kind = "none"
      BY <1>1
    <3> QED
      BY <2>2, <3>1, <3>2 DEF AdminInv, StillChecked
  <2> QED
    BY <2>1, <2>2
<1> QED
  BY <1>2, <1>3, <1>4 DEF AdminInv

LEMMA BeginUser ==
    ASSUME AdminInv, NEW q \in Calls, NEW a \in Users \cup {Root}, NEW u \in Users,
           NEW r \in Roles \cup {NoRole}, NEW given \in 0..System,
           \/ StartCreateUser(q, a, u, r, given)
           \/ StartUpdateUser(q, a, u, r)
    PROVE  AdminInv'
<1>1. RoleOf(a) \in Roles \cup {NoRole} /\ System \in Nat
  BY AdministrationAssumption DEF RoleOf, AdminInv, AdminTyped
<1>2. CASE StartCreateUser(q, a, u, r, given)
  <2> DEFINE reference == IF given = 0 THEN NextReference(References) ELSE given
             refused == reference >= System \/ given \in References
             at == IF refused THEN (IF given = 0 THEN "exhausted" ELSE "taken") ELSE "checked"
             record == [kind |-> "createUser", at |-> at, actor |-> a, actorRole |-> RoleOf(a),
                        user |-> u, role |-> r, reference |-> reference]
  <2>1. BeginCall(q, a, record)
    BY <1>2 DEF StartCreateUser, Request
  <2>2. a \in Created \cup {Root} /\ u \notin Created
    BY <1>2 DEF StartCreateUser, BeginCall, Created
  <2>3. reference \in Nat /\ reference # 0 /\ reference <= System
        /\ (given = 0 /\ reference = System => System - 1 \in References)
    BY <1>1, NextReferenceIs DEF AdminInv
  <2>4. 0 \notin References
    BY AdministrationAssumption DEF References, Created
  <2>5. /\ at = "checked" => reference < System
        /\ at = "exhausted" => given = 0 /\ reference = System
        /\ at \in {"checked", "exhausted", "taken"}
    <3> HIDE DEF reference
    <3> QED
      BY <1>1, <2>3, <2>4
  <2> HIDE DEF at, reference
  <2>6. record \in AdminRequests
    BY <1>1, <2>3, <2>5 DEF AdminRequests, Kinds
  <2>7. a # u /\ ref[u] = 0 /\ \A p \in Calls : call[p].kind = "createUser" => call[p].user # u
    BY <1>2, <2>2, AdministrationAssumption DEF StartCreateUser
  <2> QED
    BY <2>1, <2>3, <2>5, <2>6, <2>7, Begun
<1>3. CASE StartUpdateUser(q, a, u, r)
  <2> DEFINE record == [kind |-> "updateUser", at |-> "checked", actor |-> a,
                        actorRole |-> RoleOf(a), user |-> u, role |-> r, reference |-> 0]
  <2>1. BeginCall(q, a, record) /\ u \in Created /\ (a = u => r = role[u])
    BY <1>3 DEF StartUpdateUser, Request
  <2>2. record \in AdminRequests
    BY <1>1 DEF AdminRequests, Kinds
  <2> QED
    BY <2>1, <2>2, Begun
<1> QED
  BY <1>2, <1>3

LEMMA BeginRole ==
    ASSUME AdminInv, NEW q \in Calls, NEW a \in Users \cup {Root}, NEW r \in Roles,
           StartUpdateRole(q, a, r) \/ StartRemoveRole(q, a, r)
    PROVE  AdminInv'
<1>1. RoleOf(a) \in Roles \cup {NoRole} /\ System \in Nat
  BY AdministrationAssumption DEF RoleOf, AdminInv, AdminTyped
<1>2. CASE StartUpdateRole(q, a, r)
  <2> DEFINE record == [kind |-> "updateRole", at |-> "checked", actor |-> a,
                        actorRole |-> RoleOf(a), user |-> a, role |-> r, reference |-> 0]
  <2>1. BeginCall(q, a, record) /\ (a # Root => role[a] # r)
    BY <1>2 DEF StartUpdateRole, Request, MayUpdateRole, RoleOf
  <2>2. record \in AdminRequests
    BY <1>1 DEF AdminRequests, Kinds
  <2> QED
    BY <1>2, <2>1, <2>2, Begun
<1>3. CASE StartRemoveRole(q, a, r)
  <2> DEFINE record == [kind |-> "removeRole", at |-> "checked", actor |-> a,
                        actorRole |-> RoleOf(a), user |-> a, role |-> r, reference |-> 0]
  <2>1. BeginCall(q, a, record) /\ ~ HasUsers(r)
    BY <1>3 DEF StartRemoveRole, Request
  <2>2. record \in AdminRequests
    BY <1>1 DEF AdminRequests, Kinds
  <2>3. \A v \in Users : role[v] # r
    BY <1>3, <2>1, AdministrationAssumption DEF HasUsers, Created, AdminInv, AdminTyped
  <2> QED
    BY <1>3, <2>1, <2>2, <2>3, Begun
<1> QED
  BY <1>2, <1>3

\* A request that is under way is typed.
LEMMA UnderWay ==
    ASSUME AdminInv, NEW q \in Calls, call[q] # NoCall
    PROVE  call[q] \in AdminRequests
BY DEF AdminInv, AdminTyped

\* What the end of a request does to the others.
LEMMA Ends ==
    ASSUME AdminInv, NEW q \in Calls, Done(q)
    PROVE  /\ call'[q] = NoCall /\ \A p \in Calls \ {q} : call'[p] = call[p]
           /\ call' \in [Calls -> AdminRequests \cup {NoCall}]
BY DEF AdminInv, AdminTyped, Done

LEMMA InsertUserInv ==
    ASSUME AdminInv, NEW q \in Calls, InsertUser(q)
    PROVE  AdminInv'
<1>1. call[q] \in AdminRequests /\ call[q].kind = "createUser" /\ call[q].at = "checked"
  BY UnderWay DEF InsertUser, At, NoCall
<1> DEFINE u == call[q].user
           n == call[q].reference
<1>2. u \in Users /\ n \in Nat /\ n # 0 /\ n < System /\ call[q].role \in Roles \cup {NoRole}
      /\ System \in Nat
  BY <1>1, AdministrationAssumption DEF AdminInv, CreatesAnother, AdminRequests
<1>3. /\ ref' = [ref EXCEPT ![u] = n]
      /\ role' = [role EXCEPT ![u] = call[q].role]
      /\ status' = [status EXCEPT ![u] = "ACTIVE"]
      /\ Written(q) /\ UNCHANGED <<grants, roles>>
  BY DEF InsertUser
<1> HIDE DEF u, n
<1>4. AdminTyped'
  BY <1>2, <1>3, Ends DEF AdminInv, AdminTyped, Written
<1>5. ref[u] = 0
  BY <1>1 DEF AdminInv, CreatesAnother, u
<1>6. References \subseteq References' /\ Created \subseteq Created'
  BY <1>2, <1>3, <1>5 DEF References, Created, AdminInv, AdminTyped
<1>7. ASSUME NEW p \in Calls \ {q}, call[p].kind = "createUser" PROVE ref'[call[p].user] = 0
  <2>1. call[p].user # u /\ call[p].user \in Users /\ ref[call[p].user] = 0
    BY <1>1, <1>7 DEF AdminInv, CreatesAnother, u
  <2> QED
    BY <1>3, <2>1 DEF AdminInv, AdminTyped
<1> QED
  BY <1>3, <1>4, <1>6, <1>7, Ends, Wrote DEF Written

LEMMA OtherWritesInv ==
    ASSUME AdminInv, NEW q \in Calls, NEW admin \in BOOLEAN,
           UpdateUser(q) \/ RemoveRole(q) \/ UpdateRole(q, admin)
    PROVE  AdminInv'
<1>1. Written(q) /\ UNCHANGED <<ref, status>>
  BY DEF UpdateUser, RemoveRole, UpdateRole
<1>2. References' = References /\ Created' = Created
  BY <1>1 DEF References, Created
<1>3. call[q] \in AdminRequests
  BY UnderWay DEF UpdateUser, RemoveRole, UpdateRole, At, NoCall
<1>4. call[q].role \in Roles \cup {NoRole}
  BY <1>3 DEF AdminRequests
<1>5. AdminTyped'
  <2>1. call' \in [Calls -> AdminRequests \cup {NoCall}]
    BY <1>1, Ends DEF Written
  <2>2. CASE UpdateUser(q)
    <3>1. /\ role' = [role EXCEPT ![call[q].user] = call[q].role] /\ UNCHANGED <<grants, roles>>
          /\ call[q].user \in Created
      BY <2>2 DEF UpdateUser, At, AdminInv, CreatesAnother
    <3> QED
      BY <1>1, <1>4, <2>1, <3>1 DEF AdminInv, AdminTyped, Created
  <2>3. CASE RemoveRole(q)
    <3>1. /\ roles' \subseteq roles /\ UNCHANGED grants
          /\ role' = [u \in Users |-> IF role[u] = call[q].role THEN NoRole ELSE role[u]]
      BY <2>3 DEF RemoveRole
    <3> QED
      BY <1>1, <2>1, <3>1 DEF AdminInv, AdminTyped
  <2>4. CASE UpdateRole(q, admin)
    <3>1. grants' = [grants EXCEPT ![call[q].role] = admin] /\ UNCHANGED <<role, roles>>
      BY <2>4 DEF UpdateRole
    <3> QED
      BY <1>1, <2>1, <3>1 DEF AdminInv, AdminTyped
  <2> QED
    BY <2>2, <2>3, <2>4
<1>6. \A p \in Calls \ {q} : call[p].kind = "createUser" => ref'[call[p].user] = 0
  BY <1>1 DEF AdminInv, CreatesAnother
<1> QED
  BY <1>1, <1>2, <1>5, <1>6, Ends, Wrote DEF Written

\* A change in one statement.
LEMMA AtOnceInv ==
    ASSUME AdminInv, NEW q \in Calls, NEW a, NEW u, NEW s \in {"ACTIVE", "INACTIVE"},
           NEW r, NEW admin \in BOOLEAN,
           (u \in Users /\ SetStatus(q, a, u, s)) \/ (r \in Roles /\ CreateRole(q, a, r, admin))
    PROVE  AdminInv'
<1>1. /\ call[q] = NoCall /\ UNCHANGED <<ref, role, call>>
      /\ raced' = raced \cup {p \in Calls \ {q} : call[p] # NoCall}
  BY DEF SetStatus, CreateRole
<1>2. References' = References /\ Created' = Created
  BY <1>1 DEF References, Created
<1>3. AdminTyped'
  <2>1. CASE u \in Users /\ SetStatus(q, a, u, s)
    BY <1>1, <2>1 DEF SetStatus, AdminInv, AdminTyped
  <2>2. CASE r \in Roles /\ CreateRole(q, a, r, admin)
    BY <1>1, <2>2 DEF CreateRole, AdminInv, AdminTyped
  <2> QED
    BY <2>1, <2>2
<1>4. \A p \in Calls \ {q} : call[p].kind = "createUser" => ref'[call[p].user] = 0
  BY <1>1 DEF AdminInv, CreatesAnother
<1> QED
  BY <1>1, <1>2, <1>3, <1>4, Wrote

LEMMA AdminNextInv == AdminInv /\ [AdminNext]_adminVars => AdminInv'
<1> SUFFICES ASSUME AdminInv, [AdminNext]_adminVars PROVE AdminInv'
  OBVIOUS
<1>1. ASSUME NEW q \in Calls, Refused(q) PROVE AdminInv'
  <2>1. Done(q) /\ UNCHANGED <<ref, role, status, grants, roles, raced>>
    BY <1>1 DEF Refused, Refuse
  <2>2. References' = References /\ Created' = Created
    BY <2>1 DEF References, Created
  <2>3. AdminTyped'
    BY <2>1, Ends DEF AdminInv, AdminTyped
  <2>4. \A p \in Calls \ {q} : call[p].kind = "createUser" => ref'[call[p].user] = 0
    BY <2>1 DEF AdminInv, CreatesAnother
  <2> QED
    BY <2>1, <2>2, <2>3, <2>4, Ends, Wrote
<1>2. CASE UNCHANGED adminVars
  BY <1>2 DEF adminVars, AdminInv, AdminTyped, CreatesAnother, StillChecked, ReferenceFound,
              References, Created
<1>3. ASSUME NEW q \in Calls, NEW a \in Users \cup {Root}, NEW u \in Users,
             NEW r \in Roles \cup {NoRole}, StartUpdateUser(q, a, u, r)
      PROVE  AdminInv'
  <2>1. 0 \in 0..System
    BY AdministrationAssumption
  <2> QED
    BY <1>3, <2>1, BeginUser
<1>4. ASSUME NEW q \in Calls, NEW a \in Users \cup {Root}, NEW u \in Users,
             NEW s \in {"ACTIVE", "INACTIVE"}, SetStatus(q, a, u, s)
      PROVE  AdminInv'
  BY <1>4, AtOnceInv
<1>5. ASSUME NEW q \in Calls, NEW a \in Users \cup {Root}, NEW r \in Roles, NEW admin \in BOOLEAN,
             CreateRole(q, a, r, admin)
      PROVE  AdminInv'
  BY <1>5, AtOnceInv
<1>6. ASSUME NEW q \in Calls, UpdateUser(q) \/ RemoveRole(q) PROVE AdminInv'
  BY <1>6, OtherWritesInv
<1> QED
  BY <1>1, <1>2, <1>3, <1>4, <1>5, <1>6, BeginUser, BeginRole, InsertUserInv, OtherWritesInv
     DEF AdminNext

-----------------------------------------------------------------------------
\* A reference is found for a new user until the last one before the system's
\* is taken, whatever requests overlap.
THEOREM ReferenceFoundHolds == AdminSpec => []ReferenceFound
BY AdminInitInv, AdminNextInv, PTL DEF AdminSpec, AdminInv

\* The removal of a role that no write overtook finds nobody with that role.
LEMMA RemovedUnused ==
    ASSUME AdminInv, NEW q \in Calls, RemoveRole(q), q \notin raced
    PROVE  role' = role
<1>1. call[q].kind = "removeRole" /\ role' = [u \in Users |-> IF role[u] = call[q].role THEN NoRole ELSE role[u]]
  BY DEF RemoveRole, At
<1>2. \A u \in Users : role[u] # call[q].role
  BY <1>1 DEF AdminInv, StillChecked
<1> QED
  BY <1>1, <1>2 DEF AdminInv, AdminTyped

\* A role is removed without effect on anybody, unless a write came between the
\* test that nobody has it and the removal.
THEOREM RoleKeptHolds == AdminSpec => RoleKept
<1>1. AdminInv /\ [AdminNext]_adminVars =>
        [\A q \in Calls : RemoveRole(q) /\ role' # role => q \in raced]_adminVars
  BY RemovedUnused
<1> QED
  BY <1>1, AdminInitInv, AdminNextInv, PTL DEF AdminSpec, RoleKept

\* Nobody gives himself administration, or loses it, by a request of his own,
\* unless a write of another request came between its check and its write.
THEOREM OwnRightsByOthersHolds == AdminSpec => OwnRightsByOthers
<1>1. ASSUME AdminInv, NEW q \in Calls, NEW a \in Users, call[q].actor = a, q \notin raced,
             InsertUser(q) \/ UpdateUser(q) \/ RemoveRole(q) \/ (\E admin \in BOOLEAN : UpdateRole(q, admin))
      PROVE  Admin(a)' = Admin(a)
  <2>1. a # Root
    BY AdministrationAssumption
  <2>2. CASE InsertUser(q)
    <3>1. /\ a # call[q].user
          /\ role' = [role EXCEPT ![call[q].user] = call[q].role]
          /\ status' = [status EXCEPT ![call[q].user] = "ACTIVE"]
          /\ UNCHANGED grants
      BY <1>1, <2>2 DEF InsertUser, At, AdminInv, CreatesAnother
    <3> QED
      BY <1>1, <3>1 DEF Admin, AdminInv, AdminTyped
  <2>3. CASE UpdateUser(q)
    <3>1. /\ call[q].kind = "updateUser" /\ UNCHANGED <<grants, status>>
          /\ role' = [role EXCEPT ![call[q].user] = call[q].role]
      BY <2>3 DEF UpdateUser, At
    <3>2. a = call[q].user => call[q].role = role[a]
      BY <1>1, <3>1 DEF AdminInv, StillChecked
    <3>3. role'[a] = role[a]
      BY <1>1, <3>1, <3>2 DEF AdminInv, AdminTyped
    <3> QED
      BY <3>1, <3>3 DEF Admin
  <2>4. CASE RemoveRole(q)
    BY <1>1, <2>4, RemovedUnused DEF RemoveRole, Admin
  <2>5. ASSUME NEW admin \in BOOLEAN, UpdateRole(q, admin) PROVE Admin(a)' = Admin(a)
    <3>1. /\ call[q].kind = "updateRole" /\ UNCHANGED <<role, status>>
          /\ grants' = [grants EXCEPT ![call[q].role] = admin]
      BY <2>5 DEF UpdateRole, At
    <3>2. role[a] # call[q].role /\ role[a] \in Roles \cup {NoRole}
      BY <1>1, <2>1, <3>1 DEF AdminInv, StillChecked, AdminTyped
    <3>3. role[a] # NoRole => grants'[role[a]] = grants[role[a]]
      BY <3>1, <3>2 DEF AdminInv, AdminTyped
    <3> QED
      BY <3>1, <3>3 DEF Admin
  <2> QED
    BY <1>1, <2>2, <2>3, <2>4, <2>5
<1>2. AdminInv /\ [AdminNext]_adminVars =>
        [\A q \in Calls :
           InsertUser(q) \/ UpdateUser(q) \/ RemoveRole(q) \/ (\E admin \in BOOLEAN : UpdateRole(q, admin))
           => \A a \in Users : call[q].actor = a /\ q \notin raced => Admin(a)' = Admin(a)]_adminVars
  BY <1>1
<1> QED
  BY <1>2, AdminInitInv, AdminNextInv, PTL DEF AdminSpec, OwnRightsByOthers

-----------------------------------------------------------------------------
(* Customers. *)

AddressRows == [place : Places, default : BOOLEAN]

Saves == [kind : {"create", "update"}, id : Ids, doc : Docs, input : Seq(AddressRows)]

SaleLines ==
    [kind : {"sale", "import"}, id : Ids, doc : Docs, place : Places, locks : BOOLEAN,
     at : {"upserted", "read"}, existing : Seq(AddressRows)]

CustomersTyped ==
    /\ catalog \in [Ids -> Seq(AddressRows)]
    /\ req \in [Requests -> {NoReq} \cup Saves \cup SaleLines]

\* One transaction at a time holds a customer's row.
OneHolder ==
    \A p, q \in Requests : Holds(p) /\ Holds(q) /\ req[p].id = req[q].id => p = q

\* What a transaction has read of a catalog is still there.
ReadStands ==
    \A q \in Requests :
        req[q].kind \in {"sale", "import"} /\ req[q].at = "read" =>
            req[q].id \in unguarded \/ req[q].existing = catalog[req[q].id]

\* Rows of which exactly one is the default, unless there are none.
SingleDefault(cat) ==
    cat # <<>> => \E i \in DOMAIN cat : cat[i].default
                                        /\ \A j \in DOMAIN cat : cat[j].default => j = i

CustomersInv ==
    /\ CustomersTyped /\ OneHolder /\ ReadStands
    /\ \A c \in Ids \ unguarded : SingleDefault(catalog[c])

LEMMA CustomersInitInv == CustomersInit => CustomersInv
BY DEF CustomersInit, CustomersInv, CustomersTyped, OneHolder, Holds, ReadStands, SingleDefault, NoReq

\* withSingleDefault leaves one default.
LEMMA WithSingleDefaultIs ==
    ASSUME NEW input \in Seq(AddressRows)
    PROVE  /\ WithSingleDefault(input) \in Seq(AddressRows)
           /\ SingleDefault(WithSingleDefault(input))
<1> DEFINE named == Named(input)
           out == WithSingleDefault(input)
           first(i) == IF named = {} THEN i = 1
                       ELSE input[i].default /\ \A j \in named : i <= j
<1>1. /\ DOMAIN input = 1 .. Len(input) /\ Len(input) \in Nat
      /\ \A i \in DOMAIN input : input[i] \in AddressRows
  OBVIOUS
<1>2. out = [i \in DOMAIN input |-> [input[i] EXCEPT !.default = first(i)]]
  BY <1>1 DEF WithSingleDefault, AddressRows
<1>3. \A i : first(i) \in BOOLEAN
  BY <1>1 DEF AddressRows
<1>4. ASSUME NEW i \in DOMAIN input
      PROVE  out[i] \in AddressRows /\ out[i].default = first(i)
  BY <1>1, <1>2, <1>3, <1>4 DEF AddressRows
<1>5. DOMAIN out = DOMAIN input
  BY <1>2
<1> HIDE DEF out, first
<1>6. out \in Seq(AddressRows)
  <2>1. out = [i \in 1 .. Len(input) |-> out[i]]
    BY <1>1, <1>2, <1>4
  <2> QED
    BY <1>1, <1>4, <2>1
<1>7. ASSUME out # <<>>
      PROVE  \E i \in DOMAIN input : first(i) /\ \A j \in DOMAIN input : first(j) => j = i
  <2>1. CASE named = {}
    <3>1. 1 \in DOMAIN input
      BY <1>1, <1>5, <1>6, <1>7
    <3> QED
      BY <1>1, <2>1, <3>1 DEF first
  <2>2. CASE named # {}
    <3>1. named \subseteq DOMAIN input /\ named \subseteq Nat
      BY <1>1 DEF Named
    <3>2. PICK i \in named : \A j \in named : i <= j
      BY <2>2, <3>1, Least
    <3>3. \A j \in DOMAIN input : input[j].default <=> j \in named
      BY DEF Named
    <3> HIDE DEF named
    <3>4. first(i)
      BY <2>2, <3>1, <3>2, <3>3 DEF first
    <3>5. ASSUME NEW j \in DOMAIN input, first(j) PROVE j = i
      BY <2>2, <3>1, <3>2, <3>3, <3>5 DEF first
    <3> QED
      BY <3>1, <3>2, <3>4, <3>5
  <2> QED
    BY <2>1, <2>2
<1>8. SingleDefault(out)
  BY <1>4, <1>5, <1>7 DEF SingleDefault
<1> QED
  BY <1>6, <1>8 DEF out

\* So does an address more, when it was decided on the rows that are there.
LEMMA EnsureIs ==
    ASSUME NEW cat \in Seq(AddressRows), NEW existing, NEW place \in Places
    PROVE  /\ EnsureCatalogAddress(cat, existing, place) \in Seq(AddressRows)
           /\ existing = cat /\ SingleDefault(cat)
                => SingleDefault(EnsureCatalogAddress(cat, existing, place))
<1> DEFINE new == Row(place, existing = <<>>)
           out == Append(cat, new)
<1>1. new \in AddressRows /\ new.default = (existing = <<>>)
  BY DEF Row, AddressRows
<1> HIDE DEF new
<1>2. /\ out \in Seq(AddressRows) /\ DOMAIN cat = 1 .. Len(cat) /\ Len(cat) \in Nat
      /\ DOMAIN out = 1 .. (Len(cat) + 1)
      /\ \A i \in DOMAIN cat : out[i] = cat[i]
      /\ out[Len(cat) + 1] = new
  BY <1>1
<1> HIDE DEF out
<1>3. ASSUME existing = cat, SingleDefault(cat) PROVE SingleDefault(out)
  <2>1. CASE cat = <<>>
    <3>1. new.default /\ Len(cat) = 0
      BY <1>1, <1>3, <2>1
    <3>2. DOMAIN out = {1} /\ out[1] = new
      BY <1>2, <3>1
    <3> QED
      BY <3>1, <3>2 DEF SingleDefault
  <2>2. CASE cat # <<>>
    <3>1. ~ new.default
      BY <1>1, <1>3, <2>2
    <3>2. PICK i \in DOMAIN cat : cat[i].default /\ \A j \in DOMAIN cat : cat[j].default => j = i
      BY <1>3, <2>2 DEF SingleDefault
    <3>3. i \in DOMAIN out /\ out[i].default
      BY <1>2, <3>2
    <3>4. ASSUME NEW j \in DOMAIN out, out[j].default PROVE j = i
      <4>1. j \in DOMAIN cat
        BY <1>2, <3>1, <3>4
      <4> QED
        BY <1>2, <3>2, <3>4, <4>1
    <3> QED
      BY <3>3, <3>4 DEF SingleDefault
  <2> QED
    BY <2>1, <2>2
<1> QED
  BY <1>2, <1>3 DEF EnsureCatalogAddress, new, out

\* A request that goes on or ends and leaves the catalogs alone.
LEMMA BeginInv ==
    ASSUME CustomersInv, NEW q \in Requests, NEW record \in {NoReq} \cup Saves \cup SaleLines,
           req' = [req EXCEPT ![q] = record], UNCHANGED <<catalog, unguarded>>,
           record \in SaleLines =>
               /\ record.locks => \/ ~ Held(record.id)
                                  \/ Holds(q) /\ req[q].id = record.id
               /\ record.at = "read" => record.existing = catalog[record.id]
    PROVE  CustomersInv'
<1>1. CustomersTyped'
  BY DEF CustomersInv, CustomersTyped
<1>2. /\ req'[q] = record /\ \A p \in Requests \ {q} : req'[p] = req[p]
      /\ req \in [Requests -> {NoReq} \cup Saves \cup SaleLines]
  BY DEF CustomersInv, CustomersTyped
<1>3. record.kind \in {"sale", "import"} => record \in SaleLines
  BY DEF NoReq, Saves
<1>4. OneHolder'
  <2>1. ASSUME NEW p \in Requests, p # q, Holds(p), record.kind \in {"sale", "import"}, record.locks,
               req[p].id = record.id
        PROVE  FALSE
    <3>1. Held(record.id)
      BY <2>1 DEF Held, On, Holds
    <3>2. Holds(q) /\ req[q].id = record.id
      BY <1>3, <2>1, <3>1
    <3> QED
      BY <2>1, <3>2 DEF CustomersInv, OneHolder
  <2> QED
    BY <1>2, <2>1 DEF CustomersInv, OneHolder, Holds
<1>5. ReadStands'
  BY <1>2, <1>3 DEF CustomersInv, ReadStands
<1> QED
  BY <1>1, <1>4, <1>5 DEF CustomersInv

\* A catalog is written, and its request ends.
LEMMA WriteInv ==
    ASSUME CustomersInv, NEW q \in Requests, NEW c \in Ids, NEW cat \in Seq(AddressRows),
           NEW guarded \in BOOLEAN,
           req' = [req EXCEPT ![q] = NoReq], catalog' = [catalog EXCEPT ![c] = cat],
           unguarded' = Marks(q, c, guarded),
           guarded => \A p \in On(c) \ {q} : ~ Holds(p),
           c \notin unguarded => SingleDefault(cat)
    PROVE  CustomersInv'
<1>1. CustomersTyped'
  BY DEF CustomersInv, CustomersTyped
<1>2. /\ req'[q] = NoReq /\ \A p \in Requests \ {q} : req'[p] = req[p]
      /\ catalog'[c] = cat /\ \A d \in Ids \ {c} : catalog'[d] = catalog[d]
      /\ req \in [Requests -> {NoReq} \cup Saves \cup SaleLines]
  BY DEF CustomersInv, CustomersTyped
<1>3. OneHolder'
  BY <1>2 DEF CustomersInv, OneHolder, Holds, NoReq
<1>4. unguarded \subseteq unguarded'
  BY DEF Marks
<1>5. ReadStands'
  <2> SUFFICES ASSUME NEW p \in Requests, req'[p].kind \in {"sale", "import"}, req'[p].at = "read"
               PROVE  req'[p].id \in unguarded' \/ req'[p].existing = catalog'[req'[p].id]
    BY DEF ReadStands
  <2>1. p # q /\ req'[p] = req[p] /\ req[p] \in SaleLines
    BY <1>2 DEF NoReq, Saves
  <2>2. req[p].id \in unguarded \/ req[p].existing = catalog[req[p].id]
    BY <2>1 DEF CustomersInv, ReadStands
  <2>3. CASE req[p].id # c
    BY <1>2, <1>4, <2>1, <2>2, <2>3 DEF SaleLines
  <2>4. CASE req[p].id = c
    <3>1. p \in On(c) \ {q}
      BY <2>1, <2>4 DEF On, SaleLines
    <3>2. ~ guarded \/ ~ req[p].locks
      BY <2>1, <3>1 DEF Holds, SaleLines
    <3> QED
      BY <2>1, <2>4, <3>1, <3>2 DEF Marks, SaleLines
  <2> QED
    BY <2>3, <2>4
<1>6. \A d \in Ids \ unguarded' : SingleDefault(catalog'[d])
  BY <1>2, <1>4 DEF CustomersInv
<1> QED
  BY <1>1, <1>3, <1>5, <1>6 DEF CustomersInv

LEMMA InputsTyped == Inputs \subseteq Seq(AddressRows)
<1> SUFFICES ASSUME NEW n \in 0 .. 2, NEW input \in [1 .. n -> AddressRows]
             PROVE  input \in Seq(AddressRows)
  BY DEF Inputs, AddressRows
<1> QED
  BY SeqDef

LEMMA CustomersNextInv == CustomersInv /\ [CustomersNext]_customersVars => CustomersInv'
<1> SUFFICES ASSUME CustomersInv, [CustomersNext]_customersVars PROVE CustomersInv'
  OBVIOUS
<1>0. CustomersTyped
  BY DEF CustomersInv
<1>1. CASE UNCHANGED customersVars
  BY <1>1 DEF customersVars, CustomersInv, CustomersTyped, OneHolder, Holds, ReadStands
<1>2. ASSUME NEW q \in Requests, NEW doc \in Docs, NEW input \in Inputs, StartCreate(q, doc, input)
      PROVE  CustomersInv'
  <2>1. PICK c \in Ids : Begin(q, [kind |-> "create", id |-> c, doc |-> doc, input |-> input])
    BY <1>2 DEF StartCreate
  <2> DEFINE record == [kind |-> "create", id |-> c, doc |-> doc, input |-> input]
  <2>2. record \in Saves /\ record \notin SaleLines
    BY InputsTyped DEF Saves, SaleLines
  <2> HIDE DEF record
  <2> QED
    BY <2>1, <2>2, BeginInv DEF Begin, record
<1>3. ASSUME NEW q \in Requests, NEW c \in Ids, NEW doc \in Docs, NEW input \in Inputs,
             StartUpdate(q, c, doc, input)
      PROVE  CustomersInv'
  <2> DEFINE record == [kind |-> "update", id |-> c, doc |-> doc, input |-> input]
  <2>1. Begin(q, record)
    BY <1>3 DEF StartUpdate
  <2>2. record \in Saves /\ record \notin SaleLines
    BY InputsTyped DEF Saves, SaleLines
  <2> HIDE DEF record
  <2> QED
    BY <2>1, <2>2, BeginInv DEF Begin
<1>4. ASSUME NEW q \in Requests, Save(q) PROVE CustomersInv'
  <2> DEFINE c == req[q].id
             cat == WithSingleDefault(req[q].input)
  <2>1. req[q] \in Saves /\ ~ Held(c) /\ req' = [req EXCEPT ![q] = NoReq]
    BY <1>0, <1>4 DEF Save, End, CustomersTyped, NoReq, SaleLines
  <2>2. c \in Ids /\ req[q].input \in Seq(AddressRows)
    BY <2>1 DEF Saves
  <2>3. CASE Customer(req[q].doc) \subseteq {c}
    <3>1. catalog' = [catalog EXCEPT ![c] = cat] /\ unguarded' = Marks(q, c, TRUE)
      BY <1>4, <2>3 DEF Save
    <3>2. \A p \in On(c) \ {q} : ~ Holds(p)
      BY <2>1 DEF Held
    <3>3. cat \in Seq(AddressRows) /\ SingleDefault(cat)
      BY <2>2, WithSingleDefaultIs
    <3> HIDE DEF c, cat
    <3> QED
      BY <2>1, <2>2, <3>1, <3>2, <3>3, WriteInv
  <2>4. CASE ~ Customer(req[q].doc) \subseteq {c}
    <3>1. UNCHANGED <<catalog, unguarded>>
      BY <1>4, <2>4 DEF Save
    <3>2. NoReq \notin SaleLines
      BY DEF NoReq, SaleLines
    <3> QED
      BY <2>1, <3>1, <3>2, BeginInv
  <2> QED
    BY <2>3, <2>4
<1>5. ASSUME NEW q \in Requests, NEW kind \in {"sale", "import"}, NEW doc \in Docs,
             NEW place \in Places, NEW mayUpdate \in BOOLEAN,
             StartSale(q, kind, doc, place, mayUpdate)
      PROVE  CustomersInv'
  <2>1. PICK c \in Ids :
          LET locks == kind = "import" \/ mayUpdate \/ docOf[c] = NoDoc IN
          /\ locks => ~ Held(c)
          /\ Begin(q, [kind |-> kind, id |-> c, doc |-> doc, place |-> place, locks |-> locks,
                       at |-> "upserted", existing |-> <<>>])
    BY <1>5 DEF StartSale
  <2> DEFINE locks == kind = "import" \/ mayUpdate \/ docOf[c] = NoDoc
             record == [kind |-> kind, id |-> c, doc |-> doc, place |-> place, locks |-> locks,
                        at |-> "upserted", existing |-> <<>>]
  <2>2. /\ record \in SaleLines /\ record.locks = locks /\ record.id = c /\ record.at = "upserted"
        /\ (locks => ~ Held(c)) /\ Begin(q, record)
    BY <2>1 DEF SaleLines
  <2> HIDE DEF locks, record
  <2> QED
    BY <2>2, BeginInv DEF Begin
<1>6. ASSUME NEW q \in Requests, ReadCatalog(q) PROVE CustomersInv'
  <2>1. req[q] \in SaleLines
    BY <1>0, <1>6 DEF ReadCatalog, CustomersTyped, NoReq, Saves
  <2> DEFINE record == [req[q] EXCEPT !.at = "read", !.existing = catalog[req[q].id]]
  <2>2. /\ record \in SaleLines /\ record.locks = req[q].locks /\ record.id = req[q].id
        /\ record.existing = catalog[req[q].id]
    BY <1>0, <2>1 DEF SaleLines, CustomersTyped
  <2>3. req' = [req EXCEPT ![q] = record] /\ UNCHANGED <<catalog, unguarded>>
    BY <1>0, <1>6 DEF ReadCatalog, CustomersTyped
  <2>4. record.locks => Holds(q)
    BY <2>1, <2>2 DEF Holds, SaleLines
  <2> HIDE DEF record
  <2> QED
    BY <2>2, <2>3, <2>4, BeginInv
<1>7. ASSUME NEW q \in Requests, AttachAddress(q) PROVE CustomersInv'
  <2> DEFINE c == req[q].id
             cat == EnsureCatalogAddress(catalog[c], req[q].existing, req[q].place)
  <2>1. /\ req[q] \in SaleLines /\ req[q].at = "read" /\ req' = [req EXCEPT ![q] = NoReq]
        /\ unguarded' = Marks(q, c, req[q].locks)
        /\ catalog' = [catalog EXCEPT ![c] = EnsureCatalogAddress(@, req[q].existing, req[q].place)]
    <3>1. req[q].kind \in {"sale", "import"} /\ req[q].at = "read"
      BY <1>7 DEF AttachAddress
    <3>2. req[q] \in SaleLines
      BY <1>0, <3>1 DEF CustomersTyped, NoReq, Saves
    <3> QED
      BY <1>7, <3>1, <3>2 DEF AttachAddress, End
  <2>2. /\ c \in Ids /\ req[q].locks \in BOOLEAN /\ req[q].place \in Places
        /\ catalog[c] \in Seq(AddressRows)
    BY <1>0, <2>1 DEF SaleLines, CustomersTyped
  <2>3. c \in unguarded \/ (req[q].existing = catalog[c] /\ SingleDefault(catalog[c]))
    BY <2>1, <2>2 DEF CustomersInv, ReadStands, SaleLines
  <2>4. cat \in Seq(AddressRows) /\ (c \notin unguarded => SingleDefault(cat))
    BY <2>2, <2>3, EnsureIs
  <2>7. catalog' = [catalog EXCEPT ![c] = cat]
    BY <1>0, <2>1, <2>2 DEF CustomersTyped
  <2>5. req[q].locks => \A p \in On(c) \ {q} : ~ Holds(p)
    BY <2>1 DEF CustomersInv, OneHolder, On, Holds, SaleLines
  <2> DEFINE guarded == req[q].locks
  <2> HIDE DEF c, cat, guarded
  <2>6. guarded \in BOOLEAN /\ unguarded' = Marks(q, c, guarded)
    BY <2>1, <2>2 DEF guarded
  <2> QED
    BY <2>1, <2>2, <2>4, <2>5, <2>6, <2>7, WriteInv DEF guarded
<1>8. ASSUME NEW q \in Requests, Rollback(q) PROVE CustomersInv'
  <2>1. NoReq \notin SaleLines
    BY DEF NoReq, SaleLines
  <2> QED
    BY <1>8, <2>1, BeginInv DEF Rollback, End
<1> QED
  BY <1>1, <1>2, <1>3, <1>4, <1>5, <1>6, <1>7, <1>8 DEF CustomersNext

\* A customer with addresses has one default, for any customers, addresses and
\* requests, unless a sale wrote to the catalog without holding his row.
THEOREM OneDefaultHolds == CustomersSpec => []OneDefault
<1>1. CustomersInv => OneDefault
  <2> SUFFICES ASSUME CustomersInv, NEW c \in Ids \ unguarded, catalog[c] # <<>>
               PROVE  Cardinality({i \in DOMAIN catalog[c] : catalog[c][i].default}) = 1
    BY DEF OneDefault
  <2>1. PICK i \in DOMAIN catalog[c] :
          catalog[c][i].default /\ \A j \in DOMAIN catalog[c] : catalog[c][j].default => j = i
    BY DEF CustomersInv, SingleDefault
  <2>2. {j \in DOMAIN catalog[c] : catalog[c][j].default} = {i}
    BY <2>1
  <2> QED
    BY <2>2, FS_Singleton
<1> QED
  BY <1>1, CustomersInitInv, CustomersNextInv, PTL DEF CustomersSpec

-----------------------------------------------------------------------------
(* Uploads. *)

UploadSteps == {"idle", "received", "admitted", "created", "moved", "done", "failed"}

\* Uploads that have come to make their row.
RowMade(u) == step[u] \in {"created", "moved", "done", "failed"}

UploadsTyped ==
    /\ step \in [Uploads -> UploadSteps]
    /\ row \in [Uploads -> {"none", "empty", "stored"}]
    /\ removal \in [Removals -> {NoRemoval} \cup
                       [at : {"read", "deleted"}, of : Uploads, path : BOOLEAN]]
    /\ temp \subseteq Uploads /\ files \subseteq Uploads
    /\ crowd \in Nat

\* A row comes once, and a path after the file; a removal that has read a path
\* works on a finished upload, and one that has deleted the row on one without.
RowsOnce ==
    /\ \A u \in Uploads : row[u] # "none" => RowMade(u)
    /\ \A u \in Uploads : row[u] = "stored" => step[u] = "done"
    /\ \A u \in Uploads : step[u] = "moved" => u \in files
    /\ \A r \in Removals : removal[r].at # "idle" =>
         /\ RowMade(removal[r].of)
         /\ removal[r].path => step[removal[r].of] = "done"
         /\ removal[r].at = "deleted" =>
              /\ row[removal[r].of] = "none"
              /\ ~ removal[r].path => removal[r].of \in lost

\* Places given away: rows, and uploads that were let in to make one.
PlacesBounded ==
    /\ IsFiniteSet(Counted) /\ IsFiniteSet(Admitted)
    /\ Cardinality(Counted) + Cardinality(Admitted) <= Quota + crowd

UploadsInv == UploadsTyped /\ RowsOnce /\ FilesMatchRows /\ PlacesBounded

-----------------------------------------------------------------------------
LEMMA UploadsInitInv == UploadsInit => UploadsInv
<1> SUFFICES ASSUME UploadsInit PROVE UploadsInv
  OBVIOUS
<1>1. Counted = {} /\ Admitted = {} /\ crowd = 0
  BY DEF UploadsInit, Counted, Admitted
<1>2. PlacesBounded
  BY <1>1, FS_EmptySet, UploadsAssumption DEF PlacesBounded
<1> QED
  BY <1>2 DEF UploadsInit, UploadsInv, UploadsTyped, UploadSteps, RowsOnce, RowMade, FilesMatchRows,
              NoRemoval

\* Steps that give no place away keep the bound.
LEMMA NoPlace ==
    ASSUME UploadsInv, Counted' \subseteq Counted, Admitted' \subseteq Admitted, crowd' = crowd
    PROVE  PlacesBounded'
<1>1. /\ IsFiniteSet(Counted) /\ IsFiniteSet(Admitted) /\ crowd \in Nat
      /\ Cardinality(Counted) + Cardinality(Admitted) <= Quota + crowd
  BY DEF UploadsInv, UploadsTyped, PlacesBounded
<1>2. /\ IsFiniteSet(Counted') /\ Cardinality(Counted') <= Cardinality(Counted)
  BY <1>1, FS_Subset
<1>3. /\ IsFiniteSet(Admitted') /\ Cardinality(Admitted') <= Cardinality(Admitted)
  BY <1>1, FS_Subset
<1>4. /\ Cardinality(Counted) \in Nat /\ Cardinality(Counted') \in Nat
      /\ Cardinality(Admitted) \in Nat /\ Cardinality(Admitted') \in Nat
  BY <1>1, <1>2, <1>3, FS_CardinalityType
<1> QED
  BY <1>1, <1>2, <1>3, <1>4, UploadsAssumption DEF PlacesBounded

LEMMA AdmitPlace ==
    ASSUME UploadsInv, NEW u \in Uploads, Admit(u)
    PROVE  PlacesBounded'
<1>1. /\ IsFiniteSet(Counted) /\ IsFiniteSet(Admitted) /\ crowd \in Nat
      /\ Cardinality(Counted) + Cardinality(Admitted) <= Quota + crowd
  BY DEF UploadsInv, UploadsTyped, PlacesBounded
<1>2. Counted' = Counted /\ Cardinality(Counted) < Quota
  BY DEF Admit, Counted
<1>3. Admitted' = Admitted \cup {u} /\ u \notin Admitted
  BY DEF Admit, Admitted, UploadsInv, UploadsTyped
<1>4. /\ IsFiniteSet(Admitted')
      /\ Cardinality(Admitted') = Cardinality(Admitted) + 1
  BY <1>1, <1>3, FS_AddElement
<1>5. Cardinality(Counted) \in Nat /\ Cardinality(Admitted) \in Nat
  BY <1>1, FS_CardinalityType
<1>6. CASE Admitted = {}
  <2>1. crowd' = crowd /\ Cardinality(Admitted) = 0
    BY <1>6, FS_EmptySet DEF Admit
  <2> QED
    BY <1>1, <1>2, <1>4, <1>5, <2>1, UploadsAssumption DEF PlacesBounded
<1>7. CASE Admitted # {}
  <2>1. crowd' = crowd + 1
    BY <1>7 DEF Admit
  <2> QED
    BY <1>1, <1>2, <1>4, <1>5, <2>1, UploadsAssumption DEF PlacesBounded
<1> QED
  BY <1>6, <1>7

LEMMA CreatePlace ==
    ASSUME UploadsInv, NEW u \in Uploads, CreateRow(u)
    PROVE  PlacesBounded'
<1>1. /\ IsFiniteSet(Counted) /\ IsFiniteSet(Admitted) /\ crowd \in Nat /\ crowd' = crowd
      /\ Cardinality(Counted) + Cardinality(Admitted) <= Quota + crowd
  BY DEF UploadsInv, UploadsTyped, PlacesBounded, CreateRow
<1>2. Counted' = Counted \cup {u}
  BY DEF CreateRow, Counted, UploadsInv, UploadsTyped
<1>3. Admitted' = Admitted \ {u} /\ u \in Admitted
  BY DEF CreateRow, Admitted, UploadsInv, UploadsTyped
<1>4. IsFiniteSet(Counted') /\ Cardinality(Counted') <= Cardinality(Counted) + 1
  <2>1. Cardinality(Counted) \in Nat
    BY <1>1, FS_CardinalityType
  <2>2. CASE u \in Counted
    <3>1. Counted' = Counted
      BY <1>2, <2>2
    <3> QED
      BY <1>1, <2>1, <3>1
  <2>3. CASE u \notin Counted
    <3>1. IsFiniteSet(Counted \cup {u}) /\ Cardinality(Counted \cup {u}) = Cardinality(Counted) + 1
      BY <1>1, <2>3, FS_AddElement
    <3> QED
      BY <1>2, <2>1, <3>1
  <2> QED
    BY <2>2, <2>3
<1>5. IsFiniteSet(Admitted') /\ Cardinality(Admitted') = Cardinality(Admitted) - 1
  BY <1>1, <1>3, FS_RemoveElement
<1>6. /\ Cardinality(Counted) \in Nat /\ Cardinality(Admitted) \in Nat
      /\ Cardinality(Counted') \in Nat /\ Cardinality(Admitted') \in Nat
  BY <1>1, <1>4, <1>5, FS_CardinalityType
<1> QED
  BY <1>1, <1>4, <1>5, <1>6, UploadsAssumption DEF PlacesBounded

LEMMA UploadsNextInv == UploadsInv /\ [UploadsNext]_uploadVars => UploadsInv'
<1> SUFFICES ASSUME UploadsInv, [UploadsNext]_uploadVars PROVE UploadsInv'
  OBVIOUS
<1>0. UploadsTyped /\ RowsOnce /\ FilesMatchRows
  BY DEF UploadsInv
<1> USE DEF UploadsTyped, UploadSteps, RowsOnce, RowMade, FilesMatchRows
<1>1. CASE UNCHANGED uploadVars
  <2>1. Counted' = Counted /\ Admitted' = Admitted /\ crowd' = crowd
    BY <1>1 DEF uploadVars, Counted, Admitted
  <2>2. PlacesBounded'
    BY <2>1, NoPlace
  <2> QED
    BY <1>0, <1>1, <2>2 DEF uploadVars, UploadsInv
<1>2. ASSUME NEW u \in Uploads, TakeFile(u) PROVE UploadsInv'
  <2>1. Counted' = Counted /\ Admitted' \subseteq Admitted /\ crowd' = crowd
    BY <1>0, <1>2 DEF TakeFile, Counted, Admitted
  <2>2. PlacesBounded'
    BY <2>1, NoPlace
  <2> QED
    BY <1>0, <1>2, <2>2 DEF TakeFile, UploadsInv
<1>3. ASSUME NEW u \in Uploads, Admit(u) PROVE UploadsInv'
  <2>1. PlacesBounded'
    BY <1>3, AdmitPlace
  <2> QED
    BY <1>0, <1>3, <2>1 DEF Admit, UploadsInv
<1>4. ASSUME NEW u \in Uploads, CreateRow(u) PROVE UploadsInv'
  <2>1. PlacesBounded'
    BY <1>4, CreatePlace
  <2> QED
    BY <1>0, <1>4, <2>1 DEF CreateRow, UploadsInv
<1>5. ASSUME NEW u \in Uploads, Move(u) PROVE UploadsInv'
  <2>1. Counted' = Counted /\ Admitted' \subseteq Admitted /\ crowd' = crowd
    BY <1>0, <1>5 DEF Move, Counted, Admitted
  <2>2. PlacesBounded'
    BY <2>1, NoPlace
  <2> QED
    BY <1>0, <1>5, <2>2 DEF Move, UploadsInv
<1>6. ASSUME NEW u \in Uploads, StorePath(u) PROVE UploadsInv'
  <2>1. Counted' \subseteq Counted /\ Admitted' \subseteq Admitted /\ crowd' = crowd
    BY <1>0, <1>6 DEF StorePath, Counted, Admitted
  <2>2. PlacesBounded'
    BY <2>1, NoPlace
  <2> QED
    BY <1>0, <1>6, <2>2 DEF StorePath, UploadsInv
<1>7. ASSUME NEW u \in Uploads, Fail(u) PROVE UploadsInv'
  <2>1. Counted' = Counted /\ Admitted' \subseteq Admitted /\ crowd' = crowd
    BY <1>0, <1>7 DEF Fail, Counted, Admitted
  <2>2. PlacesBounded'
    BY <2>1, NoPlace
  <2> QED
    BY <1>0, <1>7, <2>2 DEF Fail, Discard, UploadsInv
<1>8. ASSUME NEW r \in Removals, NEW u \in Uploads, StartRemoval(r, u) PROVE UploadsInv'
  <2>1. Counted' = Counted /\ Admitted' = Admitted /\ crowd' = crowd
    BY <1>8 DEF StartRemoval, Counted, Admitted
  <2>2. PlacesBounded'
    BY <2>1, NoPlace
  <2> DEFINE d == [at |-> "read", of |-> u, path |-> row[u] = "stored"]
  <2>3. /\ d \in [at : {"read", "deleted"}, of : Uploads, path : BOOLEAN]
        /\ d.at = "read" /\ d.of = u /\ d.path = (row[u] = "stored")
    OBVIOUS
  <2>4. /\ removal[r].at = "idle" /\ row[u] # "none"
        /\ removal' = [removal EXCEPT ![r] = d]
        /\ UNCHANGED <<step, row, temp, files, crowd, lost>>
    BY <1>8 DEF StartRemoval
  <2> HIDE DEF d
  <2>5. UploadsTyped' /\ RowsOnce'
    BY <1>0, <2>3, <2>4
  <2>6. FilesMatchRows'
    BY <1>0, <2>3, <2>4
  <2> QED
    BY <2>2, <2>5, <2>6 DEF UploadsInv
<1>9. ASSUME NEW r \in Removals, DeleteRow(r) PROVE UploadsInv'
  <2>1. Counted' \subseteq Counted /\ Admitted' = Admitted /\ crowd' = crowd
    BY <1>0, <1>9 DEF DeleteRow, Counted, Admitted
  <2>2. PlacesBounded'
    BY <2>1, NoPlace
  <2>3. /\ removal[r] \in [at : {"read", "deleted"}, of : Uploads, path : BOOLEAN]
        /\ removal[r].at = "read"
    BY <1>0, <1>9 DEF DeleteRow, NoRemoval
  <2>4. CASE row[removal[r].of] = "none"
    BY <1>0, <1>9, <2>2, <2>4 DEF DeleteRow, UploadsInv, NoRemoval
  <2>5. CASE row[removal[r].of] # "none"
    <3> DEFINE u == removal[r].of
               d == [removal[r] EXCEPT !.at = "deleted"]
    <3>1. /\ d \in [at : {"read", "deleted"}, of : Uploads, path : BOOLEAN]
          /\ d.at = "deleted" /\ d.of = u /\ d.path = removal[r].path /\ u \in Uploads
      BY <2>3
    <3>2. /\ row' = [row EXCEPT ![u] = "none"]
          /\ removal' = [removal EXCEPT ![r] = d]
          /\ lost' = IF removal[r].path THEN lost ELSE lost \cup {u}
          /\ UNCHANGED <<step, temp, files, crowd>>
      BY <1>0, <1>9, <2>5 DEF DeleteRow
    <3> HIDE DEF d
    <3>3. /\ removal'[r] = d /\ \A q \in Removals : q # r => removal'[q] = removal[q]
      BY <1>0, <3>2
    <3>4. UploadsTyped'
      BY <1>0, <3>1, <3>2
    <3>5. RowMade(u) /\ (removal[r].path => step[u] = "done")
      BY <1>0, <2>3
    <3>6. RowsOnce'
      BY <1>0, <3>1, <3>2, <3>3, <3>5
    <3>7. FilesMatchRows'
      BY <1>0, <2>3, <3>1, <3>2, <3>3
    <3> QED
      BY <2>2, <3>4, <3>6, <3>7 DEF UploadsInv
  <2> QED
    BY <2>4, <2>5
<1>10. ASSUME NEW r \in Removals, Unlink(r) PROVE UploadsInv'
  <2>1. Counted' = Counted /\ Admitted' = Admitted /\ crowd' = crowd
    BY <1>10 DEF Unlink, Counted, Admitted
  <2>2. PlacesBounded'
    BY <2>1, NoPlace
  <2>3. /\ removal[r] \in [at : {"read", "deleted"}, of : Uploads, path : BOOLEAN]
        /\ removal[r].at = "deleted"
    BY <1>0, <1>10 DEF Unlink, NoRemoval
  <2>4. /\ UNCHANGED <<step, row, temp, crowd, lost>>
        /\ removal' = [removal EXCEPT ![r] = NoRemoval]
        /\ files' = IF removal[r].path THEN files \ {removal[r].of} ELSE files
    BY <1>10 DEF Unlink
  <2>5. UploadsTyped'
    BY <1>0, <2>4
  <2>6. RowsOnce'
    BY <1>0, <2>3, <2>4 DEF NoRemoval
  <2>7. FilesMatchRows'
    BY <1>0, <2>3, <2>4 DEF NoRemoval
  <2> QED
    BY <2>2, <2>5, <2>6, <2>7 DEF UploadsInv
<1>11. CASE Crash
  <2>1. Counted' = Counted /\ Admitted' \subseteq Admitted /\ crowd' = crowd
    BY <1>0, <1>11 DEF Crash, Counted, Admitted
  <2>2. PlacesBounded'
    BY <2>1, NoPlace
  <2>3. UploadsTyped' /\ RowsOnce'
    BY <1>0, <1>11 DEF Crash, NoRemoval
  <2>4. FilesMatchRows'
    BY <1>0, <1>11 DEF Crash, NoRemoval
  <2> QED
    BY <2>2, <2>3, <2>4 DEF UploadsInv
<1> QED
  BY <1>1, <1>2, <1>3, <1>4, <1>5, <1>6, <1>7, <1>8, <1>9, <1>10, <1>11 DEF UploadsNext

\* Whatever uploads and removals overlap, fail or are cut off: rows and files
\* answer to each other but for what is named lost, and the quota is exceeded
\* only by uploads let in together.
THEOREM UploadsAccountedHolds == UploadsSpec => []UploadsAccounted
<1>1. UploadsInv => UploadsAccounted
  <2> SUFFICES ASSUME UploadsInv PROVE WithinQuota
    BY DEF UploadsInv, UploadsAccounted
  <2>1. /\ Cardinality(Counted) \in Nat /\ Cardinality(Admitted) \in Nat /\ crowd \in Nat
        /\ Cardinality(Counted) + Cardinality(Admitted) <= Quota + crowd
    BY FS_CardinalityType DEF UploadsInv, UploadsTyped, PlacesBounded
  <2> QED
    BY <2>1, UploadsAssumption DEF WithinQuota
<1> QED
  BY <1>1, UploadsInitInv, UploadsNextInv, PTL DEF UploadsSpec

-----------------------------------------------------------------------------
(* DueCheck. *)

Under(r) == run[r].at # "idle"

Reading(r) == run[r].at = "existing"

DueTyped ==
    /\ day \in Nat
    /\ run = [r \in Runs |-> run[r]]
    /\ \A r \in Runs : Under(r) =>
         /\ run[r].at \in {"started", "existing"}
         /\ run[r].day \in Nat /\ run[r].day <= day
    /\ \A n \in notices : n.day \in Nat /\ n.day <= day

\* On a day without overlap there is one run, of this day.
Alone ==
    day \notin overlapped =>
        /\ \A r, q \in Runs : Under(r) /\ Under(q) => r = q
        /\ \A r \in Runs : Under(r) => run[r].day = day

\* What a run has read is there, and on a day without overlap it is all there
\* is; what it is going to write is not among it.
ReadTrue ==
    \A r \in Runs : Reading(r) =>
        /\ \A k \in run[r].existing : \E n \in notices : k = DueKey(n) /\ n.day >= run[r].day
        /\ day \notin overlapped => \A n \in notices : n.day = day => DueKey(n) \in run[r].existing
        /\ \A n \in run[r].toCreate : DueKey(n) \notin run[r].existing
        /\ \A n \in run[r].toCreate : n = [user |-> n.user, due |-> n.due, offset |-> n.offset]

\* A target that was counted is covered for all who are still to hear of it.
CountedCovered ==
    \A r \in Runs : Reading(r) =>
        \A target \in Targets(run[r].day) \ run[r].left : \A u \in Audience(target) :
            \/ <<u, target.due, target.offset>> \in run[r].existing
            \/ \E n \in run[r].toCreate : DueKey(n) = <<u, target.due, target.offset>>

DueInv == DueTyped /\ Alone /\ ReadTrue /\ CountedCovered /\ ToldOnce

-----------------------------------------------------------------------------
LEMMA DueInitInv == DueInit => DueInv
<1> SUFFICES ASSUME DueInit PROVE DueInv
  OBVIOUS
<1>1. \A r \in Runs : ~ Under(r) /\ ~ Reading(r)
  BY DEF DueInit, Idle, Under, Reading
<1>2. DueTyped
  BY <1>1 DEF DueInit, DueTyped
<1> QED
  BY <1>1, <1>2 DEF DueInit, DueInv, Alone, ReadTrue, CountedCovered, ToldOnce

\* Runs that end or go on as they were, on the same day or the next, with fewer
\* people to tell, keep all that is known, when the notifications stay.
LEMMA Fewer ==
    ASSUME DueInv, UNCHANGED notices, day' \in Nat, day <= day',
           run' = [r \in Runs |-> run'[r]],
           \A r \in Runs : run'[r] = run[r] \/ run'[r] = Idle,
           overlapped \subseteq overlapped',
           \A target : Audience(target)' \subseteq Audience(target),
           day' # day => \A r \in Runs : Under(r) => day' \in overlapped'
    PROVE  DueInv'
<1>1. \A r \in Runs : (Under(r)' => Under(r) /\ run'[r] = run[r]) /\ (Reading(r)' => Reading(r) /\ Under(r)')
  BY DEF Under, Reading, Idle
<1>2. DueTyped'
  BY <1>1 DEF DueInv, DueTyped, Under
<1>3. Alone'
  BY <1>1 DEF DueInv, Alone, Under
<1>4. ReadTrue'
  <2>1. ASSUME NEW r \in Runs, Reading(r)'
        PROVE  /\ \A k \in run'[r].existing : \E n \in notices' : k = DueKey(n) /\ n.day >= run'[r].day
               /\ day' \notin overlapped' => \A n \in notices' : n.day = day' => DueKey(n) \in run'[r].existing
               /\ \A n \in run'[r].toCreate : DueKey(n) \notin run'[r].existing
               /\ \A n \in run'[r].toCreate : n = [user |-> n.user, due |-> n.due, offset |-> n.offset]
    <3>1. Reading(r) /\ Under(r) /\ run'[r] = run[r]
      BY <1>1, <2>1
    <3>2. day' \notin overlapped' => day' = day /\ day \notin overlapped
      BY <3>1
    <3> QED
      BY <3>1, <3>2 DEF DueInv, ReadTrue
  <2> QED
    BY <2>1 DEF ReadTrue, DueKey
<1>5. CountedCovered'
  <2>1. \A r \in Runs : run'[r] = run[r] => Targets(run[r].day)' = Targets(run[r].day)
    BY DEF Targets, Days
  <2>2. ASSUME NEW r \in Runs, Reading(r)', NEW target \in Targets(run[r].day)' \ run'[r].left,
               NEW u \in Audience(target)'
        PROVE  \/ <<u, target.due, target.offset>> \in run'[r].existing
               \/ \E n \in run'[r].toCreate : DueKey(n) = <<u, target.due, target.offset>>
    <3>1. /\ Reading(r) /\ run'[r] = run[r] /\ target \in Targets(run[r].day) \ run[r].left
          /\ u \in Audience(target)
      BY <1>1, <2>1, <2>2
    <3> QED
      BY <3>1 DEF DueInv, CountedCovered
  <2> QED
    BY <2>2 DEF CountedCovered, DueKey
<1>6. ToldOnce'
  BY DEF DueInv, ToldOnce, DueKey
<1> QED
  BY <1>2, <1>3, <1>4, <1>5, <1>6 DEF DueInv

LEMMA ReadExistingInv ==
    ASSUME DueInv, NEW r \in Runs, ReadExisting(r)
    PROVE  DueInv'
<1>1. /\ run'[r] = Checking(run[r].day, Existing(run[r].day), Targets(run[r].day), {})
      /\ \A q \in Runs \ {r} : run'[q] = run[q]
      /\ run' = [q \in Runs |-> run'[q]]
      /\ run[r].at = "started" /\ Under(r)
      /\ UNCHANGED <<day, open, dueDay, active, notices, overlapped>>
  BY DEF ReadExisting, DueInv, DueTyped, Under
<1>2. /\ run'[r].at = "existing" /\ run'[r].day = run[r].day
      /\ run'[r].existing = Existing(run[r].day) /\ run'[r].toCreate = {}
      /\ run'[r].left = Targets(run[r].day)
  BY <1>1 DEF Checking
<1>3. DueTyped'
  BY <1>1, <1>2 DEF DueInv, DueTyped, Under
<1>4. Alone'
  BY <1>1, <1>2 DEF DueInv, Alone, Under
<1>5. Existing(run[r].day) = {DueKey(n) : n \in {x \in notices : x.day >= run[r].day}}
  BY DEF Existing
<1>6. ReadTrue'
  <2>1. day \notin overlapped => run[r].day = day
    BY <1>1 DEF DueInv, Alone
  <2>2. ASSUME NEW q \in Runs, Reading(q)'
        PROVE  /\ \A k \in run'[q].existing : \E n \in notices : k = DueKey(n) /\ n.day >= run'[q].day
               /\ day \notin overlapped => \A n \in notices : n.day = day => DueKey(n) \in run'[q].existing
               /\ \A n \in run'[q].toCreate : DueKey(n) \notin run'[q].existing
               /\ \A n \in run'[q].toCreate : n = [user |-> n.user, due |-> n.due, offset |-> n.offset]
    <3>1. CASE q = r
      BY <3>1, <1>2, <1>5, <2>1 DEF DueInv, DueTyped
    <3>2. CASE q # r
      BY <3>2, <2>2, <1>1 DEF DueInv, ReadTrue, Reading
    <3> QED
      BY <3>1, <3>2
  <2> QED
    BY <2>2, <1>1 DEF ReadTrue, DueKey
<1>7. CountedCovered'
  <2>1. \A q \in Runs : run'[q].day = run[q].day => Targets(run[q].day)' = Targets(run[q].day)
    BY DEF Targets, Days
  <2>2. \A target : Audience(target)' = Audience(target)
    BY <1>1 DEF Audience, Due
  <2>3. ASSUME NEW q \in Runs, Reading(q)', NEW target \in Targets(run[q].day)' \ run'[q].left,
               NEW u \in Audience(target)'
        PROVE  \/ <<u, target.due, target.offset>> \in run'[q].existing
               \/ \E n \in run'[q].toCreate : DueKey(n) = <<u, target.due, target.offset>>
    <3>1. q # r
      BY <1>2, <2>1, <2>3
    <3>2. /\ Reading(q) /\ run'[q] = run[q] /\ target \in Targets(run[q].day) \ run[q].left
          /\ u \in Audience(target)
      BY <1>1, <2>1, <2>2, <2>3, <3>1 DEF Reading
    <3> QED
      BY <3>2 DEF DueInv, CountedCovered
  <2> QED
    BY <2>3 DEF CountedCovered, DueKey
<1>8. ToldOnce'
  BY <1>1 DEF DueInv, ToldOnce, DueKey
<1> QED
  BY <1>3, <1>4, <1>6, <1>7, <1>8 DEF DueInv

\* A target is counted: its audience is among what is known or going to be.
LEMMA CountInv ==
    ASSUME DueInv, NEW r \in Runs, NEW target, Count(r, target)
    PROVE  DueInv'
<1>1. Reading(r) /\ Under(r)
  BY DEF Count, Left, Reading, Under
<1>2. /\ run'[r] = Checking(run[r].day, run[r].existing, run[r].left \ {target},
                            run[r].toCreate \cup Missing(r, target))
      /\ \A q \in Runs \ {r} : run'[q] = run[q]
      /\ run' = [q \in Runs |-> run'[q]]
      /\ UNCHANGED <<day, open, dueDay, active, notices, overlapped>>
  BY DEF Count, DueInv, DueTyped
<1>3. /\ run'[r].at = "existing" /\ run'[r].day = run[r].day
      /\ run'[r].existing = run[r].existing
      /\ run'[r].toCreate = run[r].toCreate \cup Missing(r, target)
      /\ run'[r].left = run[r].left \ {target}
  BY <1>2 DEF Checking
<1>4. /\ \A n \in Missing(r, target) :
           /\ DueKey(n) \notin run[r].existing
           /\ n = [user |-> n.user, due |-> n.due, offset |-> n.offset]
      /\ \A u \in Audience(target) :
           \/ <<u, target.due, target.offset>> \in run[r].existing
           \/ \E n \in Missing(r, target) : DueKey(n) = <<u, target.due, target.offset>>
  <2>1. \A n \in Missing(r, target) :
          /\ DueKey(n) \notin run[r].existing
          /\ \E u \in Audience(target) : n = [user |-> u, due |-> target.due, offset |-> target.offset]
    BY DEF Missing, Notices
  <2>2. ASSUME NEW u \in Audience(target), <<u, target.due, target.offset>> \notin run[r].existing
        PROVE  \E n \in Missing(r, target) : DueKey(n) = <<u, target.due, target.offset>>
    <3> DEFINE n == [user |-> u, due |-> target.due, offset |-> target.offset]
    <3>1. n \in Notices(target) /\ DueKey(n) = <<u, target.due, target.offset>>
      BY DEF Notices, DueKey
    <3>2. n \in Missing(r, target)
      BY <3>1, <2>2 DEF Missing
    <3> QED
      BY <3>1, <3>2
  <2> QED
    BY <2>1, <2>2
<1>5. DueTyped'
  BY <1>1, <1>2, <1>3 DEF DueInv, DueTyped, Under
<1>6. Alone'
  BY <1>1, <1>2, <1>3 DEF DueInv, Alone, Under
<1>7. ReadTrue'
  <2>1. ASSUME NEW q \in Runs, Reading(q)'
        PROVE  /\ \A k \in run'[q].existing : \E n \in notices : k = DueKey(n) /\ n.day >= run'[q].day
               /\ day \notin overlapped => \A n \in notices : n.day = day => DueKey(n) \in run'[q].existing
               /\ \A n \in run'[q].toCreate : DueKey(n) \notin run'[q].existing
               /\ \A n \in run'[q].toCreate : n = [user |-> n.user, due |-> n.due, offset |-> n.offset]
    <3>1. CASE q = r
      BY <3>1, <1>1, <1>3, <1>4 DEF DueInv, ReadTrue
    <3>2. CASE q # r
      BY <3>2, <2>1, <1>2 DEF DueInv, ReadTrue, Reading
    <3> QED
      BY <3>1, <3>2
  <2> QED
    BY <2>1, <1>2 DEF ReadTrue, DueKey
<1>8. CountedCovered'
  <2>1. \A q \in Runs : run'[q].day = run[q].day => Targets(run[q].day)' = Targets(run[q].day)
    BY DEF Targets, Days
  <2>2. \A t : Audience(t)' = Audience(t)
    BY <1>2 DEF Audience, Due
  <2>3. ASSUME NEW q \in Runs, Reading(q)', NEW t \in Targets(run[q].day)' \ run'[q].left,
               NEW u \in Audience(t)'
        PROVE  \/ <<u, t.due, t.offset>> \in run'[q].existing
               \/ \E n \in run'[q].toCreate : DueKey(n) = <<u, t.due, t.offset>>
    <3>1. t \in Targets(run[q].day) /\ u \in Audience(t) /\ Reading(q)
      BY <1>1, <1>2, <1>3, <2>1, <2>2, <2>3 DEF Reading
    <3>2. CASE q = r /\ t = target
      BY <3>1, <3>2, <1>3, <1>4
    <3>3. CASE q = r /\ t # target
      <4>1. t \in Targets(run[r].day) \ run[r].left
        BY <3>1, <3>3, <2>3, <1>3
      <4> QED
        BY <4>1, <3>1, <3>3, <1>1, <1>3 DEF DueInv, CountedCovered
    <3>4. CASE q # r
      <4>1. t \in Targets(run[q].day) \ run[q].left /\ run'[q] = run[q]
        BY <3>1, <3>4, <2>3, <1>2
      <4> QED
        BY <4>1, <3>1 DEF DueInv, CountedCovered
    <3> QED
      BY <3>2, <3>3, <3>4
  <2> QED
    BY <2>3 DEF CountedCovered, DueKey
<1>9. ToldOnce'
  BY <1>2 DEF DueInv, ToldOnce, DueKey
<1> QED
  BY <1>5, <1>6, <1>7, <1>8, <1>9 DEF DueInv

\* What an insert adds.
LEMMA Inserted ==
    ASSUME DueInv, NEW r \in Runs, Insert(r)
    PROVE  /\ Reading(r) /\ Under(r) /\ run[r].left = {}
           /\ notices \subseteq notices'
           /\ \A n \in notices' \ notices :
                /\ n.day = day
                /\ \E k \in run[r].toCreate :
                     n = [user |-> k.user, due |-> k.due, offset |-> k.offset, day |-> day,
                          by |-> started, run |-> r]
           /\ \A k \in run[r].toCreate : \E n \in notices' : DueKey(n) = DueKey(k) /\ n.day = day
<1>1. Reading(r) /\ Under(r) /\ run[r].left = {}
  BY DEF Insert, Left, Reading, Under
<1>2. notices' = notices \cup {[user |-> n.user, due |-> n.due, offset |-> n.offset,
                                day |-> day, by |-> started, run |-> r] : n \in run[r].toCreate}
  BY DEF Insert
<1>3. ASSUME NEW k \in run[r].toCreate
      PROVE  \E n \in notices' : DueKey(n) = DueKey(k) /\ n.day = day
  <2> DEFINE n == [user |-> k.user, due |-> k.due, offset |-> k.offset, day |-> day,
                   by |-> started, run |-> r]
  <2>1. n \in notices' /\ DueKey(n) = DueKey(k) /\ n.day = day
    BY <1>2 DEF DueKey
  <2> QED
    BY <2>1
<1> QED
  BY <1>1, <1>2, <1>3

LEMMA InsertInv ==
    ASSUME DueInv, NEW r \in Runs, Insert(r)
    PROVE  DueInv'
<1>1. /\ run'[r] = Idle /\ \A q \in Runs \ {r} : run'[q] = run[q]
      /\ run' = [q \in Runs |-> run'[q]]
      /\ UNCHANGED <<day, open, dueDay, active>>
      /\ overlapped \subseteq overlapped'
      /\ day \notin overlapped' => run[r].day = day
  BY DEF Insert, DueInv, DueTyped
<1>2. \A q \in Runs : (Under(q)' => q # r /\ Under(q)) /\ (Reading(q)' => q # r /\ Reading(q) /\ Under(q))
  BY <1>1 DEF Under, Reading, Idle
<1>3. DueTyped'
  BY <1>1, <1>2, Inserted DEF DueInv, DueTyped, Under
<1>4. Alone'
  BY <1>1, <1>2 DEF DueInv, Alone, Under
<1>5. ReadTrue'
  <2>1. ASSUME NEW q \in Runs, Reading(q)'
        PROVE  /\ \A k \in run'[q].existing : \E n \in notices' : k = DueKey(n) /\ n.day >= run'[q].day
               /\ day \in overlapped'
               /\ \A n \in run'[q].toCreate : DueKey(n) \notin run'[q].existing
               /\ \A n \in run'[q].toCreate : n = [user |-> n.user, due |-> n.due, offset |-> n.offset]
    <3>1. q # r /\ Reading(q) /\ Under(q) /\ Under(r) /\ run'[q] = run[q]
      BY <1>1, <1>2, <2>1, Inserted
    <3>2. day \in overlapped'
      BY <3>1, <1>1 DEF DueInv, Alone
    <3> QED
      BY <3>1, <3>2, Inserted DEF DueInv, ReadTrue
  <2> QED
    BY <2>1, <1>1 DEF ReadTrue, DueKey
<1>6. CountedCovered'
  <2>1. \A q \in Runs : run'[q].day = run[q].day => Targets(run[q].day)' = Targets(run[q].day)
    BY DEF Targets, Days
  <2>2. \A t : Audience(t)' = Audience(t)
    BY <1>1 DEF Audience, Due
  <2>3. ASSUME NEW q \in Runs, Reading(q)', NEW t \in Targets(run[q].day)' \ run'[q].left,
               NEW u \in Audience(t)'
        PROVE  \/ <<u, t.due, t.offset>> \in run'[q].existing
               \/ \E n \in run'[q].toCreate : DueKey(n) = <<u, t.due, t.offset>>
    <3>1. /\ Reading(q) /\ run'[q] = run[q] /\ t \in Targets(run[q].day) \ run[q].left
          /\ u \in Audience(t)
      BY <1>1, <1>2, <2>1, <2>2, <2>3
    <3> QED
      BY <3>1 DEF DueInv, CountedCovered
  <2> QED
    BY <2>3 DEF CountedCovered, DueKey
<1>7. ToldOnce'
  <2>1. ASSUME NEW m \in notices', NEW n \in notices', m.day = n.day, DueKey(m) = DueKey(n),
               m.day \notin overlapped'
        PROVE  m = n
    <3>1. CASE m \in notices /\ n \in notices
      BY <3>1, <2>1, <1>1 DEF DueInv, ToldOnce
    <3>2. ASSUME NEW o \in notices, NEW x \in notices' \ notices, o.day = x.day, DueKey(o) = DueKey(x),
                 x.day \notin overlapped'
          PROVE  FALSE
      <4>1. x.day = day /\ day \notin overlapped
        BY <3>2, <1>1, Inserted
      <4>2. DueKey(o) \in run[r].existing
        BY <4>1, <3>2, Inserted DEF DueInv, ReadTrue
      <4>3. PICK k \in run[r].toCreate :
               x = [user |-> k.user, due |-> k.due, offset |-> k.offset, day |-> day,
                    by |-> started, run |-> r]
        BY <3>2, Inserted
      <4>4. DueKey(x) = DueKey(k)
        BY <4>3 DEF DueKey
      <4>5. DueKey(k) \notin run[r].existing
        BY <4>3, Inserted DEF DueInv, ReadTrue
      <4> QED
        BY <4>2, <4>4, <4>5, <3>2
    <3>3. CASE m \notin notices /\ n \notin notices
      <4>1. PICK j \in run[r].toCreate :
               m = [user |-> j.user, due |-> j.due, offset |-> j.offset, day |-> day,
                    by |-> started, run |-> r]
        BY <3>3, Inserted
      <4>2. PICK k \in run[r].toCreate :
               n = [user |-> k.user, due |-> k.due, offset |-> k.offset, day |-> day,
                    by |-> started, run |-> r]
        BY <3>3, Inserted
      <4>3. j.user = k.user /\ j.due = k.due /\ j.offset = k.offset
        BY <2>1, <4>1, <4>2 DEF DueKey
      <4> QED
        BY <4>1, <4>2, <4>3
    <3> QED
      BY <2>1, <3>1, <3>2, <3>3
  <2> QED
    BY <2>1 DEF ToldOnce, DueKey
<1> QED
  BY <1>3, <1>4, <1>5, <1>6, <1>7 DEF DueInv

\* Every step keeps the invariant.
LEMMA DueNextInv == DueInv /\ [DueNext]_dueVars => DueInv'
<1> SUFFICES ASSUME DueInv, [DueNext]_dueVars PROVE DueInv'
  OBVIOUS
<1>0. run = [r \in Runs |-> run[r]] /\ day \in Nat
  BY DEF DueInv, DueTyped
<1>1. ASSUME NEW r \in Runs, Start(r) PROVE DueInv'
  <2>1. /\ run'[r] = [at |-> "started", day |-> day] /\ ~ Under(r)
        /\ \A q \in Runs \ {r} : run'[q] = run[q]
        /\ run' = [q \in Runs |-> run'[q]]
        /\ UNCHANGED <<day, dueDay, open, active, notices>>
        /\ overlapped' = IF Others(r) # {} THEN overlapped \cup {day} ELSE overlapped
    BY <1>0, <1>1 DEF Start, Under
  <2>2. \A q \in Runs : Reading(q)' => q # r /\ Reading(q) /\ run'[q] = run[q]
    BY <2>1 DEF Reading
  <2>3. DueTyped'
    BY <2>1 DEF DueInv, DueTyped, Under
  <2>4. Alone'
    <3>1. day \notin overlapped' => \A q \in Runs : Under(q)' => q = r
      BY <2>1 DEF Others, Under
    <3> QED
      BY <3>1, <2>1 DEF DueInv, Alone, Under
  <2>5. ReadTrue'
    <3>1. overlapped \subseteq overlapped'
      BY <2>1
    <3> QED
      BY <2>1, <2>2, <3>1 DEF DueInv, ReadTrue, DueKey
  <2>6. CountedCovered'
    <3>1. \A q \in Runs : run'[q].day = run[q].day => Targets(run[q].day)' = Targets(run[q].day)
      BY DEF Targets, Days
    <3>2. \A t : Audience(t)' = Audience(t)
      BY <2>1 DEF Audience, Due
    <3>3. ASSUME NEW q \in Runs, Reading(q)', NEW t \in Targets(run[q].day)' \ run'[q].left,
                 NEW u \in Audience(t)'
          PROVE  \/ <<u, t.due, t.offset>> \in run'[q].existing
                 \/ \E n \in run'[q].toCreate : DueKey(n) = <<u, t.due, t.offset>>
      <4>1. /\ Reading(q) /\ run'[q] = run[q] /\ t \in Targets(run[q].day) \ run[q].left
            /\ u \in Audience(t)
        BY <2>2, <3>1, <3>2, <3>3
      <4> QED
        BY <4>1 DEF DueInv, CountedCovered
    <3> QED
      BY <3>3 DEF CountedCovered, DueKey
  <2>7. ToldOnce'
    BY <2>1 DEF DueInv, ToldOnce, DueKey
  <2> QED
    BY <2>3, <2>4, <2>5, <2>6, <2>7 DEF DueInv
<1>2. ASSUME NEW r \in Runs, RunFails(r) PROVE DueInv'
  <2>1. /\ run' = [q \in Runs |-> run'[q]]
        /\ \A q \in Runs : run'[q] = run[q] \/ run'[q] = Idle
        /\ UNCHANGED <<day, dueDay, open, active, notices, overlapped>>
    BY <1>0, <1>2 DEF RunFails
  <2>2. \A t : Audience(t)' \subseteq Audience(t)
    BY <2>1 DEF Audience, Due
  <2> QED
    BY <1>0, <2>1, <2>2, Fewer
<1>3. ASSUME NextDay PROVE DueInv'
  <2>1. /\ day' = day + 1 /\ UNCHANGED <<dueDay, open, active, notices, run>>
        /\ overlapped' = IF \E r \in Runs : Under(r) THEN overlapped \cup {day + 1} ELSE overlapped
    BY <1>3 DEF NextDay, Under
  <2>2. \A t : Audience(t)' \subseteq Audience(t)
    BY <2>1 DEF Audience, Due
  <2> QED
    BY <1>0, <2>1, <2>2, Fewer
<1>4. ASSUME NEW s \in Sellers, CancelDue(s) \/ Deactivate(s) PROVE DueInv'
  <2>1. /\ open' \subseteq open /\ active' \subseteq active
        /\ UNCHANGED <<day, dueDay, notices, run, overlapped>>
    BY <1>4 DEF CancelDue, Deactivate
  <2>2. \A t : Audience(t)' \subseteq Audience(t)
    BY <2>1 DEF Audience, Due
  <2> QED
    BY <1>0, <2>1, <2>2, Fewer
<1>5. CASE UNCHANGED dueVars
  <2>1. UNCHANGED <<day, dueDay, open, active, notices, run, overlapped>>
    BY <1>5 DEF dueVars
  <2>2. \A t : Audience(t)' \subseteq Audience(t)
    BY <2>1 DEF Audience, Due
  <2> QED
    BY <1>0, <2>1, <2>2, Fewer
<1> QED
  BY <1>1, <1>2, <1>3, <1>4, <1>5, ReadExistingInv, CountInv, InsertInv DEF DueNext

-----------------------------------------------------------------------------
\* On a day on which runs of the due check neither overlapped nor lasted past
\* midnight nobody is told twice about the same due day at the same offset.
THEOREM ToldOnceHolds == DueSpec => []ToldOnce
BY DueInitInv, DueNextInv, PTL DEF DueSpec, DueInv

\* A run that ends has left a notification for everybody it still had to tell,
\* however runs overlap, fail, or go on after midnight.
THEOREM RunCoversHolds == DueSpec => RunCovers
<1> DEFINE Covers(r) ==
      \A target \in Targets(run[r].day) : \A u \in Audience(target) :
          \E n \in notices' : /\ DueKey(n) = <<u, target.due, target.offset>>
                              /\ n.day >= run[r].day
<1>1. ASSUME DueInv, NEW r \in Runs, Insert(r) PROVE Covers(r)
  <2>1. ASSUME NEW target \in Targets(run[r].day), NEW u \in Audience(target)
        PROVE  \E n \in notices' : DueKey(n) = <<u, target.due, target.offset>> /\ n.day >= run[r].day
    <3>1. \/ <<u, target.due, target.offset>> \in run[r].existing
          \/ \E k \in run[r].toCreate : DueKey(k) = <<u, target.due, target.offset>>
      BY <1>1, <2>1, Inserted DEF DueInv, CountedCovered
    <3>2. CASE <<u, target.due, target.offset>> \in run[r].existing
      BY <1>1, <3>2, Inserted DEF DueInv, ReadTrue
    <3>3. CASE \E k \in run[r].toCreate : DueKey(k) = <<u, target.due, target.offset>>
      <4>1. day >= run[r].day
        BY <1>1, Inserted DEF DueInv, DueTyped
      <4> QED
        BY <1>1, <3>3, <4>1, Inserted
    <3> QED
      BY <3>1, <3>2, <3>3
  <2> QED
    BY <2>1
<1>2. DueInv /\ [DueNext]_dueVars => [\A r \in Runs : Insert(r) => Covers(r)]_dueVars
  BY <1>1
<1> QED
  BY <1>2, DueInitInv, DueNextInv, PTL DEF DueSpec, RunCovers

-----------------------------------------------------------------------------
(* LivePages. *)

\* An answer of query q that the tables have reached.
Reached(q, a) == \A e \in Reads[q] : a[e] \in Nat /\ a[e] <= version[e]

\* A query has at most one fetch; what it shows and what is on its way to it
\* was read from the tables, and what is on its way is not older than what it
\* shows.
MirrorInv ==
    /\ version \in [Tables -> Nat]
    /\ Shown \subseteq Queries
    /\ data = [q \in Shown |-> data[q]]
    /\ flights = [q \in Shown |-> flights[q]]
    /\ \A q \in Shown :
         /\ \A a, b \in flights[q] : a = b
         /\ data[q] # NULL => Reached(q, data[q])
         /\ \A a \in flights[q] \ {NULL} :
              /\ Reached(q, a)
              /\ data[q] # NULL => \A e \in Reads[q] : data[q][e] <= a[e]

\* What a drag would put back was read from the tables, and whatever is on its
\* way to the list was read later: the drag gave up what was on its way before.
DragInv ==
    \A d \in drags : \A q \in ByHand \cap Shown :
      /\ Reached(q, d.previous)
      /\ \A a \in flights[q] \ {NULL} : \A e \in Reads[q] : d.previous[e] <= a[e]

LEMMA ReadsTables == \A q \in Queries : Reads[q] \subseteq Tables
BY DEF Queries, Tables, Reads, Names, SaleListRead, SaleRead, HistoryRead, CustomersRead,
       CustomerRead, PeopleRead, PlansRead, ValuesRead, BatchRead, RowsRead, NamedRead,
       MappingsRead, RevenueRead

LEMMA InitMirror == Init => MirrorInv /\ DragInv /\ Pages!Init
<1> SUFFICES ASSUME Init PROVE MirrorInv /\ DragInv /\ Pages!Init
  OBVIOUS
<1>1. PICK V \in Visits : data = [q \in V |-> NULL]
  BY DEF Init
<1>2. Shown = V /\ V \subseteq Queries
  BY <1>1, LivePagesAssumption DEF Shown
<1>3. MirrorInv
  BY <1>1, <1>2 DEF Init, MirrorInv
<1>4. Pages!Init
  BY <1>1, <1>2 DEF Init, Pages!Init, Shown, KeptLists
<1>5. DragInv
  BY DEF Init, DragInv
<1> QED
  BY <1>3, <1>4, <1>5

\* Tables that only grow and fetches that go on, start or stop leave what is
\* known of the answers.
LEMMA Going ==
    ASSUME MirrorInv, UNCHANGED data,
           version' \in [Tables -> Nat], \A e \in Tables : version[e] <= version'[e],
           flights' = [q \in Shown |-> flights'[q]],
           \A q \in Shown : flights'[q] = flights[q] \/ flights'[q] \subseteq {NULL}
    PROVE  MirrorInv'
<1>1. Shown' = Shown
  BY DEF Shown
<1>2. ASSUME NEW q \in Shown, NEW a, Reached(q, a) PROVE Reached(q, a)'
  BY <1>2, ReadsTables DEF Reached, MirrorInv
<1>3. ASSUME NEW q \in Shown, data[q] # NULL PROVE Reached(q, data[q])'
  BY <1>3, ReadsTables DEF Reached, MirrorInv
<1>4. ASSUME NEW q \in Shown, NEW a \in flights'[q] \ {NULL}
      PROVE  /\ Reached(q, a)'
             /\ data[q] # NULL => \A e \in Reads[q] : data[q][e] <= a[e]
  <2>1. a \in flights[q] \ {NULL}
    BY <1>4
  <2> QED
    BY <2>1, <1>2 DEF MirrorInv
<1>5. \A q \in Shown : \A a, b \in flights'[q] : a = b
  BY DEF MirrorInv
<1> QED
  BY <1>1, <1>3, <1>4, <1>5 DEF MirrorInv

\* The same of the drags, as long as none begins.
LEMMA GoingDrags ==
    ASSUME MirrorInv, DragInv, UNCHANGED data,
           version' \in [Tables -> Nat], \A e \in Tables : version[e] <= version'[e],
           \A q \in Shown : flights'[q] = flights[q] \/ flights'[q] \subseteq {NULL},
           \A d \in drags' : \E c \in drags : d.previous = c.previous
    PROVE  DragInv'
<1>1. Shown' = Shown
  BY DEF Shown
<1> SUFFICES ASSUME NEW d \in drags', NEW q \in ByHand \cap Shown
             PROVE  /\ Reached(q, d.previous)'
                    /\ \A a \in flights'[q] \ {NULL} : \A e \in Reads[q] : d.previous[e] <= a[e]
  BY <1>1 DEF DragInv, Reached, ByHand
<1>2. PICK c \in drags : d.previous = c.previous
  OBVIOUS
<1>3. Reached(q, c.previous)'
  BY ReadsTables DEF Reached, MirrorInv, DragInv
<1>4. ASSUME NEW a \in flights'[q] \ {NULL} PROVE \A e \in Reads[q] : c.previous[e] <= a[e]
  <2>1. a \in flights[q] \ {NULL}
    BY <1>4
  <2> QED
    BY <2>1 DEF DragInv
<1> QED
  BY <1>2, <1>3, <1>4 DEF Reached

\* What the page of values may go back to depends on the lists of the drags alone.
Lists(D) == {d.previous : d \in D}

LEMMA SameLists ==
    ASSUME UNCHANGED data, Lists(drags') = Lists(drags)
    PROVE  UNCHANGED KeptLists
BY DEF KeptLists, Lists, Shown

LEMMA FewerLists ==
    ASSUME UNCHANGED <<version, data>>, Lists(drags') \subseteq Lists(drags)
    PROVE  (\E q \in Shown : Pages!Turn(q)) \/ UNCHANGED KeptLists
<1>1. Shown' = Shown
  BY DEF Shown
<1>2. CASE "domain-values" \in Shown
  <2>1. Pages!Forget("domain-values")
    BY <1>1, <1>2 DEF Pages!Forget, Pages!Elsewhere, KeptLists, Lists, ByHand
  <2> QED
    BY <1>2, <2>1 DEF Pages!Turn
<1>3. CASE "domain-values" \notin Shown
  BY <1>1, <1>3 DEF KeptLists, ByHand
<1> QED
  BY <1>2, <1>3

LEMMA StartedGoing ==
    ASSUME MirrorInv, NEW Q
    PROVE  \A q \in Shown : Started(Q)[q] = flights[q] \/ Started(Q)[q] \subseteq {NULL}
BY DEF Started, Cancelled

LEMMA ReadStep ==
    ASSUME MirrorInv, DragInv, NEW q \in Shown, Read(q)
    PROVE  MirrorInv' /\ DragInv' /\ UNCHANGED <<version, data, drags>>
<1>1. /\ NULL \in flights[q]
      /\ flights' = [flights EXCEPT ![q] = (@ \ {NULL}) \cup {Answer(q)}]
      /\ UNCHANGED <<version, data>>
  BY DEF Read
<1>2. flights'[q] = {Answer(q)} /\ \A p \in Shown \ {q} : flights'[p] = flights[p]
  BY <1>1 DEF MirrorInv
<1>3. \A e \in Reads[q] : Answer(q)[e] = version[e] /\ version[e] \in Nat
  BY ReadsTables DEF Answer, MirrorInv
<1>4. Reached(q, Answer(q))
  BY <1>3 DEF Reached
<1>5. flights' = [p \in Shown |-> flights'[p]] /\ Shown' = Shown
  BY <1>1 DEF MirrorInv, Shown
<1>6. \A p \in Shown : \A a : Reached(p, a)' = Reached(p, a)
  BY <1>1 DEF Reached
<1>7. data[q] # NULL => \A e \in Reads[q] : data[q][e] <= Answer(q)[e]
  BY <1>3 DEF MirrorInv, Reached
<1>8. \A p \in Shown : \A a, b \in flights'[p] : a = b
  BY <1>2 DEF MirrorInv
<1>9. \A p \in Shown : data'[p] # NULL => Reached(p, data[p])'
  BY <1>1 DEF MirrorInv, Reached
<1>10. ASSUME NEW p \in Shown, NEW a \in flights'[p] \ {NULL}
       PROVE  Reached(p, a)' /\ (data'[p] # NULL => \A e \in Reads[p] : data'[p][e] <= a[e])
  <2>1. CASE p = q
    BY <2>1, <1>1, <1>2, <1>4, <1>6, <1>7, <1>10
  <2>2. CASE p # q
    BY <2>2, <1>1, <1>2, <1>6, <1>10 DEF MirrorInv
  <2> QED
    BY <2>1, <2>2
<1>11. MirrorInv'
  BY <1>1, <1>5, <1>8, <1>9, <1>10 DEF MirrorInv, Reached
<1>12. drags' = drags
  BY DEF Read, requests
<1>13. DragInv'
  <2> SUFFICES ASSUME NEW d \in drags, NEW p \in ByHand \cap Shown
               PROVE  /\ Reached(p, d.previous)
                      /\ \A a \in flights'[p] \ {NULL} :
                            \A e \in Reads[p] : d.previous[e] <= a[e]
    BY <1>1, <1>5, <1>12 DEF DragInv, Reached
  <2>1. Reached(p, d.previous)
    BY DEF DragInv
  <2>2. CASE p = q
    BY <2>1, <2>2, <1>2, <1>3 DEF Reached
  <2>3. CASE p # q
    BY <2>1, <2>3, <1>2 DEF DragInv
  <2> QED
    BY <2>1, <2>2, <2>3
<1> QED
  BY <1>1, <1>11, <1>12, <1>13

\* The answer that arrives is shown: it is not older than what was.
LEMMA ReceiveStep ==
    ASSUME MirrorInv, DragInv, NEW q \in Shown, Receive(q)
    PROVE  MirrorInv' /\ DragInv' /\ Pages!Turn(q)
<1>1. PICK a \in flights[q] \ {NULL} :
        data' = [data EXCEPT ![q] = a] /\ flights' = [flights EXCEPT ![q] = @ \ {a}]
  BY DEF Receive
<1>2. UNCHANGED <<version, drags>>
  BY DEF Receive, requests
<1>3. /\ data'[q] = a /\ flights'[q] = {} /\ a # NULL
      /\ \A p \in Shown \ {q} : data'[p] = data[p] /\ flights'[p] = flights[p]
      /\ Shown' = Shown
      /\ data' = [p \in Shown |-> data'[p]] /\ flights' = [p \in Shown |-> flights'[p]]
  BY <1>1 DEF MirrorInv, Shown
<1>4. Reached(q, a) /\ (data[q] # NULL => \A e \in Reads[q] : data[q][e] <= a[e])
  BY <1>1 DEF MirrorInv
<1>5. \A p \in Shown : \A b : Reached(p, b)' = Reached(p, b)
  BY <1>2 DEF Reached
<1>6. MirrorInv'
  <2>1. ASSUME NEW p \in Shown
        PROVE  /\ \A b, c \in flights'[p] : b = c
               /\ data'[p] # NULL => Reached(p, data[p])'
               /\ \A b \in flights'[p] \ {NULL} :
                    Reached(p, b)' /\ (data'[p] # NULL => \A e \in Reads[p] : data'[p][e] <= b[e])
    <3>1. CASE p = q
      BY <3>1, <1>2, <1>3, <1>4 DEF Reached
    <3>2. CASE p # q
      BY <3>2, <1>2, <1>3 DEF MirrorInv, Reached
    <3> QED
      BY <3>1, <3>2
  <2> QED
    BY <1>2, <1>3, <2>1 DEF MirrorInv, Reached
<1>7. Pages!Show(q)
  <2>1. UNCHANGED KeptLists
    BY <1>2, <1>3 DEF KeptLists
  <2> QED
    BY <1>2, <1>3, <1>4, <2>1 DEF Pages!Show, Pages!Elsewhere, Reached, Shown
<1>8. DragInv'
  BY <1>2, <1>3 DEF DragInv, Reached
<1> QED
  BY <1>6, <1>7, <1>8 DEF Pages!Turn

\* The user puts the values in order: nothing is on its way to them any more.
LEMMA DragStep ==
    ASSUME MirrorInv, DragInv, NEW q \in Shown, Drag(q)
    PROVE  MirrorInv' /\ DragInv' /\ Pages!Turn(q)
<1>1. /\ q \in ByHand /\ q = "domain-values" /\ data[q] # NULL
      /\ UNCHANGED <<version, data>> /\ flights' = [flights EXCEPT ![q] = {}]
      /\ drags' = drags \cup {[n |-> moves, previous |-> data[q], at |-> "asked"]}
  BY DEF Drag, ByHand
<1>2. /\ flights'[q] = {} /\ \A p \in Shown \ {q} : flights'[p] = flights[p]
      /\ flights' = [p \in Shown |-> flights'[p]]
      /\ Shown' = Shown
  BY <1>1 DEF MirrorInv, Shown
<1>3. MirrorInv'
  <2>1. version' \in [Tables -> Nat] /\ \A e \in Tables : version[e] <= version'[e]
    BY <1>1 DEF MirrorInv
  <2>2. \A p \in Shown : flights'[p] = flights[p] \/ flights'[p] \subseteq {NULL}
    BY <1>2
  <2> QED
    BY <1>1, <1>2, <2>1, <2>2, Going
<1>4. DragInv'
  <2> SUFFICES ASSUME NEW d \in drags', NEW p \in ByHand \cap Shown
               PROVE  Reached(p, d.previous) /\ flights'[p] = {}
    BY <1>1, <1>2 DEF DragInv, Reached
  <2>1. p = q
    BY <1>1 DEF ByHand
  <2>2. d \in drags \/ d.previous = data[q]
    BY <1>1
  <2> QED
    BY <1>1, <1>2, <2>1, <2>2 DEF DragInv, MirrorInv
<1>5. Pages!Arrange(q)
  <2>1. KeptLists'[q] = KeptLists[q] \cup {data[q]}
    <3>1. KeptLists[q] = Lists(drags) /\ KeptLists'[q] = Lists(drags')
      BY <1>1, <1>2 DEF KeptLists, Lists
    <3>2. Lists(drags') = Lists(drags) \cup {data[q]}
      <4>1. PICK new : new.previous = data[q] /\ drags' = drags \cup {new}
        BY <1>1
      <4> QED
        BY <4>1 DEF Lists
    <3> QED
      BY <3>1, <3>2
  <2>2. \A p \in Shown \ {q} : KeptLists'[p] = KeptLists[p]
    BY <1>1, <1>2 DEF KeptLists, ByHand
  <2> QED
    BY <1>1, <1>2, <2>1, <2>2 DEF Pages!Arrange, Pages!Elsewhere, KeptLists
<1> QED
  BY <1>3, <1>4, <1>5 DEF Pages!Turn

\* A drag that failed puts back its list, which what is on its way is newer than.
LEMMA GiveBackStep ==
    ASSUME MirrorInv, DragInv, NEW d \in drags, GiveBack(d)
    PROVE  /\ MirrorInv' /\ DragInv'
           /\ (\E q \in Shown : Pages!Turn(q)) \/ UNCHANGED <<version, data, KeptLists>>
<1>1. /\ drags' = drags \ {d} /\ UNCHANGED version
      /\ data' = [q \in Shown |-> IF q \in ByHand THEN d.previous ELSE data[q]]
      /\ flights' = Started(ReorderHook)
  BY DEF GiveBack, Invalidate
<1>2. Shown' = Shown /\ flights' = [q \in Shown |-> flights'[q]]
  BY <1>1 DEF Shown, Started
<1>3. \A q \in Shown : flights'[q] = flights[q] \/ flights'[q] \subseteq {NULL}
  BY <1>1, StartedGoing
<1>4. \A q \in Shown : \A a : Reached(q, a)' = Reached(q, a)
  BY <1>1 DEF Reached
<1>5. ASSUME NEW q \in Shown
      PROVE  /\ \A a, b \in flights'[q] : a = b
             /\ data'[q] # NULL => Reached(q, data'[q])
             /\ \A a \in flights'[q] \ {NULL} :
                   /\ Reached(q, a)
                   /\ data'[q] # NULL => \A e \in Reads[q] : data'[q][e] <= a[e]
  <2>1. \A a \in flights'[q] \ {NULL} : a \in flights[q] \ {NULL}
    BY <1>3
  <2>2. CASE q \in ByHand
    BY <1>1, <1>3, <2>1, <2>2 DEF MirrorInv, DragInv
  <2>3. CASE q \notin ByHand
    BY <1>1, <1>3, <2>1, <2>3 DEF MirrorInv
  <2> QED
    BY <2>2, <2>3
<1>6. MirrorInv'
  <2>1. data' = [q \in Shown |-> data'[q]]
    BY <1>1
  <2> QED
    BY <1>1, <1>2, <1>4, <1>5, <2>1 DEF MirrorInv, Reached
<1>7. DragInv'
  <2> SUFFICES ASSUME NEW c \in drags, NEW q \in ByHand \cap Shown
               PROVE  /\ Reached(q, c.previous)
                      /\ \A a \in flights'[q] \ {NULL} :
                            \A e \in Reads[q] : c.previous[e] <= a[e]
    BY <1>1, <1>2 DEF DragInv, Reached
  <2>1. \A a \in flights'[q] \ {NULL} : a \in flights[q] \ {NULL}
    BY <1>3
  <2> QED
    BY <2>1 DEF DragInv
<1>8. CASE "domain-values" \in Shown
  <2> DEFINE q == "domain-values"
  <2>1. data'[q] \in KeptLists[q] /\ KeptLists'[q] \subseteq KeptLists[q]
    BY <1>1, <1>2, <1>8 DEF KeptLists, ByHand
  <2>2. \A p \in Shown \ {q} : data'[p] = data[p] /\ KeptLists'[p] = KeptLists[p]
    BY <1>1, <1>2 DEF KeptLists, ByHand
  <2>3. Pages!GoBack(q)
    BY <1>1, <2>1, <2>2 DEF Pages!GoBack, Pages!Elsewhere, KeptLists, Shown
  <2> QED
    BY <1>6, <1>7, <1>8, <2>3 DEF Pages!Turn
<1>9. CASE "domain-values" \notin Shown
  <2>1. data' = data
    BY <1>1, <1>9 DEF MirrorInv, ByHand
  <2>2. KeptLists' = KeptLists
    BY <1>2, <1>9 DEF KeptLists, ByHand
  <2> QED
    BY <1>1, <1>6, <1>7, <2>1, <2>2
<1> QED
  BY <1>8, <1>9

\* Every step is one that Mirror allows, or changes nothing that is shown.
LEMMA NextMirror ==
    ASSUME MirrorInv, DragInv, [Next]_vars
    PROVE  /\ MirrorInv' /\ DragInv'
           /\ \/ Pages!Change \/ (\E q \in Shown : Pages!Turn(q))
              \/ UNCHANGED <<version, data, KeptLists>>
<1> DEFINE Kept3 == UNCHANGED <<version, data, KeptLists>>
           Quiet == MirrorInv' /\ DragInv' /\ Kept3
           Allowed == /\ MirrorInv' /\ DragInv'
                      /\ (\E q \in Shown : Pages!Turn(q)) \/ Kept3
<1>0. ASSUME UNCHANGED <<version, data>>, flights' = [q \in Shown |-> flights'[q]],
             \A q \in Shown : flights'[q] = flights[q] \/ flights'[q] \subseteq {NULL},
             Lists(drags') \subseteq Lists(drags)
      PROVE  Allowed
  <2>1. version' \in [Tables -> Nat] /\ \A e \in Tables : version[e] <= version'[e]
    BY <1>0 DEF MirrorInv
  <2>2. \A d \in drags' : \E c \in drags : d.previous = c.previous
    BY <1>0 DEF Lists
  <2> QED
    BY <1>0, <2>1, <2>2, Going, GoingDrags, FewerLists
<1>1. ASSUME UNCHANGED <<version, data, flights>>, Lists(drags') \subseteq Lists(drags)
      PROVE  Allowed
  <2>1. flights' = [q \in Shown |-> flights'[q]]
    BY <1>1 DEF MirrorInv
  <2> QED
    BY <1>0, <1>1, <2>1
<1>2. ASSUME UNCHANGED <<version, data>>, NEW Q, flights' = Started(Q),
             Lists(drags') \subseteq Lists(drags)
      PROVE  Allowed
  <2>1. flights' = [q \in Shown |-> flights'[q]]
    BY <1>2 DEF Started
  <2> QED
    BY <1>0, <1>2, <2>1, StartedGoing
<1>3. ASSUME NEW q \in Shown, FetchFails(q) PROVE Allowed
  <2>1. flights' = [flights EXCEPT ![q] = {}] /\ UNCHANGED <<version, data, drags>>
    BY <1>3 DEF FetchFails, requests
  <2>2. flights' = [p \in Shown |-> flights'[p]]
        /\ \A p \in Shown : flights'[p] = flights[p] \/ flights'[p] \subseteq {NULL}
    BY <2>1 DEF MirrorInv
  <2> QED
    BY <1>0, <2>1, <2>2
<1>4. ASSUME NEW q \in Shown, Mount(q) PROVE Allowed
  <2>1. \/ flights' = [flights EXCEPT ![q] = IF @ = {} THEN {NULL} ELSE @]
        \/ UNCHANGED flights
    BY <1>4 DEF Mount
  <2>2. UNCHANGED <<version, data, drags>>
    BY <1>4 DEF Mount, requests
  <2>3. flights' = [p \in Shown |-> flights'[p]]
        /\ \A p \in Shown : flights'[p] = flights[p] \/ flights'[p] \subseteq {NULL}
    BY <2>1 DEF MirrorInv
  <2> QED
    BY <1>0, <2>2, <2>3
<1>5. ASSUME Return PROVE Allowed
  <2>1. \/ UNCHANGED flights
        \/ flights' = [q \in Shown |-> IF q \in mounted /\ flights[q] = {} THEN {NULL}
                                       ELSE flights[q]]
    BY <1>5 DEF Return
  <2>2. UNCHANGED <<version, data, drags>>
    BY <1>5 DEF Return, requests
  <2>3. flights' = [p \in Shown |-> flights'[p]]
        /\ \A p \in Shown : flights'[p] = flights[p] \/ flights'[p] \subseteq {NULL}
    BY <2>1 DEF MirrorInv
  <2> QED
    BY <1>0, <2>2, <2>3
\* Where the tables change, what is shown stays.
<1>6. ASSUME UNCHANGED <<data, flights>>, Lists(drags') = Lists(drags),
             version' \in [Tables -> Nat], \A e \in Tables : version[e] <= version'[e]
      PROVE  MirrorInv' /\ DragInv' /\ (Pages!Change \/ Kept3)
  <2>1. flights' = [q \in Shown |-> flights'[q]]
    BY <1>6 DEF MirrorInv
  <2>2. \A d \in drags' : \E c \in drags : d.previous = c.previous
    BY <1>6 DEF Lists
  <2>3. MirrorInv' /\ DragInv'
    BY <1>6, <2>1, <2>2, Going, GoingDrags
  <2>4. UNCHANGED KeptLists
    BY <1>6, SameLists
  <2>5. version' # version => Pages!Change
    BY <1>6, <2>4 DEF Pages!Change, MirrorInv
  <2> QED
    BY <1>6, <2>3, <2>4, <2>5
<1>7. ASSUME NEW op \in Ops, NEW mine \in BOOLEAN, Commit(op, mine)
      PROVE  MirrorInv' /\ DragInv' /\ (Pages!Change \/ Kept3)
  <2>1. /\ version' = [e \in Tables |-> version[e] + IF e \in OpOf[op].writes THEN 1 ELSE 0]
        /\ UNCHANGED <<data, flights, drags>>
    BY <1>7 DEF Commit, cacheVars
  <2>2. version' \in [Tables -> Nat] /\ \A e \in Tables : version[e] <= version'[e]
    BY <2>1 DEF MirrorInv
  <2> QED
    BY <1>6, <2>1, <2>2
<1>8. ASSUME NEW d \in drags, CommitDrag(d)
      PROVE  MirrorInv' /\ DragInv' /\ (Pages!Change \/ Kept3)
  <2>1. /\ version' = [version EXCEPT !["DomainValue"] = @ + 1]
        /\ UNCHANGED <<data, flights>>
        /\ drags' = (drags \ {d}) \cup {Come(d, "stored")}
    BY <1>8 DEF CommitDrag, cacheVars
  <2>2. version' \in [Tables -> Nat] /\ \A e \in Tables : version[e] <= version'[e]
    BY <2>1 DEF MirrorInv, Tables
  <2>3. Lists(drags') = Lists(drags)
    <3>1. Come(d, "stored").previous = d.previous /\ Come(d, "stored") \in drags'
      BY <2>1 DEF Come
    <3>2. ASSUME NEW c \in drags PROVE \E b \in drags' : b.previous = c.previous
      BY <2>1, <3>1
    <3>3. ASSUME NEW b \in drags' PROVE \E c \in drags : b.previous = c.previous
      BY <2>1, <3>1
    <3> QED
      BY <3>2, <3>3 DEF Lists
  <2> QED
    BY <1>6, <2>1, <2>2, <2>3
<1>9. ASSUME NEW d \in drags, BreakDrag(d) PROVE Allowed
  <2>1. UNCHANGED <<version, data, flights>> /\ drags' = (drags \ {d}) \cup {Come(d, "broken")}
    BY <1>9 DEF BreakDrag, cacheVars
  <2>2. Lists(drags') \subseteq Lists(drags)
    BY <2>1 DEF Lists, Come
  <2> QED
    BY <1>1, <2>1, <2>2
<1>10. ASSUME NEW o \in auditing, Publish(o) PROVE Allowed
  <2>1. drags' \subseteq drags /\ \E Q : flights' = Started(Q)
    BY <1>10 DEF Publish
  <2>2. UNCHANGED <<version, data>>
    BY <1>10 DEF Publish
  <2>3. Lists(drags') \subseteq Lists(drags)
    BY <2>1 DEF Lists
  <2> QED
    BY <1>2, <2>1, <2>2, <2>3
<1>11. ASSUME UNCHANGED drags PROVE Lists(drags') \subseteq Lists(drags)
  BY <1>11
<1>12. ASSUME Open \/ Flush PROVE Allowed
  <2>1. /\ UNCHANGED <<version, data, drags>>
        /\ flights' = Started(CaughtUp) \/ flights' = Started(pending)
    BY <1>12 DEF Open, Flush, Becomes, Invalidate, requests
  <2> QED
    BY <1>2, <1>11, <2>1
<1>13. ASSUME Restart PROVE Allowed
  <2>1. UNCHANGED <<version, data, flights>> /\ drags' = {Come(d, "broken") : d \in drags}
    BY <1>13 DEF Restart, cacheVars
  <2>2. Lists(drags') \subseteq Lists(drags)
    BY <2>1 DEF Lists, Come
  <2> QED
    BY <1>1, <2>1, <2>2
<1>14. ASSUME Subscribe \/ Drop \/ Expire \/ Reconnect \/ Hide PROVE Allowed
  <2>1. UNCHANGED <<version, data, flights, drags>>
    BY <1>14 DEF Subscribe, Drop, Expire, Reconnect, Hide, Becomes, cacheVars, requests
  <2> QED
    BY <1>1, <1>11, <2>1
<1>15. ASSUME NEW e \in Tables, Deliver(e) PROVE Allowed
  BY <1>1, <1>11, <1>15 DEF Deliver, cacheVars, requests
<1>16. ASSUME NEW q \in Shown, Unmount(q) PROVE Allowed
  BY <1>1, <1>11, <1>16 DEF Unmount, requests
<1>17. CASE UNCHANGED vars
  BY <1>1, <1>11, <1>17 DEF vars, cacheVars, requests
<1>18. ASSUME NEW q \in Shown, Read(q) PROVE Allowed
  <2>1. MirrorInv' /\ DragInv' /\ UNCHANGED <<version, data, drags>>
    BY <1>18, ReadStep
  <2>2. UNCHANGED KeptLists
    BY <2>1, SameLists
  <2> QED
    BY <2>1, <2>2
<1>19. ASSUME NEW q \in Shown, Receive(q) \/ Drag(q) PROVE Allowed
  BY <1>19, ReceiveStep, DragStep
<1>20. ASSUME NEW d \in drags, GiveBack(d) PROVE Allowed
  BY <1>20, GiveBackStep
<1> QED
  BY <1>3, <1>4, <1>5, <1>7, <1>8, <1>9, <1>10, <1>12, <1>13, <1>14, <1>15, <1>16, <1>17,
     <1>18, <1>19, <1>20 DEF Next

-----------------------------------------------------------------------------
\* The cache of the client, its refetches and the event stream implement what
\* the pages promise: whatever is invalidated, refetched, reordered, lost or cut
\* off, a page shows tables as they were at a moment, and never goes back to an
\* older one, but for the list of values after a drag that failed.
THEOREM NeverOlderHolds == Spec => NeverOlder
<1>1. Init => MirrorInv /\ DragInv /\ Pages!Init
  BY InitMirror
<1>2. MirrorInv /\ DragInv /\ [Next]_vars => (MirrorInv /\ DragInv)'
  BY NextMirror
<1>3. MirrorInv /\ DragInv /\ [Next]_vars =>
        [Pages!Change \/ \E q \in DOMAIN data : Pages!Turn(q)]_<<version, data, KeptLists>>
  BY NextMirror DEF Shown
<1> QED
  BY <1>1, <1>2, <1>3, PTL DEF Spec, NeverOlder, Pages!Spec

=============================================================================
