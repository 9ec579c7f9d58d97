--------------------------- MODULE Administration ---------------------------
(***************************************************************************)
(* Users and roles under concurrent requests: UsersService and RolesService. *)
(* A request works with the actor as the guard read him (permissions.guard)  *)
(* and checks before it writes, in statements of their own.  What a role     *)
(* grants is abstracted to whether it grants administration: users.manage,   *)
(* users.manage_passwords and roles.manage.  Uniqueness of names, emails and *)
(* documents is left to the database, and so left out.                       *)
(***************************************************************************)
EXTENDS Naturals, FiniteSets

CONSTANTS
    Users,       \* users other than the seeded super admin
    Root,        \* the seeded super admin
    Roles,
    System,      \* SYSTEM_REFERENCE, the greatest reference that fits its column
    Calls,    \* requests that may overlap
    MaxCalls, \* bound on the requests
    NoRole

ASSUME AdministrationAssumption ==
    /\ System \in Nat /\ System > 1
    /\ Root \notin Users /\ NoRole \notin Roles

VARIABLES
    ref,         \* user -> reference, 0 before the user is created
    role,        \* user -> role
    status,      \* user -> ACTIVE or INACTIVE
    grants,      \* role -> does it grant administration?
    roles,       \* the roles there are
    call,        \* the requests under way
    calls,       \* the requests so far
    raced        \* requests during which a write of another one finished

adminVars == <<ref, role, status, grants, roles, call, calls, raced>>

NoCall == [kind |-> "none"]

Created == {u \in Users : ref[u] # 0}

\* The reference of the seeded admin is taken from the start.
References == {ref[u] : u \in Created} \cup {System}

Admin(a) ==
    IF a = Root THEN TRUE
    ELSE status[a] = "ACTIVE" /\ IF role[a] = NoRole THEN FALSE ELSE grants[role[a]]

RoleOf(a) == IF a = Root THEN NoRole ELSE role[a]

\* The guard reads the actor; the request sees him as he is now.
BeginCall(q, a, record) ==
    /\ call[q] = NoCall /\ calls < MaxCalls
    /\ a \in Created \cup {Root} /\ Admin(a)
    /\ calls' = calls + 1
    /\ call' = [call EXCEPT ![q] = record]
    /\ raced' = raced \ {q}
    /\ UNCHANGED <<ref, role, status, grants, roles>>

Request(kind, at, a, u, r, reference) ==
    [kind |-> kind, at |-> at, actor |-> a, actorRole |-> RoleOf(a), user |-> u, role |-> r,
     reference |-> reference]

Done(q) == call' = [call EXCEPT ![q] = NoCall]

\* The write of a request, seen by those still under way.
Written(q) ==
    /\ Done(q)
    /\ raced' = raced \cup {p \in Calls \ {q} : call[p] # NoCall}
    /\ UNCHANGED calls

Refuse(q) == Done(q) /\ UNCHANGED <<ref, role, status, grants, roles, calls, raced>>

At(q, kind) == call[q].kind = kind /\ call[q].at = "checked"

RoleThere(r) == r = NoRole \/ r \in roles

-----------------------------------------------------------------------------
(* Users. *)

\* A count on every reference, the one of the system included.
NextReferenceOfAll(taken) == 1 + CHOOSE n \in taken : \A k \in taken : k <= n

NextReference(taken) ==
    LET regular == (taken \ {System}) \cup {0}
    IN  1 + CHOOSE n \in regular : \A k \in regular : k <= n

\* UsersService.create, up to its test of the reference; 0 asks for the next one.
StartCreateUser(q, a, u, r, given) ==
    /\ ref[u] = 0 /\ \A p \in Calls : call[p].kind = "createUser" => call[p].user # u
    /\ RoleThere(r)
    /\ LET reference == IF given = 0 THEN NextReference(References) ELSE given
           refused == reference >= System \/ given \in References
           at == IF refused THEN (IF given = 0 THEN "exhausted" ELSE "taken") ELSE "checked"
       IN  BeginCall(q, a, Request("createUser", at, a, u, r, reference))

\* The insert; unique reference and foreign key refuse what changed meanwhile.
InsertUser(q) ==
    /\ At(q, "createUser")
    /\ call[q].reference \notin References /\ RoleThere(call[q].role)
    /\ ref' = [ref EXCEPT ![call[q].user] = call[q].reference]
    /\ role' = [role EXCEPT ![call[q].user] = call[q].role]
    /\ status' = [status EXCEPT ![call[q].user] = "ACTIVE"]
    /\ Written(q)
    /\ UNCHANGED <<grants, roles>>

\* A form sends the role along whatever it edits; one's own must stay.
StartUpdateUser(q, a, u, r) ==
    /\ u \in Created
    /\ a = u => r = role[u]
    /\ RoleThere(r)
    /\ BeginCall(q, a, Request("updateUser", "checked", a, u, r, 0))

UpdateUser(q) ==
    /\ At(q, "updateUser") /\ RoleThere(call[q].role)
    /\ role' = [role EXCEPT ![call[q].user] = call[q].role]
    /\ Written(q)
    /\ UNCHANGED <<ref, status, grants, roles>>

\* One statement: nothing it read matters to what it writes.
SetStatus(q, a, u, s) ==
    /\ call[q] = NoCall /\ calls < MaxCalls
    /\ a \in Created \cup {Root} /\ Admin(a) /\ u \in Created
    /\ status' = [status EXCEPT ![u] = s]
    /\ calls' = calls + 1
    /\ raced' = raced \cup {p \in Calls \ {q} : call[p] # NoCall}
    /\ UNCHANGED <<ref, role, grants, roles, call>>

-----------------------------------------------------------------------------
(* Roles. *)

CreateRole(q, a, r, admin) ==
    /\ call[q] = NoCall /\ calls < MaxCalls
    /\ a \in Created \cup {Root} /\ Admin(a) /\ r \notin roles
    /\ roles' = roles \cup {r} /\ grants' = [grants EXCEPT ![r] = admin]
    /\ calls' = calls + 1
    /\ raced' = raced \cup {p \in Calls \ {q} : call[p] # NoCall}
    /\ UNCHANGED <<ref, role, status, call>>

\* A service that leaves the choice to whoever manages roles.
MayUpdateAnyRole(a, r) == Admin(a)

\* Nobody but the super admin edits the role he came with.
MayUpdateRole(a, r) == a # Root => RoleOf(a) # r

StartUpdateRole(q, a, r) ==
    /\ r \in roles /\ MayUpdateRole(a, r)
    /\ BeginCall(q, a, Request("updateRole", "checked", a, a, r, 0))

UpdateRole(q, admin) ==
    /\ At(q, "updateRole") /\ call[q].role \in roles
    /\ grants' = [grants EXCEPT ![call[q].role] = admin]
    /\ Written(q)
    /\ UNCHANGED <<ref, role, status, roles>>

\* A count that forgets the inactive users.
HasActiveUsers(r) == \E u \in Created : role[u] = r /\ status[u] = "ACTIVE"

HasUsers(r) == \E u \in Created : role[u] = r

StartRemoveRole(q, a, r) ==
    /\ r \in roles /\ ~ HasUsers(r)
    /\ BeginCall(q, a, Request("removeRole", "checked", a, a, r, 0))

\* The foreign key sets the role of whoever has it by now to null.
RemoveRole(q) ==
    /\ At(q, "removeRole") /\ call[q].role \in roles
    /\ roles' = roles \ {call[q].role}
    /\ role' = [u \in Users |-> IF role[u] = call[q].role THEN NoRole ELSE role[u]]
    /\ Written(q)
    /\ UNCHANGED <<ref, status, grants>>

\* A refusal, by the checks or by the database, or a failed statement.
Refused(q) == call[q] # NoCall /\ Refuse(q)

\* Some users and roles are there already.
AdminInit ==
    /\ roles \in SUBSET Roles /\ grants = [r \in Roles |-> TRUE]
    /\ ref \in {f \in [Users -> 0..(System - 1)] :
                   \A u, v \in Users : f[u] = f[v] => u = v \/ f[u] = 0}
    /\ role \in {f \in [Users -> {NoRole} \cup roles] : \A u \in Users : ref[u] = 0 => f[u] = NoRole}
    /\ status = [u \in Users |-> "ACTIVE"]
    /\ call = [q \in Calls |-> NoCall] /\ calls = 0 /\ raced = {}

AdminNext ==
    \E q \in Calls :
        \/ \E a \in Users \cup {Root} :
               \/ \E u \in Users, r \in Roles \cup {NoRole} :
                      \/ \E given \in 0..System : StartCreateUser(q, a, u, r, given)
                      \/ StartUpdateUser(q, a, u, r)
               \/ \E u \in Users, s \in {"ACTIVE", "INACTIVE"} : SetStatus(q, a, u, s)
               \/ \E r \in Roles, admin \in BOOLEAN : CreateRole(q, a, r, admin)
               \/ \E r \in Roles : StartUpdateRole(q, a, r) \/ StartRemoveRole(q, a, r)
        \/ InsertUser(q) \/ UpdateUser(q) \/ RemoveRole(q) \/ Refused(q)
        \/ \E admin \in BOOLEAN : UpdateRole(q, admin)

AdminSpec == AdminInit /\ [][AdminNext]_adminVars

-----------------------------------------------------------------------------
(* Properties. *)

\* The next reference is refused only when the last one before the system's is
\* taken; which also means for ever, however many below it are free.
ReferenceFound ==
    \A q \in Calls :
        call[q].kind = "createUser" /\ call[q].at = "exhausted" => System - 1 \in References

\* A role with users goes only when one of them got it while it was being
\* removed: nobody else loses his role.
RoleKept ==
    [][\A q \in Calls :
          RemoveRole(q) /\ role' # role => q \in raced]_adminVars

\* No request gives its user administration he did not have, or takes it from
\* him, by way of his role, unless another write came between its check and its own.
OwnRightsByOthers ==
    [][\A q \in Calls :
          InsertUser(q) \/ UpdateUser(q) \/ RemoveRole(q) \/ (\E admin \in BOOLEAN : UpdateRole(q, admin))
          => \A a \in Users : call[q].actor = a /\ q \notin raced => Admin(a)' = Admin(a)]_adminVars
=============================================================================
