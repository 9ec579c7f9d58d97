----------------------------- MODULE LivePages -----------------------------
(***************************************************************************)
(* How the pages of one tab follow the database: the hooks of the web       *)
(* client (hooks/use-*.ts) keep answers in the cache of TanStack Query; a   *)
(* change made in the tab invalidates some of them, a change made elsewhere *)
(* is announced on the event stream (change-events/, audit.service.ts) and  *)
(* invalidates others (hooks/use-change-events.ts, lib/change-events.ts).   *)
(*                                                                          *)
(* A table is the number of times it has changed; an answer is the numbers  *)
(* of the tables it was made from.  Keys of the cache are told apart by     *)
(* their first component.                                                   *)
(***************************************************************************)
EXTENDS Naturals, FiniteSets

CONSTANTS
    Visits,      \* the sets of queries that the pages a tab visits may use
    Ops,         \* the operations that happen
    MaxChanges,  \* bound on the operations
    MaxFaults,   \* bound on what interrupts: drops, expiries, crashes, failures
    MaxMoves,    \* bound on page changes, on hiding the tab and on reordering
    NULL         \* "no answer"

-----------------------------------------------------------------------------
(* What each query reads on the server. *)

Queries == {"sales", "sale", "sale-history", "assignable-people", "customers", "customer",
            "roles", "users", "plans", "domain-values", "active-domain-values",
            "system-settings", "notification-sound", "notification-sound-file",
            "import-batches", "import-batch", "import-rows", "import-unresolved",
            "import-mappings", "revenue", "me"}

Tables == {"Sale", "Attachment", "Customer", "User", "Role", "Plan", "DomainValue",
           "SystemSetting", "ImportBatch", "ImportMapping"}

Names == {"User", "Plan", "DomainValue"}

SaleListRead  == {"Sale", "Customer", "Attachment"} \cup Names
SaleRead      == SaleListRead
HistoryRead   == {"Sale"} \cup Names
CustomersRead == {"Customer", "Sale"}
CustomerRead  == {"Customer", "Sale"} \cup Names
PeopleRead    == {"User", "Role"}
PlansRead     == {"Plan", "DomainValue"}
ValuesRead    == {"DomainValue", "Sale"}
BatchRead     == {"ImportBatch", "User"}
RowsRead      == {"ImportBatch"}
NamedRead     == {"ImportMapping"} \cup Names
MappingsRead  == NamedRead
RevenueRead   == {"Sale", "Plan"}

Reads ==
    [q \in Queries |->
        CASE q = "sales" -> SaleListRead
          [] q = "sale" -> SaleRead
          [] q = "sale-history" -> HistoryRead
          [] q = "customers" -> CustomersRead
          [] q = "customer" -> CustomerRead
          [] q \in {"assignable-people", "roles", "users", "me"} -> PeopleRead
          [] q = "plans" -> PlansRead
          [] q = "domain-values" -> ValuesRead
          [] q = "active-domain-values" -> {"DomainValue"}
          [] q \in {"system-settings", "notification-sound", "notification-sound-file"} ->
                {"SystemSetting"}
          [] q \in {"import-batches", "import-batch"} -> BatchRead
          [] q = "import-rows" -> RowsRead
          [] q = "import-unresolved" -> {"ImportBatch"} \cup NamedRead
          [] q = "import-mappings" -> MappingsRead
          [] q = "revenue" -> RevenueRead]

ASSUME LivePagesAssumption == Visits \subseteq SUBSET Queries

-----------------------------------------------------------------------------
(* What an event invalidates. *)

SaleViews == {"sales", "sale"}

\* A client that forgets that names of users are part of the sales it shows.
KeysByEntityNoUsers(e) ==
    CASE e = "Sale" -> SaleViews \cup {"sale-history", "customers", "customer", "revenue"}
      [] e = "User" -> {"users", "me", "assignable-people"}
      [] OTHER -> {}

KeysByEntity(e) ==
    CASE e = "Sale" -> SaleViews \cup {"sale-history", "customers", "customer", "revenue"}
      [] e = "Attachment" -> {"sale", "sale-history"}
      [] e = "Customer" -> {"customers", "customer", "sale"}
      [] e = "User" -> {"users", "me", "assignable-people"} \cup SaleViews
      [] e = "Role" -> {"roles", "users", "me", "assignable-people"}
      [] e = "Plan" -> {"plans"} \cup SaleViews
      [] e = "DomainValue" -> {"domain-values", "active-domain-values"} \cup SaleViews
      [] e = "SystemSetting" ->
            {"system-settings", "notification-sound", "notification-sound-file"}
      [] e = "ImportBatch" ->
            {"import-batches", "import-batch", "import-rows", "import-unresolved"}
      [] e = "ImportMapping" -> {"import-mappings", "import-unresolved"}

\* What no event reaches, though it is part of the answer: the pages show it
\* until they are fetched again for another reason.
Unannounced(e) ==
    CASE e = "Sale" -> {"domain-values"}
      [] e \in {"Attachment", "Customer"} -> {"sales"}
      [] e = "User" -> {"sale-history", "customer", "roles", "import-batches", "import-batch",
                        "import-unresolved", "import-mappings"}
      [] e = "Plan" -> {"sale-history", "customer", "import-unresolved", "import-mappings",
                        "revenue"}
      [] e = "DomainValue" -> {"sale-history", "customer", "plans", "import-unresolved",
                               "import-mappings"}
      [] OTHER -> {}

-----------------------------------------------------------------------------
(* The operations: what they write, which entities their audit entries      *)
(* name, and what the hook of the tab that asked for them invalidates.      *)

SalesHook       == {"sales", "sale", "sale-history"}
AttachmentsHook == {"sale"}
CustomersHook   == {"customers", "customer"}
UsersHook       == {"users"}
RolesHook       == {"roles"}
PlansHook       == {"plans"}
ValuesHook      == {"domain-values"}
ReorderHook     == ValuesHook \cup {"active-domain-values"}
SystemHook      == {"system-settings"}
SoundHook       == {"notification-sound", "notification-sound-file"}
ReprocessHook   == {"import-batches", "import-batch", "import-rows", "import-unresolved"}
MappingsHook    == {"import-mappings", "import-unresolved"}

Operation(writes, audits, own) == [writes |-> writes, audits |-> audits, own |-> own]

Same(e, own) == Operation({e}, {e}, own)

OpOf ==
    [createSale      |-> Operation({"Sale", "Customer"}, {"Sale", "Customer"}, {"sales"}),
     updateSale      |-> Same("Sale", SalesHook),
     addAttachment   |-> Same("Attachment", AttachmentsHook),
     createCustomer  |-> Same("Customer", {"customers"}),
     updateCustomer  |-> Same("Customer", CustomersHook),
     changeUser      |-> Same("User", UsersHook),
     changeRole      |-> Same("Role", RolesHook),
     changePlan      |-> Same("Plan", PlansHook),
     changeValue     |-> Same("DomainValue", ValuesHook),
     reorder         |-> Same("DomainValue", ReorderHook),
     updateSetting   |-> Same("SystemSetting", SystemHook),
     changeSound     |-> Same("SystemSetting", SoundHook),
     import          |-> Operation({"ImportBatch", "Sale", "Customer"}, {"ImportBatch", "Sale"},
                                   {"import-batches"}),
     reprocess       |-> Operation({"ImportBatch", "Sale", "Customer"}, {"Sale"}, ReprocessHook),
     changeMapping   |-> Same("ImportMapping", MappingsHook)]

Told(op) == UNION {KeysByEntity(e) : e \in OpOf[op].audits}

\* Where an operation leaves no trace: reprocess writes no audit entry of its
\* batch, so the pages of other tabs keep its old statistics.
Kept(op) ==
    (UNION {Unannounced(e) : e \in OpOf[op].writes}
     \cup (IF op = "reprocess" THEN KeysByEntity("ImportBatch") ELSE {})) \ Told(op)

-----------------------------------------------------------------------------
(* The state. *)

VARIABLES
    version,    \* version[e]: how often table e has changed
    auditing,   \* operations that have committed and not yet written their entry
    visible,    \* whether the tab is visible
    stream,     \* the event stream: closed, waiting, connecting, subscribed, open, expired
    connected,  \* hasConnectedBefore
    wire,       \* entities of the events on their way to the tab
    pending,    \* pendingKeys: what the next flush invalidates
    mounted,    \* the queries of the page on display
    data,       \* data[q]: the answer in the cache, or NULL
    stale,      \* queries that were invalidated
    flights,    \* flights[q]: answers under way, each NULL until the server has read
    drags,      \* the reorder mutations of this tab, with the list each would put back
    unheard,    \* history variable: what data[q] may lag behind without notice
    operations, faults, moves   \* counters

requests == <<auditing, drags>>
cacheVars == <<mounted, data, stale, flights>>
streamVars == <<visible, stream, connected, wire, pending>>
counters == <<operations, faults, moves>>
vars == <<version, requests, streamVars, cacheVars, unheard, counters>>

\* The queries of the pages that this tab visits.
Shown == DOMAIN data

Answer(q) == [e \in Reads[q] |-> version[e]]

Live == {"subscribed", "open"}

-----------------------------------------------------------------------------
(* The cache of TanStack Query. *)

\* A fetch that had an answer before is started again, one that had not goes on.
CancelledNever(q) == flights[q] \cup {NULL}

Cancelled(q) == IF data[q] # NULL \/ flights[q] = {} THEN {NULL} ELSE flights[q]

\* What an invalidation starts: the queries on display are fetched.
Started(Q) ==
    [q \in Shown |-> IF q \in Q \cap mounted THEN Cancelled(q) ELSE flights[q]]

\* A fetch that is not started again may bring an answer from before the change.
Overlooked(Q) == {q \in Q \cap Shown : \E a \in Started(Q)[q] : a # NULL}

Invalidate(Q) ==
    /\ stale' = stale \cup (Q \cap Shown)
    /\ flights' = Started(Q)
    /\ unheard' = [q \in Shown |-> IF q \in Overlooked(Q) THEN Reads[q] ELSE unheard[q]]

\* Events that are lost are made up for by the next connection, but not by the first.
WithoutNotice(E) ==
    [q \in Shown |-> IF connected THEN unheard[q] ELSE unheard[q] \cup (E \cap Reads[q])]

\* The server reads the tables for q.
Read(q) ==
    /\ NULL \in flights[q]
    /\ flights' = [flights EXCEPT ![q] = (@ \ {NULL}) \cup {Answer(q)}]
    /\ unheard' = [unheard EXCEPT ![q] = {}]
    /\ UNCHANGED <<version, requests, streamVars, mounted, data, stale, counters>>

\* The answer arrives.
Receive(q) ==
    /\ \E a \in flights[q] \ {NULL} :
         /\ data' = [data EXCEPT ![q] = a]
         /\ flights' = [flights EXCEPT ![q] = @ \ {a}]
    /\ stale' = stale \ {q}
    /\ UNCHANGED <<version, requests, streamVars, mounted, unheard, counters>>

\* The request fails, also when it is tried again.
FetchFails(q) ==
    /\ flights[q] # {} /\ faults < MaxFaults
    /\ faults' = faults + 1
    /\ flights' = [flights EXCEPT ![q] = {}]
    /\ stale' = stale \cup {q}
    /\ unheard' = [unheard EXCEPT ![q] = Reads[q]]
    /\ UNCHANGED <<version, requests, streamVars, mounted, data, operations, moves>>

\* A page is opened: a query is fetched when it has no answer, or one that was
\* invalidated or is older than staleTime.
Mount(q) ==
    /\ q \notin mounted /\ moves < MaxMoves
    /\ moves' = moves + 1
    /\ mounted' = mounted \cup {q}
    /\ \/ flights' = [flights EXCEPT ![q] = IF @ = {} THEN {NULL} ELSE @]
       \/ data[q] # NULL /\ q \notin stale /\ UNCHANGED flights
    /\ UNCHANGED <<version, requests, streamVars, data, stale, unheard, operations, faults>>

Unmount(q) ==
    /\ q \in mounted /\ moves < MaxMoves
    /\ moves' = moves + 1
    /\ mounted' = mounted \ {q}
    /\ UNCHANGED <<version, requests, streamVars, data, stale, flights, unheard,
                   operations, faults>>

-----------------------------------------------------------------------------
(* Operations of the server. *)

\* An operation commits; it is one of this tab, or of anybody else.  The order
\* this tab gives to the values is a Drag.
Commit(op, mine) ==
    /\ operations < MaxChanges
    /\ op = "reorder" => ~mine
    /\ operations' = operations + 1
    /\ version' = [e \in Tables |-> version[e] + IF e \in OpOf[op].writes THEN 1 ELSE 0]
    /\ auditing' = auditing \cup {[op |-> op, mine |-> mine, n |-> operations]}
    /\ UNCHANGED <<drags, streamVars, cacheVars, unheard, faults, moves>>

\* The request of a drag is told apart from the other operations by its number.
NumberOf(d) == MaxChanges + d.n

\* The entries are written, or not, and announced; then the request is answered.
Publish(o) ==
    /\ o \in auditing
    /\ auditing' = auditing \ {o}
    /\ wire' = IF stream \in Live THEN wire \cup OpOf[o.op].audits ELSE wire
    /\ LET own == IF o.mine THEN OpOf[o.op].own ELSE {}
           \* nobody tells these queries
           missed == (Kept(o.op) \cup IF connected \/ stream \in Live THEN {} ELSE Told(o.op)) \ own
       IN /\ stale' = stale \cup (own \cap Shown)
          /\ flights' = Started(own)
          /\ drags' = {d \in drags : ~(o.mine /\ o.n = NumberOf(d))}
          /\ unheard' = [q \in Shown |->
                IF q \in Overlooked(own) THEN Reads[q]
                ELSE IF q \in missed THEN unheard[q] \cup (OpOf[o.op].writes \cap Reads[q])
                ELSE unheard[q]]
    /\ UNCHANGED <<version, visible, stream, connected, pending, mounted, data, counters>>

\* Drag d, which has come to s.
Come(d, s) == [n |-> d.n, previous |-> d.previous, at |-> s]

\* The server restarts: who was about to announce a change never does, every
\* request fails and every stream breaks.
Restart ==
    /\ faults < MaxFaults
    /\ faults' = faults + 1
    /\ auditing' = {}
    /\ drags' = {Come(d, "broken") : d \in drags}
    /\ wire' = {}
    /\ stream' = IF stream = "closed" THEN stream ELSE "waiting"
    /\ unheard' = WithoutNotice(wire \cup UNION {OpOf[o.op].writes : o \in auditing})
    /\ UNCHANGED <<version, visible, connected, pending, cacheVars, operations, moves>>

-----------------------------------------------------------------------------
(* useReorderDomainValues. *)

ByHand == {"domain-values"}

\* onMutate: what is on its way is given up, and the cache takes the rows it had
\* in the order the user wants, as if they had just been fetched.
Drag(q) ==
    /\ "reorder" \in Ops
    /\ q \in ByHand \cap mounted /\ data[q] # NULL
    /\ moves < MaxMoves
    /\ moves' = moves + 1
    /\ drags' = drags \cup {[n |-> moves, previous |-> data[q], at |-> "asked"]}
    /\ flights' = [flights EXCEPT ![q] = {}]
    /\ stale' = stale \ {q}
    /\ UNCHANGED <<version, auditing, streamVars, mounted, data, unheard, operations, faults>>

\* The server stores the order.
CommitDrag(d) ==
    /\ d.at = "asked"
    /\ version' = [version EXCEPT !["DomainValue"] = @ + 1]
    /\ auditing' = auditing \cup {[op |-> "reorder", mine |-> TRUE, n |-> NumberOf(d)]}
    /\ drags' = (drags \ {d}) \cup {Come(d, "stored")}
    /\ UNCHANGED <<streamVars, cacheVars, unheard, counters>>

\* The server refuses the order, or its answer is lost.
BreakDrag(d) ==
    /\ d.at # "broken" /\ faults < MaxFaults
    /\ faults' = faults + 1
    /\ drags' = (drags \ {d}) \cup {Come(d, "broken")}
    /\ auditing' = {IF o.mine /\ o.n = NumberOf(d) THEN [o EXCEPT !.mine = FALSE] ELSE o :
                        o \in auditing}
    /\ UNCHANGED <<version, streamVars, cacheVars, unheard, operations, moves>>

\* onError and onSettled: the list is put back, however old, and fetched again.
GiveBack(d) ==
    /\ d.at = "broken"
    /\ drags' = drags \ {d}
    /\ data' = [q \in Shown |-> IF q \in ByHand THEN d.previous ELSE data[q]]
    /\ Invalidate(ReorderHook)
    /\ UNCHANGED <<version, auditing, streamVars, mounted, counters>>

-----------------------------------------------------------------------------
(* The event stream. *)

Becomes(s) == stream' = s /\ UNCHANGED <<version, requests, visible, pending, operations>>

\* The server subscribes the tab, whose request it has authorized.
Subscribe ==
    /\ stream = "connecting"
    /\ Becomes("subscribed")
    /\ UNCHANGED <<connected, wire, cacheVars, unheard, faults, moves>>

\* The response arrives: all that was missed while there was no stream is
\* made up for, except before the first.
CaughtUpNever == {}

CaughtUp == IF connected THEN Queries ELSE {}

Open ==
    /\ stream = "subscribed"
    /\ Becomes("open")
    /\ connected' = TRUE
    /\ Invalidate(CaughtUp)
    /\ UNCHANGED <<wire, mounted, data, faults, moves>>

\* The stream breaks, or the connection is refused.
Drop ==
    /\ stream \in Live \cup {"connecting"} /\ faults < MaxFaults
    /\ faults' = faults + 1
    /\ Becomes("waiting")
    /\ wire' = {}
    /\ unheard' = WithoutNotice(wire)
    /\ UNCHANGED <<connected, cacheVars, moves>>

\* The access token runs out and the server ends the stream, after all events.
Expire ==
    /\ stream = "open" /\ faults < MaxFaults
    /\ faults' = faults + 1
    /\ Becomes("expired")
    /\ UNCHANGED <<connected, wire, cacheVars, unheard, moves>>

\* The tab connects again, at once after a planned end, else after a pause.
Reconnect ==
    /\ stream = "waiting" \/ (stream = "expired" /\ wire = {})
    /\ Becomes("connecting")
    /\ UNCHANGED <<connected, wire, cacheVars, unheard, faults, moves>>

\* An event is read from the stream, and waits for the next flush.
Deliver(e) ==
    /\ stream \in {"open", "expired"} /\ e \in wire
    /\ wire' = wire \ {e}
    /\ pending' = pending \cup KeysByEntity(e)
    /\ UNCHANGED <<version, requests, visible, stream, connected, cacheVars, unheard, counters>>

\* INVALIDATION_BATCH_MS after the first of them.
Flush ==
    /\ pending # {}
    /\ pending' = {}
    /\ Invalidate(pending)
    /\ UNCHANGED <<version, requests, visible, stream, connected, wire, mounted, data, counters>>

\* Only the visible tab keeps a stream.
Hide ==
    /\ visible /\ moves < MaxMoves
    /\ moves' = moves + 1
    /\ visible' = FALSE /\ stream' = "closed" /\ wire' = {}
    /\ unheard' = WithoutNotice(wire)
    /\ UNCHANGED <<version, requests, connected, pending, cacheVars, operations, faults>>

\* Back to the tab; the queries on display older than staleTime are fetched.
Return ==
    /\ ~ visible
    /\ visible' = TRUE /\ stream' = "connecting"
    /\ \/ UNCHANGED flights
       \/ flights' = [q \in Shown |-> IF q \in mounted /\ flights[q] = {} THEN {NULL}
                                      ELSE flights[q]]
    /\ UNCHANGED <<version, requests, connected, wire, pending, mounted, data, stale, unheard,
                   counters>>

-----------------------------------------------------------------------------
Init ==
    /\ version = [e \in Tables |-> 0]
    /\ auditing = {}
    /\ visible = TRUE
    /\ stream = "connecting"
    /\ connected = FALSE
    /\ wire = {} /\ pending = {}
    /\ mounted = {} /\ stale = {}
    /\ data \in {[q \in V |-> NULL] : V \in Visits}
    /\ flights = [q \in Shown |-> {}]
    /\ drags = {}
    /\ unheard = [q \in Shown |-> {}]
    /\ operations = 0 /\ faults = 0 /\ moves = 0

Next ==
    \/ \E q \in Shown :
          Read(q) \/ Receive(q) \/ FetchFails(q) \/ Mount(q) \/ Unmount(q) \/ Drag(q)
    \/ \E d \in drags : CommitDrag(d) \/ BreakDrag(d) \/ GiveBack(d)
    \/ \E op \in Ops, mine \in BOOLEAN : Commit(op, mine)
    \/ \E o \in auditing : Publish(o)
    \/ Restart
    \/ Subscribe \/ Open \/ Drop \/ Expire \/ Reconnect \/ Flush \/ Hide \/ Return
    \/ \E e \in Tables : Deliver(e)

Spec == Init /\ [][Next]_vars

\* Requests are answered, timers fire, and a visible tab connects again.
FairSpec ==
    /\ Spec
    /\ WF_vars(\E q \in Shown : Read(q)) /\ WF_vars(\E q \in Shown : Receive(q))
    /\ WF_vars(\E o \in auditing : Publish(o))
    /\ WF_vars(\E d \in drags : CommitDrag(d)) /\ WF_vars(\E d \in drags : GiveBack(d))
    /\ WF_vars(Subscribe) /\ WF_vars(Open) /\ WF_vars(Reconnect) /\ WF_vars(Flush)
    /\ WF_vars(\E e \in Tables : Deliver(e))

-----------------------------------------------------------------------------
(* Properties. *)

\* Every variable has its type.
TypeOK ==
    /\ version \in [Tables -> 0 .. MaxChanges + MaxMoves]
    /\ visible \in BOOLEAN /\ connected \in BOOLEAN
    /\ stream \in {"closed", "waiting", "connecting", "subscribed", "open", "expired"}
    /\ wire \subseteq Tables /\ pending \subseteq Queries
    /\ mounted \subseteq Shown /\ stale \subseteq Shown
    /\ \A q \in Shown : unheard[q] \subseteq Reads[q]
    /\ \A q \in Shown : Cardinality(flights[q]) <= 1

\* Query q shows the tables as they are, but for what it was not told of, and in
\* no order of the user's own.
Fresh(q) ==
    /\ q \in ByHand => drags = {}
    /\ data[q] # NULL
    /\ \A e \in Reads[q] \ unheard[q] : data[q][e] = version[e]

\* Pages on display come to show the last change, whoever made it: an event may
\* be lost with its stream, but the stream comes back and everything is fetched
\* again.  What they may miss: a change before the first connection, a change
\* during a fetch that nothing starts again, a failed fetch, and the tables
\* their queries read without being told (Unannounced).
PagesCatchUp == []<>(visible => \A q \in mounted : Fresh(q) \/ unheard[q] # {})

\* A page never goes back to an older state of the tables, but for the list of
\* values, which goes back to what it showed when a drag began that then failed.
KeptLists == [q \in Shown |-> IF q \in ByHand THEN {d.previous : d \in drags} ELSE {}]

Pages == INSTANCE Mirror WITH shown <- data, kept <- KeptLists

NeverOlder == Pages!Spec
=============================================================================
