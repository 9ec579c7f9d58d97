------------------------------- MODULE Sales -------------------------------
(***************************************************************************)
(* The life of a sale under concurrent HTTP requests: SalesService of       *)
(* apps/api/src/sales/sales.service.ts with the audit trail it writes       *)
(* (audit.service.ts) and the notifications it sends                        *)
(* (notifications.service.ts).                                              *)
(*                                                                          *)
(* Every handler is asynchronous: it reads the sale, checks it, writes it,  *)
(* writes the audit entry and then the notifications, and each of these is  *)
(* a separate database call.  Between two of them other requests run.  A    *)
(* request is therefore a small state machine (pc) that carries the rows it *)
(* read.                                                                    *)
(***************************************************************************)
EXTENDS Naturals, FiniteSets

CONSTANTS
    Users,          \* user ids
    SaleIds,        \* sale ids, stored or still to be created
    Statuses,       \* domain values of type SALE_STATUS
    Canceled,       \* the SALE_STATUS value CANCELADA
    Plans,          \* plan ids
    PlanMin,        \* PlanMin[p], the minPrice plan p has at first
    PlanMax,        \* PlanMax[p], the basePrice plan p has at first
    PlanEdits,      \* the PATCH /plans calls that may change a price range
    Amounts,        \* sale amounts a client may ask for
    Requests,       \* HTTP requests, each answered once
    Inputs,         \* the calls the requests may carry
    Perms,          \* Perms[u], the permissions of u (a super admin has them all)
    Watchers,       \* users holding notifications.all_sales
    NULL,           \* SQL NULL, "nobody" and "no such row"
    Keep,           \* a DTO field that is left out (undefined)
    EarlierRows,    \* rows of sales stored before the requests arrive
    MaxSettings,    \* bound on the changes of the settings tables
    MaxFaults       \* bound on restarts and failed audit or notification writes

Ops == {"create", "update", "status", "seller", "cancel", "brscan", "audit"}

\* One call: the operation, who makes it, on which sale, and the DTO.
Dto   == [op        : Ops,
          actor     : Users,
          sale      : SaleIds,
          status    : Statuses \cup {Keep},
          seller    : Users \cup {Keep},
          plan      : Plans \cup {NULL, Keep},
          amount    : Amounts \cup {Keep},
          brscan    : BOOLEAN \cup {Keep},
          auditNote : BOOLEAN \cup {Keep}]

\* The DTOs validation lets through carry the fields their operation requires.
Complete(c) ==
    /\ c.op = "create" => c.amount # Keep /\ c.status # Keep
    /\ c.op = "status" => c.status # Keep
    /\ c.op = "seller" => c.seller # Keep
    /\ c.op = "brscan" => c.brscan # Keep
    /\ c.op = "audit"  => c.auditNote # Keep

Input == {c \in Dto : Complete(c)}

\* A row of table Sale.  canceledBy stands for the three columns one cancel
\* call fills (canceledById, cancelReason, canceledAt): the request that did.
Sale == [status     : Statuses,
         seller     : Users,
         plan       : Plans,
         amount     : Amounts,
         brscan     : BOOLEAN,
         auditNote  : BOOLEAN,
         canceledBy : Requests \cup {NULL}]

Fields == {"status", "seller", "plan", "amount", "brscan", "auditNote", "canceledBy"}

\* A PATCH /plans/:id: either end of the range may be left out.
PlanEdit == [plan : Plans, minPrice : Nat \cup {Keep}, basePrice : Nat \cup {Keep}]

ASSUME SalesAssumption ==
    /\ Canceled \in Statuses
    /\ Amounts \subseteq Nat
    /\ PlanMin \in [Plans -> Nat]
    /\ PlanMax \in [Plans -> Nat]
    /\ PlanEdits \subseteq PlanEdit
    /\ Inputs \subseteq Input
    /\ Watchers \subseteq Users
    /\ \A row \in EarlierRows : row \in Sale /\ row.canceledBy = NULL
    /\ NULL \notin Sale
    /\ NULL \notin Plans
    /\ NULL \notin Requests
    /\ Keep \notin Statuses /\ Keep \notin Users /\ Keep \notin Plans
    /\ Keep \notin Amounts /\ Keep \notin BOOLEAN /\ Keep \notin Sale /\ Keep # NULL
    /\ MaxSettings \in Nat
    /\ MaxFaults \in Nat

VARIABLES
    store,       \* store[s]: the row of sale s, or NULL
    active,      \* the active plans and SALE_STATUS values
    minPrice,    \* minPrice[p], the least a sale of plan p may cost now
    basePrice,   \* basePrice[p], the most
    editing,     \* the PATCH /plans calls checked and not yet written
    eligible,    \* users who may be the SELLER of a sale (sale-people.ts)
    call,        \* call[r]: what request r asks for
    pc,          \* pc[r]: how far r has come
    before,      \* before[r]: the row detail() gave r
    base,        \* base[r]: the row r's audit diff starts from
    after,       \* after[r]: the row r's write returned
    log,         \* table AuditLog
    told,        \* told[s]: users with a notification about s
    settings,    \* how often the settings were changed
    faults,      \* how many faults there were
    replaced,    \* history variable: the row r's write really replaced
    raced,       \* history variable: requests whose write replaced a row they had not read
    doubtful,    \* history variable: sales whose price nobody checked against the range of today
    outdated,    \* history variable: requests whose plan changed its range after their check
    unaudited,   \* history variable: requests whose audit entry was not written
    unheard      \* history variable: requests whose notifications were not written

tables  == <<store, log, told>>
ranges  == <<minPrice, basePrice, editing>>
checks  == <<active, ranges, eligible, settings>>
reads   == <<before, base, after>>
priced  == <<doubtful, outdated>>
ghosts  == <<replaced, raced, priced, unaudited, unheard>>
vars    == <<store, active, minPrice, basePrice, editing, eligible, call, pc,
             before, base, after, log, told, settings, faults, replaced, raced,
             doubtful, outdated, unaudited, unheard>>

Phases   == {"new", "read", "checked", "stored", "written", "audited",
             "done", "refused", "lost"}
InFlight == {"read", "checked", "stored", "written", "audited"}
Wrote(r) == replaced[r] # Keep

-----------------------------------------------------------------------------
\* What the code computes from a call and a row.

Given(value, current) == IF value = Keep THEN current ELSE value

\* Without sales.view_all only one's own sales are visible.
Visible(c, row) ==
    \/ "sales.view_all" \in Perms[c.actor]
    \/ row.seller = c.actor

Needed == [update |-> "sales.edit", status |-> "sales.change_status",
           seller |-> "sales.change_seller", cancel |-> "sales.change_status",
           brscan |-> "sales.audit", audit |-> "sales.audit"]

\* update(): a brscan equal to the one that was read is not a change, and is
\* then not written either.
BrscanChanged(c, row) == c.brscan # Keep /\ c.brscan # row.brscan

\* Mutant of NextBrscan: a brscan equal to the one that was read is written too.
NextBrscanBlind(c, old, current) == Given(c.brscan, current)

NextBrscan(c, old, current) == IF BrscanChanged(c, old) THEN c.brscan ELSE current

\* The seller of a new sale: the actor unless another one is named.
NewSeller(c) == Given(c.seller, c.actor)

\* Mutant of MayChange: cancel() does not look at canceledAt.
MayChangeAgain(c, row) ==
    /\ Visible(c, row)
    /\ Needed[c.op] \in Perms[c.actor]
    /\ c.op = "update" /\ BrscanChanged(c, row) => "sales.audit" \in Perms[c.actor]

\* Refusals that depend on the call and on the row just read.
MayChange(c, row) ==
    /\ Visible(c, row)
    /\ Needed[c.op] \in Perms[c.actor]
    /\ c.op = "update" /\ BrscanChanged(c, row) => "sales.audit" \in Perms[c.actor]
    /\ c.op = "cancel" => row.canceledBy = NULL

\* assertAmountInRange
InRange(plan, amount) == minPrice[plan] <= amount /\ amount <= basePrice[plan]

\* Mutant of PriceAccepted: the base price is no limit.
PriceAcceptedAbove(plan, amount) ==
    /\ plan # NULL
    /\ plan \in active
    /\ minPrice[plan] <= amount

PriceAccepted(plan, amount) ==
    /\ plan # NULL
    /\ plan \in active
    /\ InRange(plan, amount)

\* The calls whose price is checked, and the plan it is checked with.
Prices(c) ==
    \/ c.op = "create"
    \/ c.op = "update" /\ ~(c.plan = Keep /\ c.amount = Keep)
PlanChecked(r) == Given(call[r].plan, before[r].plan)

\* Refusals that depend on the settings tables as they are now.
Accepted(c, row) ==
    CASE c.op = "create" ->
            /\ PriceAccepted(c.plan, c.amount)
            /\ c.status \in active
            /\ NewSeller(c) # c.actor =>
                   /\ "sales.change_seller" \in Perms[c.actor]
                   /\ NewSeller(c) \in eligible
      [] c.op = "update" ->
            /\ Given(c.plan, row.plan) # NULL
            /\ Prices(c) => PriceAccepted(Given(c.plan, row.plan), Given(c.amount, row.amount))
      [] c.op = "status" -> c.status \in active
      [] c.op = "seller" -> c.seller # row.seller => c.seller \in eligible
      [] c.op = "cancel" -> Canceled \in active
      [] OTHER -> TRUE

\* The row a write leaves: `row` is the stored one, `old` the one read before.
Result(r, row, old) ==
    LET c == call[r] IN
    CASE c.op = "create" ->
            [status |-> c.status, seller |-> NewSeller(c), plan |-> c.plan,
             amount |-> c.amount, brscan |-> Given(c.brscan, FALSE),
             auditNote |-> Given(c.auditNote, FALSE), canceledBy |-> NULL]
      [] c.op = "update" ->
            [row EXCEPT !.plan      = Given(c.plan, @),
                        !.amount    = Given(c.amount, @),
                        !.brscan    = NextBrscan(c, old, @),
                        !.auditNote = Given(c.auditNote, @)]
      [] c.op = "status" -> [row EXCEPT !.status = c.status]
      [] c.op = "seller" -> [row EXCEPT !.seller = c.seller]
      [] c.op = "cancel" -> [row EXCEPT !.status = Canceled, !.canceledBy = r]
      [] c.op = "brscan" -> [row EXCEPT !.brscan = c.brscan]
      [] OTHER -> [row EXCEPT !.auditNote = c.auditNote]

\* computeDiff: the fields whose value differs, with both values.
Diff(from, to, fields) ==
    [f \in {g \in fields : from[g] # to[g]} |-> <<from[f], to[f]>>]

\* Mutant of Audited: the entry of a cancel leaves the old status out.
AuditedNoStatus(op) ==
    CASE op = "create" -> {"status", "seller", "amount"}
      [] op = "update" -> {"status", "plan", "amount", "brscan"}
      [] op = "status" -> {"status"}
      [] op = "seller" -> {"seller"}
      [] op = "cancel" -> {"canceledBy"}
      [] op = "brscan" -> {"brscan"}
      [] OTHER         -> {"auditNote"}

\* The fields a handler gives to audit.record; for an update those of
\* AUDITED_SALE_FIELDS, which auditNote is not one of.
Audited(op) ==
    CASE op = "create" -> {"status", "seller", "amount"}
      [] op = "update" -> {"status", "plan", "amount", "brscan"}
      [] op = "status" -> {"status"}
      [] op = "seller" -> {"seller"}
      [] op = "cancel" -> {"status", "canceledBy"}
      [] op = "brscan" -> {"brscan"}
      [] OTHER         -> {"auditNote"}

Entry(r, diff) == [req |-> r, sale |-> call[r].sale, diff |-> diff]

\* A create entry has no `before`: each of its fields comes from nothing.
EntryOf(r) ==
    Entry(r, IF call[r].op = "create"
             THEN [f \in Audited("create") |-> <<NULL, after[r][f]>>]
             ELSE Diff(base[r], after[r], Audited(call[r].op)))

\* Mutant of Recipients: the new seller of a sale is left out.
RecipientsOld(r) ==
    LET c == call[r] IN
    CASE c.op = "create" -> {NewSeller(c)} \cup (Watchers \ {c.actor})
      [] c.op \in {"update", "seller", "status", "cancel"} -> {before[r].seller} \cup Watchers
      [] OTHER -> {}

\* notifyNewSale and notifySaleChange; the marks of an audit notify nobody.
Recipients(r) ==
    LET c == call[r] IN
    CASE c.op = "create" -> {NewSeller(c)} \cup (Watchers \ {c.actor})
      [] c.op = "seller" -> {c.seller, before[r].seller} \cup Watchers
      [] c.op \in {"update", "status", "cancel"} -> {before[r].seller} \cup Watchers
      [] OTHER -> {}

-----------------------------------------------------------------------------
FreshIds(calls) ==
    \A r \in Requests : calls[r].op = "create" =>
        \A q \in Requests \ {r} : calls[q].op = "create" => calls[q].sale # calls[r].sale

\* Sales of earlier days are stored and their sellers know of them; those whose
\* plan changed its range since may lie outside it.
Init ==
    /\ call \in {calls \in [Requests -> Inputs] : FreshIds(calls)}
    /\ store \in [SaleIds -> EarlierRows \cup {NULL}]
    /\ \A s \in SaleIds :
        store[s] = NULL <=> \E r \in Requests : call[r].op = "create" /\ call[r].sale = s
    /\ active = Plans \cup Statuses
    /\ minPrice = PlanMin
    /\ basePrice = PlanMax
    /\ editing = {}
    /\ eligible = Users
    /\ pc = [r \in Requests |-> "new"]
    /\ before = [r \in Requests |-> NULL]
    /\ base = [r \in Requests |-> NULL]
    /\ after = [r \in Requests |-> NULL]
    /\ log = {}
    /\ told = [s \in SaleIds |-> IF store[s] = NULL THEN {} ELSE {store[s].seller}]
    /\ settings = 0
    /\ faults = 0
    /\ replaced = [r \in Requests |-> Keep]
    /\ raced = {}
    /\ doubtful = {s \in SaleIds : store[s] # NULL /\ ~InRange(store[s].plan, store[s].amount)}
    /\ outdated = {}
    /\ unaudited = {}
    /\ unheard = {}

Row(r) == store[call[r].sale]

\* detail() and the checks that need nothing but its row.  A create reads no
\* sale: it goes straight to the settings.
Read(r) ==
    /\ pc[r] = "new"
    /\ IF call[r].op = "create"
       THEN /\ pc' = [pc EXCEPT ![r] = "read"]
            /\ UNCHANGED before
       ELSE /\ before' = [before EXCEPT ![r] = Row(r)]
            /\ pc' = [pc EXCEPT ![r] = IF Row(r) # NULL /\ MayChange(call[r], Row(r))
                                       THEN "read" ELSE "refused"]
    /\ UNCHANGED <<tables, checks, call, base, after, faults, ghosts>>

\* The lookups of the plan, the domain values and the eligible people.
Check(r) ==
    /\ pc[r] = "read"
    /\ pc' = [pc EXCEPT ![r] = IF Accepted(call[r], before[r]) THEN "checked" ELSE "refused"]
    /\ base' = [base EXCEPT ![r] = before[r]]
    /\ UNCHANGED <<tables, checks, call, before, after, faults, ghosts>>

\* update() reads the row once more, for its audit entry alone.
Reread(r) ==
    /\ pc[r] = "checked"
    /\ call[r].op = "update"
    /\ base' = [base EXCEPT ![r] = Row(r)]
    /\ pc' = [pc EXCEPT ![r] = "stored"]
    /\ UNCHANGED <<tables, checks, call, before, after, faults, ghosts>>

ReadyToWrite(r) == pc[r] = IF call[r].op = "update" THEN "stored" ELSE "checked"

\* update() checks the plan and the amount of the row it read: by now the half
\* it leaves alone may be another.
StalePrice(r) ==
    /\ call[r].op = "update"
    /\ \/ call[r].plan = Keep /\ Row(r).plan # before[r].plan
       \/ call[r].amount = Keep /\ Row(r).amount # before[r].amount

\* prisma.sale.create or prisma.sale.update: one statement on the row as it is.
Write(r) ==
    /\ ReadyToWrite(r)
    /\ LET new == Result(r, Row(r), before[r]) IN
        /\ store' = [store EXCEPT ![call[r].sale] = new]
        /\ after' = [after EXCEPT ![r] = new]
    /\ replaced' = [replaced EXCEPT ![r] = Row(r)]
    /\ raced' = IF Row(r) = before[r] /\ Row(r) = base[r] THEN raced ELSE raced \cup {r}
    /\ doubtful' = IF ~Prices(call[r]) THEN doubtful
                   ELSE IF r \in outdated \/ StalePrice(r) THEN doubtful \cup {call[r].sale}
                   ELSE doubtful \ {call[r].sale}
    /\ pc' = [pc EXCEPT ![r] = "written"]
    /\ UNCHANGED <<log, told, checks, call, before, base, faults, outdated, unaudited, unheard>>

\* audit.record; a failure is logged and swallowed.
Audit(r) ==
    /\ pc[r] = "written"
    /\ pc' = [pc EXCEPT ![r] = "audited"]
    /\ \/ /\ log' = log \cup {EntryOf(r)}
          /\ UNCHANGED <<faults, unaudited>>
       \/ /\ faults < MaxFaults
          /\ faults' = faults + 1
          /\ unaudited' = unaudited \cup {r}
          /\ UNCHANGED log
    /\ UNCHANGED <<store, told, checks, call, reads, replaced, raced, priced, unheard>>

\* The notifications, and the answer; a failure is logged and swallowed.
Notify(r) ==
    /\ pc[r] = "audited"
    /\ pc' = [pc EXCEPT ![r] = "done"]
    /\ \/ /\ told' = [told EXCEPT ![call[r].sale] = @ \cup Recipients(r)]
          /\ UNCHANGED <<faults, unheard>>
       \/ /\ faults < MaxFaults
          /\ faults' = faults + 1
          /\ unheard' = unheard \cup {r}
          /\ UNCHANGED told
    /\ UNCHANGED <<store, log, checks, call, reads, replaced, raced, priced, unaudited>>

\* The process restarts: what was in flight is never answered.
Restart ==
    /\ faults < MaxFaults
    /\ editing # {} \/ \E r \in Requests : pc[r] \in InFlight
    /\ faults' = faults + 1
    /\ pc' = [r \in Requests |-> IF pc[r] \in InFlight THEN "lost" ELSE pc[r]]
    /\ editing' = {}
    /\ UNCHANGED <<tables, active, minPrice, basePrice, eligible, settings, call, reads, ghosts>>

\* An administrator (de)activates a plan or a domain value.
ToggleActive ==
    /\ settings < MaxSettings
    /\ settings' = settings + 1
    /\ \E v \in Plans \cup Statuses :
        active' = IF v \in active THEN active \ {v} ELSE active \cup {v}
    /\ UNCHANGED <<tables, ranges, eligible, call, pc, reads, faults, ghosts>>

\* PATCH /plans/:id: the range the plan would have is read and checked ...
ReadPlan(d) ==
    /\ settings < MaxSettings
    /\ d \notin editing
    /\ Given(d.minPrice, minPrice[d.plan]) <= Given(d.basePrice, basePrice[d.plan])
    /\ settings' = settings + 1
    /\ editing' = editing \cup {d}
    /\ UNCHANGED <<tables, active, minPrice, basePrice, eligible, call, pc, reads, faults, ghosts>>

\* ... and then the ends that were given are written.  The sales of the plan
\* keep their prices, and requests past their check do not look again.
WritePlan(d) ==
    /\ d \in editing
    /\ editing' = editing \ {d}
    /\ minPrice' = [minPrice EXCEPT ![d.plan] = Given(d.minPrice, @)]
    /\ basePrice' = [basePrice EXCEPT ![d.plan] = Given(d.basePrice, @)]
    /\ doubtful' = doubtful \cup {s \in SaleIds : store[s] # NULL /\ store[s].plan = d.plan}
    /\ outdated' = outdated \cup {r \in Requests : /\ pc[r] \in {"checked", "stored"}
                                                  /\ Prices(call[r])
                                                  /\ PlanChecked(r) = d.plan}
    /\ UNCHANGED <<tables, active, eligible, settings, call, pc, reads, faults,
                   replaced, raced, unaudited, unheard>>

\* A user's status or role changes, and with it who may be a seller.
ToggleEligible ==
    /\ settings < MaxSettings
    /\ settings' = settings + 1
    /\ \E u \in Users :
        eligible' = IF u \in eligible THEN eligible \ {u} ELSE eligible \cup {u}
    /\ UNCHANGED <<tables, active, ranges, call, pc, reads, faults, ghosts>>

Handle(r) == Read(r) \/ Check(r) \/ Reread(r) \/ Write(r) \/ Audit(r) \/ Notify(r)

Next ==
    \/ \E r \in Requests : Handle(r)
    \/ Restart
    \/ ToggleActive
    \/ \E d \in PlanEdits : ReadPlan(d) \/ WritePlan(d)
    \/ ToggleEligible

Spec == Init /\ [][Next]_vars

-----------------------------------------------------------------------------
TypeOK ==
    /\ store \in [SaleIds -> Sale \cup {NULL}]
    /\ active \subseteq Plans \cup Statuses
    /\ minPrice \in [Plans -> Nat]
    /\ basePrice \in [Plans -> Nat]
    /\ editing \subseteq PlanEdits
    /\ eligible \subseteq Users
    /\ call \in [Requests -> Inputs]
    /\ pc \in [Requests -> Phases]
    /\ before \in [Requests -> Sale \cup {NULL}]
    /\ base \in [Requests -> Sale \cup {NULL}]
    /\ after \in [Requests -> Sale \cup {NULL}]
    /\ \A e \in log : e.req \in Requests /\ e.sale = call[e.req].sale
    /\ told \in [SaleIds -> SUBSET Users]
    /\ settings \in 0..MaxSettings
    /\ faults \in 0..MaxFaults
    /\ replaced \in [Requests -> Sale \cup {NULL, Keep}]
    /\ raced \subseteq Requests
    /\ doubtful \subseteq SaleIds
    /\ outdated \subseteq Requests
    /\ unaudited \subseteq Requests
    /\ unheard \subseteq Requests

\* The price of a sale fits the range its plan has now, whatever plans, prices
\* and ranges changed meanwhile, unless nobody checked it: the range was edited
\* after the sale was priced, or between the check and the write of the request
\* that priced it, or that request set one half of a plan and an amount whose
\* other half another request had changed since it read it.  The next request
\* that prices the sale unhindered puts it right.
PriceInRange ==
    \A s \in SaleIds : store[s] # NULL /\ s \notin doubtful =>
        InRange(store[s].plan, store[s].amount)

\* A sale is canceled by one request, unless a second one had read it before
\* the first one wrote: cancel() tests canceledAt of the row it read.
CanceledOnce ==
    \A r, q \in Requests :
        /\ r # q /\ Wrote(r) /\ Wrote(q)
        /\ call[r].op = "cancel" /\ call[q].op = "cancel"
        /\ call[r].sale = call[q].sale
        => r \in raced \/ q \in raced

\* An edit of the sale that carries auditNote: it is written, not audited.
MarksByEdit(r) == call[r].op = "update" /\ call[r].auditNote # Keep

\* The history tells exactly what a request did to the sale, whatever else
\* ran at the same time on other sales, unless the audit write failed, the
\* request wrote over a row it had not read, or it is an edit of auditNote.
HistoryExact ==
    \A r \in Requests \ (raced \cup unaudited) :
        pc[r] \in {"audited", "done"} /\ call[r].op # "create" /\ ~MarksByEdit(r) =>
            Entry(r, Diff(replaced[r], after[r], Fields)) \in log

\* Everyone who is the seller of a sale has heard about it: as the seller it
\* was registered for, or as the new or the old one of a change of seller.
\* Excepted are the requests whose notifications are still to be written,
\* failed, or were lost in a restart.
SellerHears ==
    \A s \in SaleIds : store[s] # NULL =>
        \/ store[s].seller \in told[s]
        \/ \E r \in Requests :
            /\ Wrote(r) /\ call[r].sale = s
            /\ after[r].seller = store[s].seller
            /\ pc[r] \in {"written", "audited", "lost"} \/ r \in unheard

\* BRScan of a stored sale changes by the hand of an auditor only, however the
\* requests interleave: update() may carry the field for anybody, and leaves
\* it out of the write when it equals the value it read.
BrscanStep ==
    \A s \in SaleIds :
        store[s] # NULL /\ store'[s].brscan # store[s].brscan =>
            \E r \in Requests :
                /\ pc[r] # "written" /\ pc'[r] = "written"
                /\ call[r].sale = s
                /\ "sales.audit" \in Perms[call[r].actor]
BrscanByAuditors == [][BrscanStep]_vars
=============================================================================
