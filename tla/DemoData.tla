------------------------------ MODULE DemoData ------------------------------
(***************************************************************************)
(* The history that a demonstration sandbox starts with: buildDemoDataset.   *)
(* The random generator is a free choice, so what is checked holds for every *)
(* seed; a choice from an interval is a choice of one of its ends.           *)
(*                                                                          *)
(* Time is in hours from midnight of the business day, in UTC; a date is its *)
(* midnight.  The business day begins and ends three hours later.            *)
(***************************************************************************)
EXTENDS Integers, Sequences, FiniteSets

CONSTANTS
    DemoCustomers, DemoSellers,
    SaleCount,    \* SALE_COUNT
    DaysAgo,      \* the ages of sales that the generator may draw
    NowHours,     \* the hours at which the set may be built
    Never         \* null

ASSUME DemoAssumption ==
    /\ SaleCount \in Nat /\ DaysAgo \subseteq Nat
    /\ NowHours \subseteq 3..26
    /\ Never \notin Int

VARIABLES
    now,
    demoSales,    \* the sales drawn so far, with what their rows say
    demoLogs,     \* their audit logs
    firstSaleAt,  \* customer -> the date his record is created at
    notified,     \* the notifications
    imported,     \* the sales that the import batch claims
    built

demoVars == <<now, demoSales, demoLogs, firstSaleAt, notified, imported, built>>

Lesser(a, b) == IF a <= b THEN a ELSE b

RandomInt(min, max) == {min, max}

DateOf(daysAgo) == - 24 * daysAgo

AddDays(date, days) == date + 24 * days

-----------------------------------------------------------------------------
(* One sale: how it went since. *)

\* Changes drawn up to the very day of today.
ChangesUntilToday(daysAgo, most, hour) ==
    {AddDays(DateOf(daysAgo), n) + hour : n \in RandomInt(1, Lesser(most, daysAgo))}

Changes(daysAgo, most, hour) ==
    {AddDays(DateOf(daysAgo), n) + hour : n \in RandomInt(1, Lesser(most, daysAgo - 1))}

Canceled(daysAgo) ==
    {[status |-> "CANCELADA", changedAt |-> c, installedAt |-> Never, scheduleDate |-> Never] :
        c \in IF daysAgo > 2 THEN Changes(daysAgo, 10, 18) ELSE {}}

Installations(daysAgo) ==
    LET dates == {AddDays(DateOf(daysAgo), n) : n \in RandomInt(2, Lesser(10, daysAgo - 1))}
    IN  IF daysAgo >= 20 THEN dates
        ELSE {Never} \cup (IF daysAgo >= 7 THEN dates ELSE {})

\* "AG. BIOMETRIA" is as "AG_INSTALACAO" (AG. INSTALACAO) here.
StatusChanges(daysAgo) ==
    {[status |-> "GROSS", changedAt |-> Never]}
    \cup {[status |-> "AG_INSTALACAO", changedAt |-> c] :
             c \in IF daysAgo < 2 THEN {} ELSE Changes(daysAgo, 5, 17)}

Kept(daysAgo) ==
    {[status |-> s.status, changedAt |-> s.changedAt, installedAt |-> i,
      scheduleDate |-> IF i = Never THEN AddDays(0, n) ELSE Never] :
        s \in StatusChanges(daysAgo), i \in Installations(daysAgo), n \in RandomInt(1, 7)}

SaleOutcome(daysAgo) == Canceled(daysAgo) \cup Kept(daysAgo)

\* What the row of the sale says of it.
OutcomeFields(o) ==
    [canceledAt |-> IF o.status = "CANCELADA" THEN o.changedAt ELSE Never,
     installedAt |-> o.installedAt, scheduleDate |-> o.scheduleDate,
     brscan |-> o.installedAt # Never,
     audited |-> o.installedAt # Never]

\* The sales come in the order of their dates, the oldest first.
Sorted(daysAgo) ==
    \A i \in DOMAIN demoSales : demoSales[i].daysAgo >= daysAgo

Draw(daysAgo, hour, customer, seller, o) ==
    LET date == DateOf(daysAgo)
        createdAt == Lesser(date + hour, now)
        sale == [nr |-> Len(demoSales) + 1, daysAgo |-> daysAgo, date |-> date,
                 createdAt |-> createdAt, customer |-> customer, seller |-> seller,
                 status |-> o.status, changedAt |-> o.changedAt, row |-> OutcomeFields(o)]
    IN  /\ Len(demoSales) < SaleCount /\ Sorted(daysAgo)
        /\ demoSales' = Append(demoSales, sale)
        /\ firstSaleAt' = IF firstSaleAt[customer] = Never
                          THEN [firstSaleAt EXCEPT ![customer] = createdAt] ELSE firstSaleAt
        /\ demoLogs' = demoLogs
              \cup {[sale |-> sale.nr, from |-> "none", to |-> "GROSS", at |-> createdAt]}
              \cup (IF o.changedAt = Never THEN {}
                    ELSE {[sale |-> sale.nr, from |-> "GROSS", to |-> o.status, at |-> o.changedAt]})
        /\ UNCHANGED <<now, notified, imported, built>>

\* The first sales go to one customer after the other, the rest to anybody.
DrawSale ==
    \E daysAgo \in DaysAgo, hour \in RandomInt(11, 21), seller \in DemoSellers :
        \E customer \in LET fresh == {c \in DemoCustomers : firstSaleAt[c] = Never}
                        IN  IF fresh = {} THEN DemoCustomers ELSE {CHOOSE c \in fresh : TRUE} :
            \E o \in SaleOutcome(daysAgo) : Draw(daysAgo, hour, customer, seller, o)

-----------------------------------------------------------------------------
(* What is told about the sales. *)

AllSales == {demoSales[i] : i \in DOMAIN demoSales}

\* Watchers hear of the last sales, one seller of the changes to his.
SaleNotices(seller) ==
    {[about |-> s.nr, kind |-> "create", at |-> s.createdAt] :
        s \in {x \in AllSales : x.nr > Len(demoSales) - 8}}
    \cup {[about |-> s.nr, kind |-> IF s.status = "CANCELADA" THEN "cancel" ELSE "status",
           at |-> s.changedAt] :
             s \in {x \in AllSales : x.seller = seller /\ x.changedAt # Never}}

DueNotice == [about |-> 0, kind |-> "due", at |-> Lesser(11, now)]

ImportedAt == AddDays(0, -30) + 13

\* The batch of a month ago holds the last sales before it.
Imported == {s.nr : s \in {x \in AllSales : x.createdAt < ImportedAt}}

Finish(seller) ==
    /\ Len(demoSales) = SaleCount /\ ~ built
    /\ notified' = SaleNotices(seller) \cup {DueNotice}
    /\ imported' = Imported
    /\ built' = TRUE
    /\ UNCHANGED <<now, demoSales, demoLogs, firstSaleAt>>

DemoInit ==
    /\ now \in NowHours
    /\ demoSales = <<>> /\ demoLogs = {}
    /\ firstSaleAt = [c \in DemoCustomers |-> Never]
    /\ notified = {} /\ imported = {} /\ built = FALSE

DemoNext == DrawSale \/ \E seller \in DemoSellers : Finish(seller)

DemoSpec == DemoInit /\ [][DemoNext]_demoVars

-----------------------------------------------------------------------------
(* Properties. *)

\* "Changes happen before today so no event lands in the future": whenever the
\* set is built and whatever is drawn, what the records, the logs and the
\* notifications tell of as past has happened, each sale in its order, and what
\* is planned is yet to come.
NothingAhead ==
    /\ \A s \in AllSales :
           /\ s.createdAt <= now
           /\ s.changedAt # Never => s.createdAt < s.changedAt /\ s.changedAt < 0
           /\ s.row.installedAt # Never => s.date < s.row.installedAt /\ s.row.installedAt < 0
           /\ s.row.scheduleDate # Never => now < s.row.scheduleDate + 3
    /\ \A n \in notified : n.at <= now
    /\ \A i \in imported : demoSales[i].createdAt < now

\* The records agree with each other: a sale is canceled, installed or planned,
\* its logs lead from its creation to its status, and a customer is not newer
\* than the day of any of his sales.
RecordsAgree ==
    \A s \in AllSales :
        /\ Cardinality({f \in {"canceledAt", "installedAt", "scheduleDate"} : s.row[f] # Never}) = 1
        /\ s.row.canceledAt # Never <=> s.status = "CANCELADA"
        /\ \E l \in demoLogs : l.sale = s.nr /\ l.to = s.status
                               /\ \A k \in demoLogs : k.sale = s.nr => k.at <= l.at
        /\ firstSaleAt[s.customer] < AddDays(s.date, 1)

DemoHistory == NothingAhead /\ RecordsAgree
=============================================================================
