------------------------------- MODULE Revenue -------------------------------
(***************************************************************************)
(* The revenue report: what ReportsService.revenue selects and what          *)
(* aggregateRevenue and aggregateRevenueByPlan make of it, as the pages       *)
(* "Receitas" (six months up to the chosen one) and "Dashboard" (everything) *)
(* ask for it.  Months are numbered and amounts are in cents, so that the     *)
(* rounding to cents changes nothing but the average.                        *)
(***************************************************************************)
EXTENDS Integers, FiniteSets, Functions

CONSTANTS
    Months,      \* months with sales
    ReportMonths,  \* months that a report may be about
    Amounts, Plans,
    MaxBook,     \* bound on the sales
    NotInstalled, NoReport

ASSUME RevenueAssumption == Months \cup ReportMonths \cup Amounts \subseteq Int

VARIABLES
    book,        \* the sales
    asked,       \* the request: reference month, window and what a sale counts by
    report

revenueVars == <<book, asked, report>>

SixMonthWindow(month) == (month - 5)..month

SumAmount(sales) == SumFunction([s \in sales |-> s.amount])

-----------------------------------------------------------------------------
(* The selection. *)

\* A report that counts every sale by the month it was made in.
CountedBySaleMonth(dateBy, s) == s.month

CountedMonth(dateBy, s) ==
    IF dateBy = "installation" /\ s.installed # NotInstalled THEN s.installed ELSE s.month

\* saleDateWhere: by installation only installed sales count.
Selected(dateBy, window) ==
    {s \in book : IF dateBy = "installation" THEN s.installed # NotInstalled /\ s.installed \in window
                                             ELSE s.month \in window}

-----------------------------------------------------------------------------
(* The figures. *)

Active(sales) == {s \in sales : ~ s.canceled}

Of(dateBy, sales, month) == {s \in sales : CountedMonth(dateBy, s) = month}

PeriodStats(dateBy, sales, month) ==
    LET active == Active(Of(dateBy, sales, month))
    IN  [amount |-> SumAmount(active), count |-> Cardinality(active),
         all |-> Cardinality(Of(dateBy, sales, month))]

\* amount, count and sales in all for a conversion rate; the average is amount
\* by count.
Aggregate(dateBy, sales, month) ==
    [total |-> SumAmount(Active(sales)),
     count |-> Cardinality(Active(sales)),
     all |-> Cardinality(sales),
     month |-> SumAmount(Of(dateBy, Active(sales), month)),
     series |-> [back \in 0..5 |-> SumAmount(Of(dateBy, Active(sales), month - back))],
     current |-> PeriodStats(dateBy, sales, month),
     previous |-> PeriodStats(dateBy, sales, month - 1)]

ByPlan(dateBy, sales, month) ==
    LET active == Of(dateBy, Active(sales), month)
    IN  [p \in {s.plan : s \in active} |->
            [count |-> Cardinality({s \in active : s.plan = p}),
             total |-> SumAmount({s \in active : s.plan = p})]]

Answer(q) ==
    LET sales == Selected(q.dateBy, q.window)
    IN  [figures |-> Aggregate(q.dateBy, sales, q.month),
         plans |-> ByPlan(q.dateBy, sales, q.month)]

-----------------------------------------------------------------------------

Sell(month, installed, canceled, amount, plan) ==
    /\ Cardinality(book) < MaxBook
    /\ installed = NotInstalled \/ installed \in {month, month + 1}
    /\ book' = book \cup {[nr |-> Cardinality(book), month |-> month, installed |-> installed,
                           canceled |-> canceled, amount |-> amount, plan |-> plan]}
    /\ report' = NoReport /\ asked' = NoReport

Ask(q) ==
    /\ asked' = q
    /\ report' = Answer(q)
    /\ UNCHANGED book

\* "Receitas", for a month and a way to count.
AskReceitas ==
    \E month \in ReportMonths, dateBy \in {"sale", "installation"} :
        Ask([month |-> month, window |-> SixMonthWindow(month), dateBy |-> dateBy])

\* The dashboard asks without a period: the month is the current one.
AskDashboard ==
    \E month \in ReportMonths :
        Ask([month |-> month, window |-> Months \cup {m + 1 : m \in Months}, dateBy |-> "sale"])

RevenueInit == book = {} /\ asked = NoReport /\ report = NoReport

RevenueNext ==
    \/ \E month \in Months, installed \in {NotInstalled} \cup Months, canceled \in BOOLEAN,
          amount \in Amounts, plan \in Plans : Sell(month, installed, canceled, amount, plan)
    \/ AskReceitas \/ AskDashboard

RevenueSpec == RevenueInit /\ [][RevenueNext]_revenueVars

-----------------------------------------------------------------------------
(* Properties. *)

\* The parts of a report agree, by sale and by installation, although each is
\* filtered on its own: the month is the last bar of the chart and the current
\* figure, the plans of the month make it up, the month before is the bar before,
\* and the bars of a six month window make up the total.
ReportAddsUp ==
    report # NoReport =>
        LET f == report.figures
            planTotals == [p \in DOMAIN report.plans |-> report.plans[p].total]
            planCounts == [p \in DOMAIN report.plans |-> report.plans[p].count]
        IN  /\ f.month = f.series[0] /\ f.month = f.current.amount
            /\ f.previous.amount = f.series[1]
            /\ f.month = SumFunction(planTotals)
            /\ f.current.count = SumFunction(planCounts)
            /\ asked.window = SixMonthWindow(asked.month) =>
                   f.total = SumFunction(f.series)
=============================================================================
