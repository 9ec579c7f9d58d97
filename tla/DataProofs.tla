----------------------------- MODULE DataProofs -----------------------------
(* Theorems about what is computed from the data: the revenue report, for any  *)
(* book of sales; the way of a line through the pending file, for any text;    *)
(* and the history of a demonstration, for any drawing: Revenue, PendingCsv    *)
(* and DemoData.                                                              *)
EXTENDS Revenue, PendingCsv, DemoData, Lemmas

-----------------------------------------------------------------------------
(* Revenue. *)

Bookings ==
    [nr : Nat, month : Int, installed : {NotInstalled} \cup Int, canceled : BOOLEAN,
     amount : Int, plan : Plans]

\* The sales that a report may count, and the month of each is a number.
Countable(dateBy, sales) ==
    /\ IsFiniteSet(sales)
    /\ \A s \in sales : s.amount \in Int /\ CountedMonth(dateBy, s) \in Int

Questions ==
    [month : Int, window : SUBSET Int, dateBy : {"sale", "installation"}]

\* A report answers the last question from the sales as they are.
Answered == report # NoReport => asked \in Questions /\ report = Answer(asked)

RevenueInv ==
    /\ IsFiniteSet(book)
    /\ book \subseteq Bookings
    /\ Answered

-----------------------------------------------------------------------------
\* The sum of the amounts of some of the sales, by a fold over those alone or
\* over all of them.
LEMMA SumOfAmounts ==
    ASSUME NEW sales, IsFiniteSet(sales), \A s \in sales : s.amount \in Int,
           NEW part \in SUBSET sales
    PROVE  SumAmount(part) = SumFunctionOnSet([s \in sales |-> s.amount], part)
<1>1. IsFiniteSet(part)
  BY FS_Subset
<1> DEFINE all == [s \in sales |-> s.amount]
           own == [s \in part |-> s.amount]
<1>2. \A s \in part : own[s] \in Int /\ own[s] = all[s]
  OBVIOUS
<1>3. SumAmount(part) = SumFunctionOnSet(own, part)
  <2>1. DOMAIN own = part
    OBVIOUS
  <2> HIDE DEF own
  <2>2. SumFunction(own) = SumFunctionOnSet(own, part)
    BY <2>1 DEF SumFunction
  <2> QED
    BY <2>2 DEF own, SumAmount
<1> HIDE DEF all, own
<1> QED
  BY <1>1, <1>2, <1>3, SumSame DEF all

\* The sums over the parts that a key makes of the sales make up their sum.
LEMMA SumOfParts ==
    ASSUME NEW sales, IsFiniteSet(sales), \A s \in sales : s.amount \in Int,
           NEW K, IsFiniteSet(K), NEW key, NEW parts, Divides(key, parts, sales, K),
           NEW totals, DOMAIN totals = K, \A k \in K : totals[k] = SumAmount(parts[k])
    PROVE  SumAmount(sales) = SumFunction(totals)
<1>p. \A k \in K : parts[k] \in SUBSET sales
  BY DEF Divides
<1> DEFINE all == [s \in sales |-> s.amount]
<1>1. \A s \in sales : all[s] \in Int
  OBVIOUS
<1>2. \A k \in K : totals[k] = SumFunctionOnSet(all, parts[k])
  BY <1>p, SumOfAmounts
<1>3. SumAmount(sales) = SumFunctionOnSet(all, sales)
  BY SumOfAmounts
<1> HIDE DEF all
<1>4. SumFunctionOnSet(all, sales) = SumFunctionOnSet(totals, K)
  BY <1>1, <1>2, SumByKey
<1> QED
  BY <1>3, <1>4 DEF SumFunction

LEMMA CountOfParts ==
    ASSUME NEW sales, IsFiniteSet(sales),
           NEW K, IsFiniteSet(K), NEW key, NEW parts, Divides(key, parts, sales, K),
           NEW counts, DOMAIN counts = K, \A k \in K : counts[k] = Cardinality(parts[k])
    PROVE  Cardinality(sales) = SumFunction(counts)
<1>p. \A k \in K : parts[k] \in SUBSET sales
  BY DEF Divides
<1> DEFINE ones == [s \in sales |-> 1]
<1>1. \A s \in sales : ones[s] \in Int /\ ones[s] = 1
  OBVIOUS
<1> HIDE DEF ones
<1>2. \A k \in K : counts[k] = SumFunctionOnSet(ones, parts[k])
  <2> TAKE k \in K
  <2>1. IsFiniteSet(parts[k]) /\ \A s \in parts[k] : ones[s] = 1
    BY <1>1, <1>p, FS_Subset
  <2>2. SumFunctionOnSet(ones, parts[k]) = Cardinality(parts[k])
    BY <2>1, SumOfOnes
  <2> QED
    BY <1>p, <2>2
<1>3. Cardinality(sales) = SumFunctionOnSet(ones, sales)
  BY <1>1, SumOfOnes
<1>4. SumFunctionOnSet(ones, sales) = SumFunctionOnSet(counts, K)
  BY <1>1, <1>2, SumByKey
<1> QED
  BY <1>3, <1>4 DEF SumFunction

-----------------------------------------------------------------------------
LEMMA RevenueInitInv == RevenueInit => RevenueInv
BY FS_EmptySet DEF RevenueInit, RevenueInv, Answered

LEMMA SellInv ==
    ASSUME RevenueInv, NEW month \in Months, NEW installed \in {NotInstalled} \cup Months,
           NEW canceled \in BOOLEAN, NEW amount \in Amounts, NEW plan \in Plans,
           Sell(month, installed, canceled, amount, plan)
    PROVE  RevenueInv'
<1> DEFINE sale == [nr |-> Cardinality(book), month |-> month, installed |-> installed,
                    canceled |-> canceled, amount |-> amount, plan |-> plan]
<1>1. book' = book \cup {sale} /\ report' = NoReport
  BY DEF Sell
<1>2. Cardinality(book) \in Nat
  BY FS_CardinalityType DEF RevenueInv
<1>3. sale \in Bookings
  BY <1>2, RevenueAssumption DEF Bookings
<1>4. IsFiniteSet(book')
  BY <1>1, FS_AddElement DEF RevenueInv
<1>5. book' \subseteq Bookings
  BY <1>1, <1>3 DEF RevenueInv
<1> QED
  BY <1>1, <1>4, <1>5 DEF RevenueInv, Answered

LEMMA AskInv ==
    ASSUME RevenueInv, NEW q \in Questions, Ask(q)
    PROVE  RevenueInv'
<1>1. book' = book /\ asked' = q /\ report' = Answer(q)
  BY DEF Ask
<1>2. Answer(q) = Answer(asked)'
  BY <1>1 DEF Answer, Selected
<1> QED
  BY <1>1, <1>2 DEF RevenueInv, Answered

LEMMA RevenueNextInv == RevenueInv /\ [RevenueNext]_revenueVars => RevenueInv'
<1> SUFFICES ASSUME RevenueInv, [RevenueNext]_revenueVars PROVE RevenueInv'
  OBVIOUS
<1>1. ASSUME NEW month \in Months, NEW installed \in {NotInstalled} \cup Months,
             NEW canceled \in BOOLEAN, NEW amount \in Amounts, NEW plan \in Plans,
             Sell(month, installed, canceled, amount, plan)
      PROVE  RevenueInv'
  BY <1>1, SellInv
<1>2. CASE AskReceitas
  <2>1. PICK month \in ReportMonths, dateBy \in {"sale", "installation"} :
            Ask([month |-> month, window |-> SixMonthWindow(month), dateBy |-> dateBy])
    BY <1>2 DEF AskReceitas
  <2> DEFINE q == [month |-> month, window |-> SixMonthWindow(month), dateBy |-> dateBy]
  <2>2. q \in Questions
    BY RevenueAssumption DEF Questions, SixMonthWindow
  <2> QED
    BY <2>1, <2>2, AskInv
<1>3. CASE AskDashboard
  <2>1. PICK month \in ReportMonths :
            Ask([month |-> month, window |-> Months \cup {m + 1 : m \in Months}, dateBy |-> "sale"])
    BY <1>3 DEF AskDashboard
  <2> DEFINE q == [month |-> month, window |-> Months \cup {m + 1 : m \in Months}, dateBy |-> "sale"]
  <2>2. q \in Questions
    BY RevenueAssumption DEF Questions
  <2> QED
    BY <2>1, <2>2, AskInv
<1>4. CASE UNCHANGED revenueVars
  BY <1>4 DEF revenueVars, RevenueInv, Answered, Answer, Selected
<1> QED
  BY <1>1, <1>2, <1>3, <1>4 DEF RevenueNext

-----------------------------------------------------------------------------
\* What a report selects is finite, with amounts and months that are numbers; by
\* the chosen window every sale counts in one of its months.
LEMMA SelectedIs ==
    ASSUME RevenueInv, NEW dateBy \in {"sale", "installation"}, NEW window \in SUBSET Int
    PROVE  /\ Countable(dateBy, Selected(dateBy, window))
           /\ \A s \in Selected(dateBy, window) : CountedMonth(dateBy, s) \in window
<1>1. IsFiniteSet(Selected(dateBy, window))
  BY FS_Subset DEF RevenueInv, Selected
<1>2. \A s \in Selected(dateBy, window) :
          s.amount \in Int /\ CountedMonth(dateBy, s) \in window
  BY DEF RevenueInv, Bookings, Selected, CountedMonth
<1> QED
  BY <1>1, <1>2 DEF Countable

LEMMA CountableParts ==
    ASSUME NEW dateBy, NEW sales, Countable(dateBy, sales), NEW month
    PROVE  /\ Countable(dateBy, Active(sales))
           /\ Countable(dateBy, Of(dateBy, sales, month))
BY FS_Subset DEF Countable, Active, Of

\* The plans of a month make it up.
LEMMA PlansAddUp ==
    ASSUME NEW dateBy, NEW sales, Countable(dateBy, sales), NEW month,
           NEW totals, NEW counts,
           totals = [p \in DOMAIN ByPlan(dateBy, sales, month) |->
                        ByPlan(dateBy, sales, month)[p].total],
           counts = [p \in DOMAIN ByPlan(dateBy, sales, month) |->
                        ByPlan(dateBy, sales, month)[p].count]
    PROVE  /\ SumAmount(Of(dateBy, Active(sales), month)) = SumFunction(totals)
           /\ Cardinality(Of(dateBy, Active(sales), month)) = SumFunction(counts)
<1> DEFINE active == Of(dateBy, Active(sales), month)
           K == {s.plan : s \in active}
           key == [s \in active |-> s.plan]
           parts == [p \in K |-> {s \in active : s.plan = p}]
<1>1. IsFiniteSet(active) /\ \A s \in active : s.amount \in Int
  BY CountableParts DEF Countable
<1>2. /\ DOMAIN totals = K /\ DOMAIN counts = K
      /\ \A p \in K : totals[p] = SumAmount(parts[p])
      /\ \A p \in K : counts[p] = Cardinality(parts[p])
  BY DEF ByPlan
<1> HIDE DEF active
<1>3. Divides(key, parts, active, K)
  <2>1. /\ key \in [active -> K] /\ parts \in [K -> SUBSET active]
        /\ \A p \in K : \A s \in active : s \in parts[p] <=> key[s] = p
    OBVIOUS
  <2> HIDE DEF key, parts, K
  <2> QED
    BY <2>1 DEF Divides
<1>4. IsFiniteSet(K)
  <2>1. key \in Surjection(active, K)
    BY DEF Surjection
  <2> HIDE DEF key, K
  <2> QED
    BY <1>1, <2>1, FS_Surjection
<1> HIDE DEF K, key, parts
<1>5. SumAmount(active) = SumFunction(totals)
  BY <1>1, <1>2, <1>3, <1>4, SumOfParts
<1>6. Cardinality(active) = SumFunction(counts)
  BY <1>1, <1>2, <1>3, <1>4, CountOfParts
<1> QED
  BY <1>5, <1>6 DEF active

\* The months of a window of six make it up.
LEMMA MonthsAddUp ==
    ASSUME NEW dateBy, NEW sales, Countable(dateBy, sales), NEW month \in Int,
           \A s \in sales : CountedMonth(dateBy, s) \in SixMonthWindow(month),
           NEW series, DOMAIN series = 0..5,
           \A ago \in 0..5 : series[ago] = SumAmount(Of(dateBy, Active(sales), month - ago))
    PROVE  SumAmount(Active(sales)) = SumFunction(series)
<1> DEFINE active == Active(sales)
           K == 0..5
           key == [s \in active |-> month - CountedMonth(dateBy, s)]
           parts == [ago \in K |-> Of(dateBy, active, month - ago)]
<1>1. IsFiniteSet(active) /\ \A s \in active : s.amount \in Int
  BY CountableParts DEF Countable
<1>2. \A s \in active : CountedMonth(dateBy, s) \in Int /\ CountedMonth(dateBy, s) \in (month - 5)..month
  BY DEF Active, Countable, SixMonthWindow
<1>3. DOMAIN series = K /\ \A ago \in K : series[ago] = SumAmount(parts[ago])
  OBVIOUS
<1> HIDE DEF active
<1>4. key \in [active -> K]
  BY <1>2
<1>5. parts \in [K -> SUBSET active]
  BY DEF Of
<1>6. \A ago \in K : \A s \in active : s \in parts[ago] <=> key[s] = ago
  BY <1>2 DEF Of
<1>7. IsFiniteSet(K)
  <2>1. \A a, b \in Int : IsFiniteSet(a..b)
    BY FS_Interval
  <2>2. 0 \in Int /\ 5 \in Int
    OBVIOUS
  <2> QED
    BY <2>1, <2>2, Zenon
<1> HIDE DEF K, key, parts
<1>8. Divides(key, parts, active, K)
  BY <1>4, <1>5, <1>6 DEF Divides
<1>9. SumAmount(active) = SumFunction(series)
  BY <1>1, <1>3, <1>7, <1>8, SumOfParts
<1> QED
  BY <1>9 DEF active

\* An answered report adds up.
LEMMA AnswersAddUp == RevenueInv => ReportAddsUp
<1> SUFFICES ASSUME RevenueInv, report # NoReport PROVE ReportAddsUp
  BY DEF ReportAddsUp
<1>1. asked \in Questions /\ report = Answer(asked)
  BY DEF RevenueInv, Answered
<1> DEFINE month == asked.month
           dateBy == asked.dateBy
           sales == Selected(dateBy, asked.window)
           f == report.figures
           totals == [p \in DOMAIN report.plans |-> report.plans[p].total]
           counts == [p \in DOMAIN report.plans |-> report.plans[p].count]
<1>2. month \in Int /\ dateBy \in {"sale", "installation"} /\ asked.window \in SUBSET Int
  BY <1>1 DEF Questions
<1>3. f = Aggregate(dateBy, sales, month) /\ report.plans = ByPlan(dateBy, sales, month)
  BY <1>1 DEF Answer
<1>4. /\ Countable(dateBy, sales)
      /\ \A s \in sales : CountedMonth(dateBy, s) \in asked.window
  BY <1>2, SelectedIs
<1>5. /\ f.month = SumAmount(Of(dateBy, Active(sales), month))
      /\ f.total = SumAmount(Active(sales))
      /\ f.series = [ago \in 0..5 |-> SumAmount(Of(dateBy, Active(sales), month - ago))]
      /\ f.current = PeriodStats(dateBy, sales, month)
      /\ f.previous = PeriodStats(dateBy, sales, month - 1)
  BY <1>3 DEF Aggregate
<1>6. \A m \in Int : /\ PeriodStats(dateBy, sales, m).amount = SumAmount(Of(dateBy, Active(sales), m))
                     /\ PeriodStats(dateBy, sales, m).count = Cardinality(Of(dateBy, Active(sales), m))
  <2>1. \A m \in Int : Active(Of(dateBy, sales, m)) = Of(dateBy, Active(sales), m)
    BY DEF Active, Of
  <2> QED
    BY <2>1 DEF PeriodStats
<1>7. totals = [p \in DOMAIN ByPlan(dateBy, sales, month) |-> ByPlan(dateBy, sales, month)[p].total]
  BY <1>3
<1>8. counts = [p \in DOMAIN ByPlan(dateBy, sales, month) |-> ByPlan(dateBy, sales, month)[p].count]
  BY <1>3
<1> HIDE DEF sales, dateBy, month, totals, counts, f
<1>9. f.month = f.series[0] /\ f.month = f.current.amount /\ f.previous.amount = f.series[1]
  BY <1>2, <1>5, <1>6
<1>10. f.month = SumFunction(totals) /\ f.current.count = SumFunction(counts)
  <2>1. /\ SumAmount(Of(dateBy, Active(sales), month)) = SumFunction(totals)
        /\ Cardinality(Of(dateBy, Active(sales), month)) = SumFunction(counts)
    BY <1>4, <1>7, <1>8, PlansAddUp
  <2> QED
    BY <1>2, <1>5, <1>6, <2>1
<1>11. asked.window = SixMonthWindow(asked.month) => f.total = SumFunction(f.series)
  BY <1>2, <1>4, <1>5, MonthsAddUp DEF month
<1> QED
  BY <1>9, <1>10, <1>11 DEF ReportAddsUp, f, totals, counts

\* However many sales a book has, and whichever month and way to count a page asks
\* for, the parts of the report that the code computes on their own agree.
THEOREM ReportAddsUpHolds == RevenueSpec => []ReportAddsUp
<1>1. RevenueInit => RevenueInv
  BY RevenueInitInv
<1>2. RevenueInv /\ [RevenueNext]_revenueVars => RevenueInv'
  BY RevenueNextInv
<1>3. RevenueInv => ReportAddsUp
  BY AnswersAddUp
<1> QED
  BY <1>1, <1>2, <1>3, PTL DEF RevenueSpec

-----------------------------------------------------------------------------
(* PendingCsv: one cell. *)

Texts == Seq(Characters)

\* Neither end is white.
Trimmed(cell) == cell # <<>> => cell[1] \notin White /\ cell[Len(cell)] \notin White

\* What the reader makes of a cell: trimmed, and not a guarded formula.
CleanCells ==
    {cell \in Texts : Trimmed(cell) /\ ~ (/\ Len(cell) > 1 /\ cell[1] = Apostrophe
                                          /\ cell[2] \in {Equals, Minus})}

LEMMA CleanEmpty == CleanCell(<<>>) = <<>>
BY DEF CleanCell

LEMMA CleanIs ==
    ASSUME NEW cell \in Texts
    PROVE  CleanCell(cell) \in Texts /\ Trimmed(CleanCell(cell))
<1> DEFINE solid == {i \in DOMAIN cell : cell[i] \notin White}
<1>1. Len(cell) \in Nat /\ DOMAIN cell = 1..Len(cell)
  BY DEF Texts
<1>2. CASE solid = {}
  BY <1>2, EmptySeq DEF CleanCell, Texts, Trimmed
<1>3. CASE solid # {}
  <2>1. solid \in SUBSET Nat /\ \A y \in solid : y <= Len(cell)
    BY <1>1
  <2> HIDE DEF solid
  <2>2. \E x \in solid : \A y \in solid : x <= y
    BY <1>3, <2>1, Least
  <2>3. \E x \in solid : \A y \in solid : y <= x
    BY <1>1, <1>3, <2>1, Greatest
  <2> DEFINE lo == Min(solid)
             hi == Max(solid)
  <2>4. lo \in solid /\ \A y \in solid : lo <= y
    BY <2>2 DEF Min
  <2>5. hi \in solid
    <3>1. \E x \in solid : \A y \in solid : x >= y
      BY <2>1, <2>3
    <3> QED
      BY <3>1 DEF Max
  <2> HIDE DEF lo, hi
  <2>6. /\ lo \in 1..Len(cell) /\ hi \in 1..Len(cell) /\ lo <= hi
        /\ cell[lo] \notin White /\ cell[hi] \notin White
    BY <1>1, <2>4, <2>5 DEF solid
  <2> DEFINE clean == SubSeq(cell, lo, hi)
  <2>7. CleanCell(cell) = clean
    BY <1>3 DEF CleanCell, lo, hi, solid
  <2>8. lo \in Int /\ hi \in Int /\ \A i \in lo..hi : cell[i] \in Characters
    BY <1>1, <2>6 DEF Texts
  <2>9. /\ clean \in Texts /\ Len(clean) = hi - lo + 1
        /\ \A i \in 1..(hi - lo + 1) : clean[i] = cell[lo + i - 1]
    BY <2>6, <2>8, SubSeqProperties DEF Texts
  <2> HIDE DEF clean
  <2>10. clean[1] = cell[lo] /\ clean[Len(clean)] = cell[hi]
    BY <1>1, <2>6, <2>9
  <2> QED
    BY <2>6, <2>7, <2>9, <2>10 DEF Trimmed
<1> QED
  BY <1>2, <1>3

\* A trimmed cell stays as it is.
LEMMA CleanSame ==
    ASSUME NEW cell \in Texts, Trimmed(cell)
    PROVE  CleanCell(cell) = cell
<1> DEFINE solid == {i \in DOMAIN cell : cell[i] \notin White}
<1>1. Len(cell) \in Nat /\ DOMAIN cell = 1..Len(cell) /\ (cell # <<>> => Len(cell) # 0)
  BY DEF Texts
<1>2. CASE cell = <<>>
  BY <1>2, CleanEmpty
<1>3. CASE cell # <<>>
  <2>1. 1 \in solid /\ Len(cell) \in solid /\ \A i \in solid : i \in 1..Len(cell)
    BY <1>1, <1>3 DEF Trimmed
  <2> HIDE DEF solid
  <2>2. Min(solid) = 1 /\ Max(solid) = Len(cell)
    BY <1>1, <2>1 DEF Min, Max
  <2>3. CleanCell(cell) = SubSeq(cell, 1, Len(cell))
    BY <2>1, <2>2 DEF CleanCell, solid
  <2> QED
    BY <2>3, SubSeqFull DEF Texts
<1> QED
  BY <1>2, <1>3

\* What the reader makes of any text between separators.
LEMMA CellIsClean ==
    ASSUME NEW cell \in Texts
    PROVE  UnguardFormula(CleanCell(cell)) \in CleanCells
<1> DEFINE clean == CleanCell(cell)
<1>1. clean \in Texts /\ Trimmed(clean)
  BY CleanIs
<1> HIDE DEF clean
<1>2. CASE Len(clean) > 1 /\ clean[1] = Apostrophe /\ clean[2] \in {Equals, Minus}
  <2> DEFINE rest == Tail(clean)
  <2>1. clean # <<>> /\ Len(clean) \in Nat
    BY <1>1, <1>2, EmptySeq DEF Texts
  <2>2. /\ rest \in Texts /\ Len(rest) = Len(clean) - 1
        /\ \A i \in 1..Len(rest) : rest[i] = clean[i + 1]
    BY <1>1, <2>1, HeadTailProperties DEF Texts
  <2> HIDE DEF rest
  <2>3. rest[1] = clean[2] /\ rest[Len(rest)] = clean[Len(clean)]
    BY <1>2, <2>1, <2>2
  <2>4. clean[2] \notin White /\ clean[2] # Apostrophe /\ clean[Len(clean)] \notin White
    BY <1>1, <1>2, <2>1 DEF Trimmed, White, Equals, Minus, Apostrophe, NewLine, Return
  <2>5. rest \in CleanCells
    BY <2>2, <2>3, <2>4 DEF CleanCells, Trimmed
  <2> QED
    BY <1>2, <2>5 DEF UnguardFormula, clean, rest
<1>3. CASE ~ (Len(clean) > 1 /\ clean[1] = Apostrophe /\ clean[2] \in {Equals, Minus})
  BY <1>1, <1>3 DEF UnguardFormula, CleanCells, clean
<1> QED
  BY <1>2, <1>3

LEMMA GuardIs ==
    ASSUME NEW cell \in Texts
    PROVE  /\ GuardFormula(cell) \in Texts
           /\ \/ GuardFormula(cell) = cell
              \/ /\ cell # <<>> /\ cell[1] \in {Equals, Minus}
                 /\ Len(GuardFormula(cell)) = Len(cell) + 1
                 /\ GuardFormula(cell)[1] = Apostrophe
                 /\ \A i \in 1..Len(cell) : GuardFormula(cell)[i + 1] = cell[i]
<1>1. CASE cell # <<>> /\ (cell[1] = Equals \/ (cell[1] = Minus /\ Len(cell) > 1 /\ cell[2] \notin Digits))
  <2>1. GuardFormula(cell) = <<Apostrophe>> \o cell
    BY <1>1 DEF GuardFormula
  <2>2. <<Apostrophe>> \in Texts
    BY DEF Texts, Characters, Special
  <2> DEFINE mark == <<Apostrophe>>
             both == mark \o cell
  <2>3. Len(mark) = 1 /\ mark[1] = Apostrophe /\ Len(cell) \in Nat
    BY DEF Texts
  <2> HIDE DEF mark
  <2>4. both \in Texts /\ Len(both) = 1 + Len(cell) /\ Stands(both, 0, mark) /\ Stands(both, 1, cell)
    BY <2>2, <2>3, StandsConcat DEF Texts, mark
  <2>5. both[1] = Apostrophe /\ \A i \in 1..Len(cell) : both[1 + i] = cell[i]
    BY <2>3, <2>4 DEF Stands
  <2> HIDE DEF both
  <2>6. GuardFormula(cell) = both
    BY <2>1 DEF both, mark
  <2>7. \A i \in 1..Len(cell) : both[i + 1] = cell[i]
    BY <2>3, <2>5
  <2> QED
    BY <1>1, <2>3, <2>4, <2>5, <2>6, <2>7
<1>2. CASE ~ (cell # <<>> /\ (cell[1] = Equals \/ (cell[1] = Minus /\ Len(cell) > 1 /\ cell[2] \notin Digits)))
  BY <1>2 DEF GuardFormula
<1> QED
  BY <1>1, <1>2

\* What a written cell reads back as.
ReadBack(cell) == UnguardFormula(CleanCell(GuardFormula(cell)))

\* The reader is the inverse of the guard.
LEMMA GuardInverse ==
    ASSUME NEW cell \in CleanCells
    PROVE  ReadBack(cell) = cell
<1> DEFINE g == GuardFormula(cell)
<1>1. cell \in Texts /\ Trimmed(cell) /\ Len(cell) \in Nat
  BY DEF CleanCells, Texts
<1>2. CASE g = cell
  BY <1>1, <1>2, CleanSame DEF ReadBack, UnguardFormula, CleanCells
<1>3. CASE g # cell
  <2>1. /\ g \in Texts /\ cell # <<>> /\ cell[1] \in {Equals, Minus}
        /\ Len(g) = Len(cell) + 1 /\ g[1] = Apostrophe
        /\ \A i \in 1..Len(cell) : g[i + 1] = cell[i]
    BY <1>1, <1>3, GuardIs
  <2> HIDE DEF g
  <2>2. Len(cell) # 0 /\ Len(cell) \in 1..Len(cell) /\ 1 \in 1..Len(cell)
    BY <1>1, <2>1, EmptySeq DEF Texts
  <2>3. g # <<>> /\ Len(g) > 1 /\ g[Len(g)] = cell[Len(cell)] /\ g[2] = cell[1]
    BY <1>1, <2>1, <2>2, EmptySeq DEF Texts
  <2>4. Apostrophe \notin White
    BY DEF White, Apostrophe, NewLine, Return
  <2>5. Trimmed(g)
    BY <1>1, <2>1, <2>3, <2>4 DEF Trimmed
  <2>6. CleanCell(g) = g
    BY <2>1, <2>5, CleanSame
  <2>7. UnguardFormula(g) = Tail(g)
    BY <2>1, <2>3 DEF UnguardFormula
  <2> DEFINE rest == Tail(g)
  <2>8. /\ rest \in Texts /\ Len(rest) = Len(g) - 1
        /\ \A i \in 1..Len(rest) : rest[i] = g[i + 1]
    BY <2>1, <2>3, HeadTailProperties DEF Texts
  <2> HIDE DEF rest
  <2>9. Len(rest) = Len(cell) /\ \A i \in 1..Len(cell) : rest[i] = cell[i]
    BY <1>1, <2>1, <2>8
  <2>10. rest = cell
    BY <1>1, <2>8, <2>9, SeqEqual DEF Texts
  <2> QED
    BY <2>6, <2>7, <2>10 DEF ReadBack, g, rest
<1> QED
  BY <1>2, <1>3

-----------------------------------------------------------------------------
(* PendingCsv: the reader. *)

Lines == Seq(Seq(CleanCells))

Readers ==
    [rows : Lines, cells : Seq(CleanCells), cell : Texts, quoted : BOOLEAN, inQuotes : BOOLEAN,
     skip : BOOLEAN]

\* Where the reader is.
At(s, rows, cells, cell, quoted, inQuotes, skip) ==
    /\ s \in Readers
    /\ s.rows = rows /\ s.cells = cells /\ s.cell = cell
    /\ s.quoted = quoted /\ s.inQuotes = inQuotes /\ s.skip = skip

\* Before a cell.
Before(s, rows, cells) == At(s, rows, cells, <<>>, FALSE, FALSE, FALSE)

LEMMA ReaderAt == Before(Reader, <<>>, <<>>)
BY EmptySeq DEF Reader, Before, At, Readers, Lines, Texts

LEMMA AtTyped ==
    ASSUME NEW s, NEW rows, NEW cells, NEW cell, NEW quoted, NEW inQuotes, NEW skip,
           At(s, rows, cells, cell, quoted, inQuotes, skip)
    PROVE  /\ s \in Readers /\ rows \in Lines /\ cells \in Seq(CleanCells) /\ cell \in Texts
           /\ quoted \in BOOLEAN /\ inQuotes \in BOOLEAN /\ skip \in BOOLEAN
BY DEF At, Readers

NoData(cells) == \A i \in DOMAIN cells : cells[i] = <<>>

\* What adding a character, the end of a cell and the end of a line do.
LEMMA AddAt ==
    ASSUME NEW s, NEW rows, NEW cells, NEW cell, NEW quoted, NEW inQuotes, NEW skip,
           At(s, rows, cells, cell, quoted, inQuotes, skip), NEW char \in Characters
    PROVE  At(Add(s, char), rows, cells, Append(cell, char), quoted, inQuotes, skip)
<1> DEFINE more == Append(cell, char)
<1>1. more \in Texts
  BY AtTyped, AppendProperties DEF Texts
<1>2. s.cell = cell
  BY DEF At
<1>3. Add(s, char) = [s EXCEPT !.cell = more]
  BY <1>2 DEF Add
<1> HIDE DEF more
<1>4. At([s EXCEPT !.cell = more], rows, cells, more, quoted, inQuotes, skip)
  BY <1>1 DEF At, Readers
<1> QED
  BY <1>3, <1>4 DEF more

LEMMA EndCellAt ==
    ASSUME NEW s, NEW rows, NEW cells, NEW cell, NEW quoted, NEW inQuotes, NEW skip,
           At(s, rows, cells, cell, quoted, inQuotes, skip)
    PROVE  At(EndCell(s), rows, Append(cells, UnguardFormula(CleanCell(cell))), <<>>, FALSE, inQuotes, skip)
<1> DEFINE clean == UnguardFormula(CleanCell(cell))
           all == Append(cells, clean)
<1>1. clean \in CleanCells /\ cells \in Seq(CleanCells)
  BY AtTyped, CellIsClean
<1>2. s.cell = cell /\ s.cells = cells
  BY DEF At
<1>3. EndCell(s) = [s EXCEPT !.cells = all, !.cell = <<>>, !.quoted = FALSE]
  BY <1>2 DEF EndCell
<1> HIDE DEF clean
<1>4. all \in Seq(CleanCells) /\ <<>> \in Texts
  BY <1>1, AppendProperties, EmptySeq DEF Texts
<1> HIDE DEF all
<1>5. At([s EXCEPT !.cells = all, !.cell = <<>>, !.quoted = FALSE], rows, all, <<>>, FALSE, inQuotes, skip)
  BY <1>4 DEF At, Readers
<1> QED
  BY <1>3, <1>5 DEF all, clean

LEMMA EndLineAt ==
    ASSUME NEW s, NEW rows, NEW cells, NEW cell, NEW quoted, NEW inQuotes, NEW skip,
           At(s, rows, cells, cell, quoted, inQuotes, skip),
           NEW all, all = Append(cells, UnguardFormula(CleanCell(cell)))
    PROVE  At(EndLine(s), IF NoData(all) THEN rows ELSE Append(rows, all), <<>>, <<>>, FALSE, inQuotes, skip)
<1> DEFINE e == EndCell(s)
           more == IF NoData(all) THEN rows ELSE Append(rows, all)
<1>1. At(e, rows, all, <<>>, FALSE, inQuotes, skip)
  BY EndCellAt, Zenon
<1>2. EndLine(s) = [e EXCEPT !.rows = IF NoData(e.cells) THEN e.rows ELSE Append(e.rows, e.cells),
                             !.cells = <<>>]
  BY DEF EndLine, NoData
<1> HIDE DEF e
<1>3. e.cells = all /\ e.rows = rows
  BY <1>1 DEF At
<1>4. EndLine(s) = [e EXCEPT !.rows = more, !.cells = <<>>]
  BY <1>2, <1>3, Zenon
<1>5. all \in Seq(CleanCells) /\ rows \in Lines
  BY <1>1, AtTyped
<1>6. more \in Lines /\ <<>> \in Seq(CleanCells)
  BY <1>5, AppendProperties, EmptySeq DEF Lines
<1> HIDE DEF more
<1>7. At([e EXCEPT !.rows = more, !.cells = <<>>], more, <<>>, <<>>, FALSE, inQuotes, skip)
  BY <1>1, <1>6 DEF At, Readers
<1> QED
  BY <1>4, <1>7 DEF more

\* What one character does, by where the reader is.
LEMMA ReadSkipped ==
    ASSUME NEW s, NEW rows, NEW cells, NEW cell, NEW quoted, NEW inQuotes,
           At(s, rows, cells, cell, quoted, inQuotes, TRUE), NEW char, NEW next
    PROVE  At(Read(s, char, next), rows, cells, cell, quoted, inQuotes, FALSE)
<1>1. Read(s, char, next) = [s EXCEPT !.skip = FALSE]
  BY DEF Read, At
<1>2. At([s EXCEPT !.skip = FALSE], rows, cells, cell, quoted, inQuotes, FALSE)
  BY DEF At, Readers
<1> QED
  BY <1>1, <1>2

LEMMA ReadInQuotes ==
    ASSUME NEW s, NEW rows, NEW cells, NEW cell, NEW quoted,
           At(s, rows, cells, cell, quoted, TRUE, FALSE), NEW char \in Characters, NEW next
    PROVE  /\ char # Quote =>
                  At(Read(s, char, next), rows, cells, Append(cell, char), quoted, TRUE, FALSE)
           /\ char = Quote /\ next = Quote =>
                  At(Read(s, char, next), rows, cells, Append(cell, Quote), quoted, TRUE, TRUE)
           /\ char = Quote /\ next # Quote =>
                  At(Read(s, char, next), rows, cells, cell, quoted, FALSE, FALSE)
<1>1. ~ s.skip /\ s.inQuotes
  BY DEF At
<1>2. Read(s, char, next) = IF char # Quote THEN Add(s, char)
                            ELSE IF next = Quote THEN [Add(s, Quote) EXCEPT !.skip = TRUE]
                            ELSE [s EXCEPT !.inQuotes = FALSE]
  BY <1>1 DEF Read
<1>3. ASSUME char # Quote
      PROVE  At(Read(s, char, next), rows, cells, Append(cell, char), quoted, TRUE, FALSE)
  <2>1. Read(s, char, next) = Add(s, char)
    BY <1>2, <1>3
  <2> QED
    BY <2>1, AddAt, Zenon
<1>4. ASSUME char = Quote, next = Quote
      PROVE  At(Read(s, char, next), rows, cells, Append(cell, Quote), quoted, TRUE, TRUE)
  <2> DEFINE a == Add(s, Quote)
             more == Append(cell, Quote)
  <2>1. Read(s, char, next) = [a EXCEPT !.skip = TRUE]
    BY <1>2, <1>4
  <2>2. At(a, rows, cells, more, quoted, TRUE, FALSE)
    BY <1>4, AddAt, Zenon
  <2> HIDE DEF a, more
  <2>3. At([a EXCEPT !.skip = TRUE], rows, cells, more, quoted, TRUE, TRUE)
    BY <2>2 DEF At, Readers
  <2> QED
    BY <2>1, <2>3 DEF more
<1>5. ASSUME char = Quote, next # Quote
      PROVE  At(Read(s, char, next), rows, cells, cell, quoted, FALSE, FALSE)
  <2>1. Read(s, char, next) = [s EXCEPT !.inQuotes = FALSE]
    BY <1>2, <1>5
  <2>2. At([s EXCEPT !.inQuotes = FALSE], rows, cells, cell, quoted, FALSE, FALSE)
    BY DEF At, Readers
  <2> QED
    BY <2>1, <2>2
<1> QED
  BY <1>3, <1>4, <1>5, Zenon

\* The character opens quotes.
Opens(char, cell, quoted) == char = Quote /\ ~ quoted /\ CleanCell(cell) = <<>>

\* The character belongs to an unquoted cell.
Plain(char, next, cell, quoted) ==
    /\ ~ Opens(char, cell, quoted)
    /\ char \notin {Separator, NewLine} /\ ~ (char = Return /\ next = NewLine)

LEMMA ReadOutside ==
    ASSUME NEW s, NEW rows, NEW cells, NEW cell, NEW quoted,
           At(s, rows, cells, cell, quoted, FALSE, FALSE), NEW char \in Characters, NEW next
    PROVE  /\ Opens(char, cell, quoted) =>
                  At(Read(s, char, next), rows, cells, <<>>, TRUE, TRUE, FALSE)
           /\ char = Separator => Read(s, char, next) = EndCell(s)
           /\ char = NewLine => Read(s, char, next) = EndLine(s)
           /\ char = Return /\ next = NewLine => Read(s, char, next) = s
           /\ Plain(char, next, cell, quoted) =>
                  At(Read(s, char, next), rows, cells, Append(cell, char), quoted, FALSE, FALSE)
<1>1. ~ s.skip /\ ~ s.inQuotes /\ s.quoted = quoted /\ s.cell = cell
  BY DEF At
<1>2. Read(s, char, next) =
          IF Opens(char, cell, quoted) THEN [s EXCEPT !.cell = <<>>, !.quoted = TRUE, !.inQuotes = TRUE]
          ELSE IF char = Separator THEN EndCell(s)
          ELSE IF char = NewLine THEN EndLine(s)
          ELSE IF char = Return /\ next = NewLine THEN s
          ELSE Add(s, char)
  BY <1>1 DEF Read, Opens
<1>3. ASSUME Opens(char, cell, quoted)
      PROVE  At(Read(s, char, next), rows, cells, <<>>, TRUE, TRUE, FALSE)
  <2>1. Read(s, char, next) = [s EXCEPT !.cell = <<>>, !.quoted = TRUE, !.inQuotes = TRUE]
    BY <1>2, <1>3, Zenon
  <2>2. <<>> \in Texts
    BY EmptySeq DEF Texts
  <2>3. At([s EXCEPT !.cell = <<>>, !.quoted = TRUE, !.inQuotes = TRUE], rows, cells, <<>>, TRUE, TRUE, FALSE)
    BY <2>2 DEF At, Readers
  <2> QED
    BY <2>1, <2>3
<1>4. ASSUME char \in {Separator, NewLine, Return} PROVE ~ Opens(char, cell, quoted)
  BY <1>4 DEF Opens, Quote, Separator, NewLine, Return
<1>5. Separator # NewLine /\ Separator # Return /\ NewLine # Return
  BY DEF Separator, NewLine, Return
<1>6. ASSUME Plain(char, next, cell, quoted)
      PROVE  At(Read(s, char, next), rows, cells, Append(cell, char), quoted, FALSE, FALSE)
  <2>1. Read(s, char, next) = Add(s, char)
    BY <1>2, <1>6 DEF Plain
  <2> QED
    BY <2>1, AddAt, Zenon
<1>7. /\ char = Separator => Read(s, char, next) = EndCell(s)
      /\ char = NewLine => Read(s, char, next) = EndLine(s)
      /\ char = Return /\ next = NewLine => Read(s, char, next) = s
  BY <1>2, <1>4, <1>5
<1>8. Plain(char, next, cell, quoted) =>
          At(Read(s, char, next), rows, cells, Append(cell, char), quoted, FALSE, FALSE)
  BY <1>6
<1>9. Opens(char, cell, quoted) => At(Read(s, char, next), rows, cells, <<>>, TRUE, TRUE, FALSE)
  BY <1>3
<1> QED
  BY <1>7, <1>8, <1>9

\* The reader stays a reader.
LEMMA ReadTyped ==
    ASSUME NEW s \in Readers, NEW char \in Characters, NEW next
    PROVE  Read(s, char, next) \in Readers
<1>1. PICK rows, cells, cell, quoted, inQuotes, skip :
          /\ At(s, rows, cells, cell, quoted, inQuotes, skip)
          /\ quoted \in BOOLEAN /\ inQuotes \in BOOLEAN /\ skip \in BOOLEAN
  BY DEF At, Readers
<1>2. \A t, cl, c, q, i, k : At(t, rows, cl, c, q, i, k) => t \in Readers
  BY DEF At
<1>3. CASE skip = TRUE
  <2>1. At(s, rows, cells, cell, quoted, inQuotes, TRUE)
    BY <1>1, <1>3
  <2>2. At(Read(s, char, next), rows, cells, cell, quoted, inQuotes, FALSE)
    BY <2>1, ReadSkipped, Zenon
  <2> QED
    BY <1>2, <2>2, Zenon
<1>4. CASE skip = FALSE /\ inQuotes = TRUE
  <2>1. At(s, rows, cells, cell, quoted, TRUE, FALSE)
    BY <1>1, <1>4
  <2> QED
    BY <1>2, <2>1, ReadInQuotes, Zenon
<1>5. CASE skip = FALSE /\ inQuotes = FALSE
  <2>1. At(s, rows, cells, cell, quoted, FALSE, FALSE)
    BY <1>1, <1>5
  <2> DEFINE all == Append(cells, UnguardFormula(CleanCell(cell)))
  <2>2. EndCell(s) \in Readers
    BY <2>1, EndCellAt, Zenon DEF At
  <2>3. EndLine(s) \in Readers
    <3>1. At(EndLine(s), IF NoData(all) THEN rows ELSE Append(rows, all), <<>>, <<>>, FALSE, FALSE, FALSE)
      BY <2>1, EndLineAt, Zenon
    <3> QED
      BY <3>1 DEF At
  <2> HIDE DEF all
  <2>4. /\ Opens(char, cell, quoted) =>
               At(Read(s, char, next), rows, cells, <<>>, TRUE, TRUE, FALSE)
        /\ char = Separator => Read(s, char, next) = EndCell(s)
        /\ char = NewLine => Read(s, char, next) = EndLine(s)
        /\ char = Return /\ next = NewLine => Read(s, char, next) = s
        /\ Plain(char, next, cell, quoted) =>
               At(Read(s, char, next), rows, cells, Append(cell, char), quoted, FALSE, FALSE)
    BY <2>1, ReadOutside, Zenon
  <2>5. Opens(char, cell, quoted) \/ Plain(char, next, cell, quoted) => Read(s, char, next) \in Readers
    BY <1>2, <2>4
  <2> QED
    BY <2>2, <2>3, <2>4, <2>5 DEF Plain
<1> QED
  BY <1>1, <1>3, <1>4, <1>5

-----------------------------------------------------------------------------
(* PendingCsv: the reader over a text. *)

\* What the reader finds after a character.
NextOf(t, i) == IF i < Len(t) THEN t[i + 1] ELSE EndOfText

\* The function behind the readings of a text, up to a character.
ReadingTo(t, n, it) ==
    it = [i \in 0..n |-> IF i = 0 THEN Reader ELSE Read(it[i - 1], t[i], NextOf(t, i))]

LEMMA ReadingsDef ==
    ASSUME NEW t
    PROVE  Readings(t) = CHOOSE it : ReadingTo(t, Len(t), it)
BY Zenon DEF Readings, ReadingTo, NextOf

LEMMA ReadingToAt ==
    ASSUME NEW t, NEW n \in Nat, NEW it, ReadingTo(t, n, it), NEW i \in 0..n
    PROVE  it[i] = IF i = 0 THEN Reader ELSE Read(it[i - 1], t[i], NextOf(t, i))
<1> DEFINE Value(j) == IF j = 0 THEN Reader ELSE Read(it[j - 1], t[j], NextOf(t, j))
<1>1. it = [j \in 0..n |-> Value(j)]
  BY DEF ReadingTo
<1> HIDE DEF Value
<1>2. it[i] = Value(i)
  BY <1>1, Zenon
<1> QED
  BY <1>2 DEF Value

LEMMA ReadingToExists ==
    ASSUME NEW t, NEW n \in Nat
    PROVE  \E it : ReadingTo(t, n, it)
<1> DEFINE Good == {m \in Nat : \E it : ReadingTo(t, m, it)}
<1>1. 0 \in Good
  <2> DEFINE first == [i \in 0..0 |-> Reader]
  <2>1. \A i \in 0..0 : i = 0
    OBVIOUS
  <2>2. first = [i \in 0..0 |-> IF i = 0 THEN Reader ELSE Read(first[i - 1], t[i], NextOf(t, i))]
    BY <2>1
  <2>3. ReadingTo(t, 0, first)
    BY <2>2 DEF ReadingTo
  <2> QED
    BY <2>3
<1>2. ASSUME NEW m \in Nat, m \in Good PROVE m + 1 \in Good
  <2>1. PICK it : ReadingTo(t, m, it)
    BY <1>2
  <2> DEFINE more == [i \in 0..(m + 1) |->
                         IF i <= m THEN it[i]
                         ELSE IF i = 0 THEN Reader ELSE Read(it[i - 1], t[i], NextOf(t, i))]
  <2>2. \A i \in 0..(m + 1) : i <= m => it[i] = IF i = 0 THEN Reader ELSE Read(it[i - 1], t[i], NextOf(t, i))
    <3> TAKE i \in 0..(m + 1)
    <3> HAVE i <= m
    <3>1. i \in 0..m
      OBVIOUS
    <3> QED
      BY <2>1, <3>1, ReadingToAt
  <2>3. \A i \in 0..(m + 1) : i # 0 => more[i - 1] = it[i - 1]
    OBVIOUS
  <2>4. \A i \in 0..(m + 1) : more[i] = IF i = 0 THEN Reader ELSE Read(more[i - 1], t[i], NextOf(t, i))
    <3> TAKE i \in 0..(m + 1)
    <3>1. more[i] = IF i = 0 THEN Reader ELSE Read(it[i - 1], t[i], NextOf(t, i))
      BY <2>2
    <3> HIDE DEF more
    <3> QED
      BY <2>3, <3>1
  <2>5. more = [i \in 0..(m + 1) |-> IF i = 0 THEN Reader ELSE Read(more[i - 1], t[i], NextOf(t, i))]
    <3>1. more = [i \in 0..(m + 1) |-> more[i]]
      OBVIOUS
    <3> HIDE DEF more
    <3> QED
      BY <2>4, <3>1
  <2> HIDE DEF more
  <2>6. ReadingTo(t, m + 1, more)
    BY <2>5 DEF ReadingTo
  <2> QED
    BY <2>6
<1>3. n \in Good
  <2> HIDE DEF Good
  <2> QED
    BY <1>1, <1>2, EachNumber
<1> QED
  BY <1>3

\* The readings start with the reader at rest and go on by one character each.
LEMMA ReadingsAre ==
    ASSUME NEW t \in Texts
    PROVE  /\ Readings(t)[0] = Reader
           /\ \A i \in 1..Len(t) : Readings(t)[i] = Read(Readings(t)[i - 1], t[i], NextOf(t, i))
<1> DEFINE N == Len(t)
           it == Readings(t)
<1>1. N \in Nat
  BY DEF Texts
<1>2. ReadingTo(t, N, it)
  <2> DEFINE chosen == CHOOSE f : ReadingTo(t, N, f)
  <2>1. ReadingTo(t, N, chosen)
    BY <1>1, ReadingToExists, Zenon
  <2>2. it = chosen
    BY ReadingsDef, Zenon
  <2> HIDE DEF it, chosen
  <2> QED
    BY <2>1, <2>2
<1> HIDE DEF it, N
<1>3. \A i \in 0..N : it[i] = IF i = 0 THEN Reader ELSE Read(it[i - 1], t[i], NextOf(t, i))
  BY <1>1, <1>2, ReadingToAt
<1>4. 0 \in 0..N /\ \A i \in 1..N : i \in 0..N /\ i # 0
  BY <1>1
<1>5. it[0] = Reader
  BY <1>3, <1>4
<1>6. \A i \in 1..N : it[i] = Read(it[i - 1], t[i], NextOf(t, i))
  BY <1>3, <1>4, Zenon
<1> QED
  BY <1>5, <1>6 DEF it, N

LEMMA ReadingsTyped ==
    ASSUME NEW t \in Texts, NEW i \in 0..Len(t)
    PROVE  Readings(t)[i] \in Readers
<1> DEFINE Good == {n \in Nat : n <= Len(t) => Readings(t)[n] \in Readers}
<1>1. Len(t) \in Nat
  BY DEF Texts
<1>2. 0 \in Good
  BY ReadingsAre, ReaderAt DEF Before, At
<1>3. ASSUME NEW n \in Nat, n \in Good PROVE n + 1 \in Good
  <2> SUFFICES ASSUME n + 1 <= Len(t) PROVE Readings(t)[n + 1] \in Readers
    OBVIOUS
  <2> DEFINE k == n + 1
  <2>1. k \in 1..Len(t) /\ k - 1 = n /\ n <= Len(t)
    BY <1>1
  <2>2. t[k] \in Characters
    BY <2>1 DEF Texts
  <2>3. Readings(t)[n] \in Readers
    BY <1>3, <2>1
  <2>4. Readings(t)[k] = Read(Readings(t)[n], t[k], NextOf(t, k))
    BY <2>1, ReadingsAre
  <2> HIDE DEF k
  <2>5. Readings(t)[k] \in Readers
    BY <2>2, <2>3, <2>4, ReadTyped
  <2> QED
    BY <2>5 DEF k
<1>4. \A n \in Nat : n \in Good
  <2> HIDE DEF Good
  <2> QED
    BY <1>2, <1>3, EachNumber
<1> QED
  BY <1>1, <1>4

LEMMA ParseTyped ==
    ASSUME NEW t \in Texts
    PROVE  ParseCsv(t) \in Lines
<1> DEFINE s == Readings(t)[Len(t)]
<1>1. s \in Readers
  <2>1. Len(t) \in 0..Len(t)
    BY DEF Texts
  <2> QED
    BY <2>1, ReadingsTyped
<1> HIDE DEF s
<1>2. PICK rows, cells, cell, quoted, inQuotes, skip :
          At(s, rows, cells, cell, quoted, inQuotes, skip)
  BY <1>1 DEF At, Readers
<1> DEFINE all == Append(cells, UnguardFormula(CleanCell(cell)))
<1>3. At(EndLine(s), IF NoData(all) THEN rows ELSE Append(rows, all), <<>>, <<>>, FALSE, inQuotes, skip)
  BY <1>2, EndLineAt, Zenon
<1> HIDE DEF all
<1>4. EndLine(s).rows \in Lines
  BY <1>3 DEF At, Readers
<1> QED
  BY <1>4 DEF ParseCsv, ReadAll, s

-----------------------------------------------------------------------------
(* PendingCsv: a written cell is read back. *)

LEMMA DoubledTyped ==
    ASSUME NEW char \in Characters
    PROVE  Doubled(char) \in Texts
<1>1. Quote \in Characters
  BY DEF Characters, Special
<1>2. <<Quote, Quote>> \in Seq(Characters) /\ <<char>> \in Seq(Characters)
  BY <1>1
<1> QED
  BY <1>2 DEF Doubled, Texts

\* Where each character of a cell stands, once or twice, between the quotes.
LEMMA QuotedIs ==
    ASSUME NEW cell \in Texts, NEW w, w = Quoted(cell)
    PROVE  /\ w \in Texts
           /\ \E off \in [0..Len(cell) -> Nat] :
                 /\ off[0] = 1 /\ w[1] = Quote
                 /\ Len(w) = off[Len(cell)] + 1 /\ w[off[Len(cell)] + 1] = Quote
                 /\ \A i \in 1..Len(cell) :
                       /\ off[i] = off[i - 1] + Len(Doubled(cell[i]))
                       /\ Stands(w, off[i - 1], Doubled(cell[i]))
<1> DEFINE N == Len(cell)
           parts == [i \in 1..N |-> Doubled(cell[i])]
           body == FlattenSeq(parts)
           mark == <<Quote>>
           front == mark \o body
<1>1. N \in Nat /\ \A i \in 1..N : cell[i] \in Characters
  BY DEF Texts
<1>2. \A i \in 1..N : Doubled(cell[i]) \in Texts
  BY <1>1, DoubledTyped
<1>3. parts \in Seq(Texts) /\ Len(parts) = N /\ \A i \in 1..N : parts[i] = Doubled(cell[i])
  BY <1>1, <1>2, IsASeq
<1> HIDE DEF parts
<1>4. /\ body \in Seq(Characters)
      /\ \E at \in [0..N -> Nat] :
            /\ at[0] = 0 /\ at[N] = Len(body)
            /\ \A i \in 1..N : /\ at[i] = at[i - 1] + Len(parts[i])
                               /\ Stands(body, at[i - 1], parts[i])
  BY <1>3, FlattenIs DEF Texts
<1>5. PICK at \in [0..N -> Nat] :
            /\ at[0] = 0 /\ at[N] = Len(body)
            /\ \A i \in 1..N : /\ at[i] = at[i - 1] + Len(parts[i])
                               /\ Stands(body, at[i - 1], parts[i])
  BY <1>4
<1>6. mark \in Seq(Characters) /\ Len(mark) = 1 /\ mark[1] = Quote
  BY DEF Characters, Special
<1>7. w = front \o mark
  BY DEF Quoted, parts
<1> HIDE DEF N, body, mark
<1>8. /\ front \in Seq(Characters) /\ Len(front) = 1 + Len(body)
      /\ Stands(front, 0, mark) /\ Stands(front, 1, body)
  <2>1. body \in Seq(Characters) /\ mark \in Seq(Characters)
    BY <1>4, <1>6
  <2>2. /\ front \in Seq(Characters) /\ Len(front) = Len(mark) + Len(body)
        /\ Stands(front, 0, mark) /\ Stands(front, Len(mark), body)
    BY <2>1, StandsConcat
  <2> HIDE DEF front
  <2> QED
    BY <1>6, <2>2
<1> HIDE DEF front
<1>9. /\ w \in Seq(Characters) /\ Len(w) = Len(front) + 1
      /\ Stands(w, 0, front) /\ Stands(w, Len(front), mark)
  <2> DEFINE whole == front \o mark
  <2>1. front \in Seq(Characters) /\ mark \in Seq(Characters)
    BY <1>6, <1>8
  <2>2. /\ whole \in Seq(Characters) /\ Len(whole) = Len(front) + Len(mark)
        /\ Stands(whole, 0, front) /\ Stands(whole, Len(front), mark)
    BY <2>1, StandsConcat
  <2> HIDE DEF whole
  <2>3. w = whole
    BY <1>7 DEF whole
  <2> QED
    BY <1>6, <2>2, <2>3
<1>10. Stands(w, 0 + 0, mark) /\ Stands(w, 0 + 1, body)
  BY <1>4, <1>6, <1>8, <1>9, StandsIn
<1>11. Len(body) \in Nat /\ 1 \in 1..Len(mark) /\ 0 + 1 = 1 /\ 0 + 0 = 0
  BY <1>4, <1>6
<1>12. w[1] = Quote /\ w[Len(front) + 1] = Quote
  BY <1>6, <1>9, <1>10, <1>11 DEF Stands
<1> DEFINE off == [i \in 0..N |-> at[i] + 1]
<1>13. off \in [0..N -> Nat] /\ off[0] = 1 /\ off[N] = Len(front)
  BY <1>1, <1>5, <1>8, <1>11
<1>14. ASSUME NEW i \in 1..N
       PROVE  /\ off[i] = off[i - 1] + Len(Doubled(cell[i]))
              /\ Stands(w, off[i - 1], Doubled(cell[i]))
  <2>1. i \in 0..N /\ i - 1 \in 0..N /\ at[i] \in Nat /\ at[i - 1] \in Nat
    BY <1>1
  <2>2. off[i] = at[i] + 1 /\ off[i - 1] = at[i - 1] + 1
    BY <2>1
  <2> DEFINE part == parts[i]
  <2>3. part \in Seq(Characters) /\ Len(part) \in Nat
    BY <1>2, <1>3 DEF Texts
  <2>4. at[i] = at[i - 1] + Len(part) /\ Stands(body, at[i - 1], part)
    BY <1>5
  <2>5. part = Doubled(cell[i])
    BY <1>3
  <2> HIDE DEF part, off
  <2>6. Stands(w, 1 + at[i - 1], part)
    BY <1>4, <1>9, <1>10, <1>11, <2>3, <2>4, StandsIn
  <2>7. off[i] = off[i - 1] + Len(part) /\ 1 + at[i - 1] = off[i - 1]
    BY <2>1, <2>2, <2>3, <2>4
  <2> QED
    BY <2>5, <2>6, <2>7
<1> HIDE DEF off
<1>15. /\ off[0] = 1 /\ w[1] = Quote
       /\ Len(w) = off[N] + 1 /\ w[off[N] + 1] = Quote
       /\ \A i \in 1..N : /\ off[i] = off[i - 1] + Len(Doubled(cell[i]))
                          /\ Stands(w, off[i - 1], Doubled(cell[i]))
  BY <1>9, <1>12, <1>13, <1>14
<1> QED
  BY <1>9, <1>13, <1>15 DEF Texts, N

LEMMA CsvCellTyped ==
    ASSUME NEW cell \in Texts
    PROVE  CsvCell(cell) \in Texts
<1>1. GuardFormula(cell) \in Texts
  BY GuardIs
<1>2. Quoted(GuardFormula(cell)) \in Texts
  BY <1>1, QuotedIs
<1> QED
  BY <1>1, <1>2 DEF CsvCell

\* One more of a sequence.
LEMMA OneMore ==
    ASSUME NEW C, NEW x \in Seq(C), NEW i \in 1..Len(x)
    PROVE  Append(SubSeq(x, 1, i - 1), x[i]) = SubSeq(x, 1, i)
<1> DEFINE a == SubSeq(x, 1, i - 1)
           b == SubSeq(x, 1, i)
           c == Append(a, x[i])
<1>1. Len(x) \in Nat /\ i \in Nat /\ i - 1 \in Nat /\ \A j \in 1..Len(x) : x[j] \in C
  OBVIOUS
<1>2. /\ a \in Seq(C) /\ Len(a) = i - 1 /\ \A j \in 1..(i - 1) : a[j] = x[j]
  BY <1>1, SubSeqProperties
<1>3. /\ b \in Seq(C) /\ Len(b) = i /\ \A j \in 1..i : b[j] = x[j]
  BY <1>1, SubSeqProperties
<1> HIDE DEF a, b
<1>4. /\ c \in Seq(C) /\ Len(c) = i
      /\ \A j \in 1..(i - 1) : c[j] = a[j]
      /\ c[i] = x[i]
  BY <1>1, <1>2, AppendProperties
<1> HIDE DEF c
<1>5. \A j \in 1..i : c[j] = b[j]
  <2>1. \A j \in 1..i : j = i \/ j \in 1..(i - 1)
    BY <1>1
  <2> QED
    BY <1>2, <1>3, <1>4, <2>1
<1>6. c = b
  BY <1>3, <1>4, <1>5, SeqEqual
<1> QED
  BY <1>6 DEF a, b, c

\* One step of the reader.
LEMMA ReadNext ==
    ASSUME NEW w \in Texts, NEW p \in Nat, p < Len(w)
    PROVE  /\ w[p + 1] \in Characters
           /\ Readings(w)[p + 1] = Read(Readings(w)[p], w[p + 1], NextOf(w, p + 1))
           /\ p + 1 < Len(w) => NextOf(w, p + 1) = w[p + 2]
<1> DEFINE k == p + 1
<1>1. k \in 1..Len(w) /\ k - 1 = p /\ k + 1 = p + 2
  BY DEF Texts
<1>2. w[k] \in Characters
  BY <1>1 DEF Texts
<1>3. Readings(w)[k] = Read(Readings(w)[k - 1], w[k], NextOf(w, k))
  BY <1>1, ReadingsAre
<1>4. k < Len(w) => NextOf(w, k) = w[k + 1]
  BY DEF NextOf
<1> HIDE DEF k
<1>5. Readings(w)[k] = Read(Readings(w)[p], w[k], NextOf(w, k))
  BY <1>1, <1>3, Zenon
<1>6. k < Len(w) => NextOf(w, k) = w[p + 2]
  BY <1>1, <1>4, Zenon
<1> QED
  BY <1>2, <1>5, <1>6 DEF k

\* A separator or a line break after a cell.
LEMMA CellEnds ==
    ASSUME NEW w \in Texts, NEW p \in Nat, p < Len(w),
           NEW rows, NEW cells, NEW cell, NEW quoted,
           At(Readings(w)[p], rows, cells, cell, quoted, FALSE, FALSE),
           NEW all, all = Append(cells, UnguardFormula(CleanCell(cell)))
    PROVE  /\ w[p + 1] = Separator => Before(Readings(w)[p + 1], rows, all)
           /\ w[p + 1] = NewLine =>
                  Before(Readings(w)[p + 1], IF NoData(all) THEN rows ELSE Append(rows, all), <<>>)
<1> DEFINE s == Readings(w)[p]
           t == Readings(w)[p + 1]
           char == w[p + 1]
           next == NextOf(w, p + 1)
<1>1. char \in Characters /\ t = Read(s, char, next)
  BY ReadNext
<1> HIDE DEF char, next, t
<1>2. /\ char = Separator => Read(s, char, next) = EndCell(s)
      /\ char = NewLine => Read(s, char, next) = EndLine(s)
  <2> HIDE DEF s
  <2>1. At(s, rows, cells, cell, quoted, FALSE, FALSE)
    BY DEF s
  <2> QED
    BY <1>1, <2>1, ReadOutside, Zenon
<1>3. At(EndCell(s), rows, all, <<>>, FALSE, FALSE, FALSE)
  BY EndCellAt, Zenon
<1>4. At(EndLine(s), IF NoData(all) THEN rows ELSE Append(rows, all), <<>>, <<>>, FALSE, FALSE, FALSE)
  BY EndLineAt, Zenon
<1> HIDE DEF s
<1>5. char = Separator => Before(t, rows, all)
  BY <1>1, <1>2, <1>3, Zenon DEF Before
<1>6. char = NewLine => Before(t, IF NoData(all) THEN rows ELSE Append(rows, all), <<>>)
  BY <1>1, <1>2, <1>4, Zenon DEF Before
<1> QED
  BY <1>5, <1>6 DEF char, t

\* The characters of an unquoted cell are read one by one.
LEMMA UnquotedRead ==
    ASSUME NEW w \in Texts, NEW o, NEW g \in Texts, Stands(w, o, g),
           \A i \in 1..Len(g) : g[i] \notin {Separator, Quote, NewLine, Return},
           NEW rows, NEW cells, Before(Readings(w)[o], rows, cells)
    PROVE  At(Readings(w)[o + Len(g)], rows, cells, g, FALSE, FALSE, FALSE)
<1> DEFINE Done(i) == At(Readings(w)[o + i], rows, cells, SubSeq(g, 1, i), FALSE, FALSE, FALSE)
           Good == {i \in Nat : i <= Len(g) => Done(i)}
<1>1. o \in Nat /\ Len(g) \in Nat /\ Len(w) \in Nat /\ o + Len(g) <= Len(w)
  BY DEF Stands, Texts
<1>2. 0 \in Good
  <2>1. SubSeq(g, 1, 0) = <<>> /\ o + 0 = o
    BY <1>1, SubSeqEmpty
  <2> QED
    BY <2>1 DEF Before
<1>3. ASSUME NEW n \in Nat, n \in Good PROVE n + 1 \in Good
  <2> SUFFICES ASSUME n + 1 <= Len(g) PROVE Done(n + 1)
    <3> HIDE DEF Done
    <3> QED
      OBVIOUS
  <2> DEFINE i == n + 1
             p == o + n
             cell == SubSeq(g, 1, n)
             s == Readings(w)[p]
             char == w[p + 1]
             next == NextOf(w, p + 1)
  <2>1. /\ i \in 1..Len(g) /\ i - 1 = n /\ p \in Nat /\ p < Len(w)
        /\ p + 1 = o + i
    BY <1>1
  <2>2. At(s, rows, cells, cell, FALSE, FALSE, FALSE)
    <3>1. Done(n)
      <4> HIDE DEF Done
      <4> QED
        BY <1>1, <1>3
    <3> QED
      BY <3>1
  <2>3. char = g[i]
    <3>1. w[o + i] = g[i]
      BY <2>1 DEF Stands
    <3> HIDE DEF i, p
    <3> QED
      BY <2>1, <3>1
  <2>4. Append(cell, g[i]) = SubSeq(g, 1, i)
    <3>1. Append(SubSeq(g, 1, i - 1), g[i]) = SubSeq(g, 1, i)
      <4> HIDE DEF i
      <4> QED
        BY <2>1, OneMore DEF Texts
    <3> QED
      BY <2>1, <3>1
  <2>5. char \notin {Separator, Quote, NewLine, Return}
    BY <2>1, <2>3
  <2> HIDE DEF i, cell
  <2>6. char \in Characters /\ Readings(w)[p + 1] = Read(s, char, next)
    <3> HIDE DEF p
    <3> QED
      BY <2>1, ReadNext
  <2> HIDE DEF p, s, char, next
  <2>7. Plain(char, next, cell, FALSE)
    BY <2>5 DEF Plain, Opens
  <2>8. At(Read(s, char, next), rows, cells, Append(cell, char), FALSE, FALSE, FALSE)
    BY <2>2, <2>6, <2>7, ReadOutside, Zenon
  <2>9. Done(i)
    BY <2>1, <2>3, <2>4, <2>6, <2>8, Zenon
  <2> QED
    BY <2>9 DEF i
<1>4. \A i \in Nat : i \in Good
  <2> HIDE DEF Good
  <2> QED
    BY <1>2, <1>3, EachNumber
<1>5. SubSeq(g, 1, Len(g)) = g
  BY SubSeqFull DEF Texts
<1>6. Done(Len(g))
  <2> HIDE DEF Done
  <2> QED
    BY <1>1, <1>4
<1> QED
  BY <1>5, <1>6

\* Within quotes a character is read as it is, and a doubled quote as one.
LEMMA QuotedStep ==
    ASSUME NEW w \in Texts, NEW p \in Nat, NEW char \in Characters, Stands(w, p, Doubled(char)),
           NEW rows, NEW cells, NEW cell, NEW quoted,
           At(Readings(w)[p], rows, cells, cell, quoted, TRUE, FALSE)
    PROVE  At(Readings(w)[p + Len(Doubled(char))], rows, cells, Append(cell, char), quoted, TRUE, FALSE)
<1> DEFINE s == Readings(w)[p]
           next == NextOf(w, p + 1)
           t == Read(s, char, next)
<1>1. At(s, rows, cells, cell, quoted, TRUE, FALSE)
  OBVIOUS
<1>2. CASE char # Quote
  <2>1. Len(Doubled(char)) = 1 /\ p < Len(w) /\ w[p + 1] = char
    BY <1>2 DEF Stands, Doubled, Texts
  <2>2. Readings(w)[p + 1] = t
    BY <2>1, ReadNext
  <2>3. At(t, rows, cells, Append(cell, char), quoted, TRUE, FALSE)
    <3> HIDE DEF s, next
    <3> QED
      BY <1>1, <1>2, ReadInQuotes, Zenon
  <2> QED
    BY <2>1, <2>2, <2>3, Zenon
<1>3. CASE char = Quote
  <2>1. /\ Len(Doubled(char)) = 2 /\ p < Len(w) /\ p + 1 < Len(w)
        /\ w[p + 1] = Quote /\ w[p + 2] = Quote
    <3>1. Doubled(char) = <<Quote, Quote>>
      BY <1>3 DEF Doubled
    <3> QED
      BY <3>1 DEF Stands, Texts
  <2>2. Readings(w)[p + 1] = t /\ next = Quote
    BY <1>3, <2>1, ReadNext
  <2>3. At(t, rows, cells, Append(cell, Quote), quoted, TRUE, TRUE)
    <3> HIDE DEF s, next
    <3> QED
      BY <1>1, <1>3, <2>2, ReadInQuotes, Zenon
  <2> DEFINE k == p + 1
             after == NextOf(w, k + 1)
             u == Read(t, Quote, after)
  <2>4. k \in Nat /\ k < Len(w) /\ k + 1 = p + 2
    BY <2>1
  <2>5. Readings(w)[k + 1] = u
    <3>1. Readings(w)[k] = t
      BY <2>2
    <3> HIDE DEF k, t
    <3>2. Readings(w)[k + 1] = Read(Readings(w)[k], w[k + 1], NextOf(w, k + 1))
      BY <2>4, ReadNext
    <3>3. w[k + 1] = Quote
      BY <2>1, <2>4
    <3> QED
      BY <3>1, <3>2, <3>3
  <2> HIDE DEF k, t, after
  <2>6. At(u, rows, cells, Append(cell, Quote), quoted, TRUE, FALSE)
    BY <2>3, ReadSkipped, Zenon
  <2> HIDE DEF u
  <2>7. Readings(w)[p + 2] = u
    BY <2>4, <2>5
  <2> QED
    BY <1>3, <2>1, <2>6, <2>7, Zenon
<1> QED
  BY <1>2, <1>3

LEMMA QuotedRead ==
    ASSUME NEW w \in Texts, NEW o, NEW g \in Texts, NEW q, q = Quoted(g), Stands(w, o, q),
           o + Len(q) < Len(w), w[o + Len(q) + 1] \in {Separator, NewLine},
           NEW rows, NEW cells, Before(Readings(w)[o], rows, cells)
    PROVE  At(Readings(w)[o + Len(q)], rows, cells, g, TRUE, FALSE, FALSE)
<1> DEFINE N == Len(g)
<1>1. PICK off \in [0..N -> Nat] :
         /\ off[0] = 1 /\ q[1] = Quote
         /\ Len(q) = off[N] + 1 /\ q[off[N] + 1] = Quote
         /\ \A i \in 1..N :
               /\ off[i] = off[i - 1] + Len(Doubled(g[i]))
               /\ Stands(q, off[i - 1], Doubled(g[i]))
  BY QuotedIs
<1>2. /\ q \in Texts /\ o \in Nat /\ N \in Nat /\ Len(w) \in Nat /\ Len(q) \in Nat
      /\ N \in 0..N /\ off[N] \in Nat
  <2>1. N \in Nat /\ N \in 0..N
    BY DEF Texts
  <2>2. q \in Texts
    BY QuotedIs
  <2>3. off[N] \in Nat
    BY <2>1
  <2> QED
    BY <2>1, <2>2, <2>3 DEF Stands, Texts
<1> HIDE DEF N
<1> DEFINE Done(i) == At(Readings(w)[o + off[i]], rows, cells, SubSeq(g, 1, i), TRUE, TRUE, FALSE)
           Good == {i \in Nat : i <= N => Done(i)}
<1>3. 0 \in Good
  <2> DEFINE s == Readings(w)[o]
             next == NextOf(w, o + 1)
  <2>1. o < Len(w) /\ w[o + 1] = Quote /\ Quote \in Characters
    <3>1. 1 \in 1..Len(q)
      BY <1>1, <1>2
    <3> QED
      BY <1>1, <1>2, <3>1 DEF Stands, Characters, Special
  <2>2. Readings(w)[o + 1] = Read(s, Quote, next)
    BY <1>2, <2>1, ReadNext
  <2>3. At(s, rows, cells, <<>>, FALSE, FALSE, FALSE)
    BY DEF Before
  <2>4. Opens(Quote, <<>>, FALSE)
    BY CleanEmpty DEF Opens
  <2> HIDE DEF s, next
  <2>5. At(Read(s, Quote, next), rows, cells, <<>>, TRUE, TRUE, FALSE)
    BY <2>1, <2>3, <2>4, ReadOutside, Zenon
  <2>6. SubSeq(g, 1, 0) = <<>> /\ o + off[0] = o + 1
    BY <1>1, SubSeqEmpty
  <2>7. Done(0)
    BY <2>2, <2>5, <2>6, Zenon
  <2> HIDE DEF Done
  <2> QED
    BY <2>7
<1>4. ASSUME NEW n \in Nat, n \in Good PROVE n + 1 \in Good
  <2> SUFFICES ASSUME n + 1 <= N PROVE Done(n + 1)
    <3> HIDE DEF Done
    <3> QED
      OBVIOUS
  <2> DEFINE i == n + 1
             p == o + off[n]
             cell == SubSeq(g, 1, n)
             char == g[i]
             size == Len(Doubled(char))
  <2>1. /\ i \in 1..N /\ i - 1 = n /\ n \in 0..N /\ i \in 0..N
    BY <1>2
  <2>2. Done(n)
    <3> HIDE DEF Done
    <3> QED
      BY <1>4, <2>1
  <2>3. char \in Characters
    BY <2>1 DEF Texts, N
  <2>4. off[n] \in Nat /\ p \in Nat
    BY <1>2, <2>1
  <2>5. off[i] = off[n] + size /\ Stands(q, off[n], Doubled(char)) /\ size \in Nat
    <3>1. off[i] = off[i - 1] + size /\ Stands(q, off[i - 1], Doubled(char))
      BY <1>1, <2>1
    <3>2. size \in Nat
      BY <2>3, DoubledTyped DEF Texts
    <3> HIDE DEF i, char, size
    <3> QED
      BY <2>1, <3>1, <3>2, Zenon
  <2>6. Append(cell, char) = SubSeq(g, 1, i)
    <3>1. Append(SubSeq(g, 1, i - 1), g[i]) = SubSeq(g, 1, i)
      <4> HIDE DEF i
      <4> QED
        BY <2>1, OneMore DEF Texts, N
    <3> QED
      BY <2>1, <3>1
  <2>7. Stands(w, p, Doubled(char))
    <3>1. Doubled(char) \in Seq(Characters) /\ w \in Seq(Characters) /\ q \in Seq(Characters)
      BY <1>2, <2>3, DoubledTyped DEF Texts
    <3> HIDE DEF char
    <3> QED
      BY <2>5, <3>1, StandsIn
  <2>8. o + off[i] = p + size
    <3> HIDE DEF i, size
    <3> QED
      BY <1>2, <2>4, <2>5
  <2>9. At(Readings(w)[p], rows, cells, cell, TRUE, TRUE, FALSE)
    BY <2>2
  <2> HIDE DEF i, p, cell, char
  <2>10. At(Readings(w)[p + size], rows, cells, Append(cell, char), TRUE, TRUE, FALSE)
    BY <2>3, <2>4, <2>7, <2>9, QuotedStep, Zenon
  <2> HIDE DEF size
  <2>11. Done(i)
    BY <2>6, <2>8, <2>10, Zenon
  <2> QED
    BY <2>11 DEF i
<1>5. \A i \in Nat : i \in Good
  <2> HIDE DEF Good
  <2> QED
    BY <1>3, <1>4, EachNumber
<1>6. Done(N)
  <2> HIDE DEF Done
  <2> QED
    BY <1>2, <1>5
<1> DEFINE p == o + off[N]
           s == Readings(w)[p]
           next == NextOf(w, p + 1)
<1>7. At(s, rows, cells, g, TRUE, TRUE, FALSE)
  <2>1. SubSeq(g, 1, N) = g
    BY SubSeqFull DEF Texts, N
  <2> QED
    BY <1>6, <2>1
<1> HIDE DEF Done, Good
<1>8. p \in Nat /\ p < Len(w) /\ p + 1 < Len(w) /\ p + 1 = o + Len(q) /\ p + 2 = o + Len(q) + 1
  BY <1>1, <1>2
<1>9. w[p + 1] = Quote
  <2>1. Len(q) \in 1..Len(q) /\ q[Len(q)] = Quote
    BY <1>1, <1>2
  <2>2. w[o + Len(q)] = q[Len(q)]
    BY <2>1 DEF Stands
  <2> HIDE DEF p
  <2> QED
    BY <1>8, <2>1, <2>2
<1>10. Readings(w)[p + 1] = Read(s, Quote, next) /\ next # Quote /\ Quote \in Characters
  <2>1. w[p + 2] # Quote
    <3> HIDE DEF p
    <3> QED
      BY <1>8 DEF Separator, NewLine, Quote
  <2>2. /\ Readings(w)[p + 1] = Read(s, w[p + 1], next)
        /\ next = w[p + 2]
    <3> HIDE DEF p
    <3> QED
      BY <1>8, ReadNext
  <2> HIDE DEF p, s, next
  <2> QED
    BY <1>9, <2>1, <2>2 DEF Characters, Special
<1> HIDE DEF s, next
<1>11. At(Read(s, Quote, next), rows, cells, g, TRUE, FALSE, FALSE)
  BY <1>7, <1>10, ReadInQuotes, Zenon
<1> HIDE DEF p
<1> QED
  BY <1>8, <1>10, <1>11, Zenon

\* A written cell and what ends it are read as what the cell reads back as.
LEMMA CellRead ==
    ASSUME NEW w \in Texts, NEW o, NEW c \in Texts, NEW end \in {Separator, NewLine},
           Stands(w, o, Append(CsvCell(c), end)),
           NEW rows, NEW cells, Before(Readings(w)[o], rows, cells),
           NEW all, all = Append(cells, ReadBack(c)),
           NEW after, after = o + Len(Append(CsvCell(c), end))
    PROVE  /\ end = Separator => Before(Readings(w)[after], rows, all)
           /\ end = NewLine =>
                  Before(Readings(w)[after], IF NoData(all) THEN rows ELSE Append(rows, all), <<>>)
<1> DEFINE x == CsvCell(c)
           g == GuardFormula(c)
           p == o + Len(x)
<1>1. x \in Texts /\ g \in Texts /\ end \in Characters
  <2>1. x \in Texts /\ g \in Texts
    BY CsvCellTyped, GuardIs, Zenon
  <2>2. end \in Characters
    BY DEF Characters, Special, White
  <2> QED
    BY <2>1, <2>2
<1>2. x = IF \E i \in DOMAIN g : g[i] \in {Separator, Quote, NewLine, Return} THEN Quoted(g) ELSE g
  BY DEF CsvCell
<1>3. all = Append(cells, UnguardFormula(CleanCell(g)))
  BY DEF ReadBack
<1> HIDE DEF x, g
<1>4. /\ Append(x, end) \in Texts /\ Len(Append(x, end)) = Len(x) + 1
      /\ \A i \in 1..Len(x) : Append(x, end)[i] = x[i]
      /\ Append(x, end)[Len(x) + 1] = end
  BY <1>1, AppendProperties DEF Texts
<1>5. /\ o \in Nat /\ Len(x) \in Nat /\ p \in Nat /\ p < Len(w) /\ p + 1 = after
      /\ w[p + 1] = end /\ Stands(w, o, x)
  <2> DEFINE y == Append(x, end)
  <2>1. Stands(w, o, y) /\ after = o + Len(y)
    BY DEF x
  <2> HIDE DEF y
  <2>2. /\ Len(y) = Len(x) + 1 /\ \A i \in 1..Len(x) : y[i] = x[i]
        /\ y[Len(x) + 1] = end
    BY <1>4 DEF y
  <2>3. /\ o \in Nat /\ o + Len(y) <= Len(w) /\ \A j \in 1..Len(y) : w[o + j] = y[j]
    BY <2>1 DEF Stands
  <2>4. Len(x) \in Nat /\ Len(w) \in Nat
    BY <1>1 DEF Texts
  <2>5. Len(x) + 1 \in 1..Len(y) /\ \A j \in 1..Len(x) : j \in 1..Len(y)
    BY <2>2, <2>4
  <2>6. w[o + (Len(x) + 1)] = end /\ o + (Len(x) + 1) = p + 1
    BY <2>2, <2>3, <2>4, <2>5
  <2>7. \A j \in 1..Len(x) : w[o + j] = x[j]
    BY <2>2, <2>3, <2>5
  <2> QED
    BY <2>1, <2>2, <2>3, <2>4, <2>6, <2>7 DEF Stands
<1>6. \E quoted : At(Readings(w)[p], rows, cells, g, quoted, FALSE, FALSE)
  <2>1. CASE \E i \in DOMAIN g : g[i] \in {Separator, Quote, NewLine, Return}
    <3>1. x = Quoted(g)
      BY <1>2, <2>1
    <3>2. At(Readings(w)[p], rows, cells, g, TRUE, FALSE, FALSE)
      BY <1>1, <1>5, <3>1, QuotedRead
    <3> QED
      BY <3>2
  <2>2. CASE ~ \E i \in DOMAIN g : g[i] \in {Separator, Quote, NewLine, Return}
    <3>1. x = g /\ \A i \in 1..Len(g) : g[i] \notin {Separator, Quote, NewLine, Return}
      BY <1>1, <1>2, <2>2 DEF Texts
    <3>2. Stands(w, o, g)
      BY <1>5, <3>1
    <3>3. At(Readings(w)[o + Len(g)], rows, cells, g, FALSE, FALSE, FALSE)
      BY <1>1, <3>1, <3>2, UnquotedRead
    <3> QED
      BY <3>1, <3>3
  <2> QED
    BY <2>1, <2>2
<1>7. PICK quoted : At(Readings(w)[p], rows, cells, g, quoted, FALSE, FALSE)
  BY <1>6
<1> HIDE DEF p
<1>8. /\ w[p + 1] = Separator => Before(Readings(w)[p + 1], rows, all)
      /\ w[p + 1] = NewLine =>
             Before(Readings(w)[p + 1], IF NoData(all) THEN rows ELSE Append(rows, all), <<>>)
  BY <1>3, <1>5, <1>7, CellEnds, Zenon
<1> QED
  BY <1>5, <1>8, Zenon

-----------------------------------------------------------------------------
(* PendingCsv: a written line and a written file are read back. *)

\* What ends the cells of a line.
EndOf(cells, i) == IF i < Len(cells) THEN Separator ELSE NewLine

LEMMA CsvLineParts ==
    ASSUME NEW cells \in Seq(Texts),
           NEW parts, parts = [i \in 1..Len(cells) |-> Append(CsvCell(cells[i]), EndOf(cells, i))]
    PROVE  /\ parts \in Seq(Texts) /\ Len(parts) = Len(cells)
           /\ \A i \in 1..Len(cells) : parts[i] = Append(CsvCell(cells[i]), EndOf(cells, i))
           /\ CsvLine(cells) = FlattenSeq(parts)
<1>1. Len(cells) \in Nat /\ \A i \in 1..Len(cells) : cells[i] \in Texts
  OBVIOUS
<1>2. ASSUME NEW i \in 1..Len(cells)
      PROVE  Append(CsvCell(cells[i]), EndOf(cells, i)) \in Texts
  <2>1. CsvCell(cells[i]) \in Texts
    BY <1>1, CsvCellTyped
  <2>2. EndOf(cells, i) \in Characters
    BY DEF EndOf, Characters, Special, White
  <2> QED
    BY <2>1, <2>2, AppendProperties DEF Texts
<1>3. /\ parts \in Seq(Texts) /\ Len(parts) = Len(cells)
      /\ \A i \in 1..Len(cells) : parts[i] = Append(CsvCell(cells[i]), EndOf(cells, i))
  BY <1>1, <1>2, IsASeq
<1>4. CsvLine(cells) = FlattenSeq(parts)
  BY DEF CsvLine, EndOf
<1> QED
  BY <1>3, <1>4

LEMMA CsvLineTyped ==
    ASSUME NEW cells \in Seq(Texts)
    PROVE  CsvLine(cells) \in Texts
<1> DEFINE parts == [i \in 1..Len(cells) |-> Append(CsvCell(cells[i]), EndOf(cells, i))]
<1>1. parts \in Seq(Texts) /\ CsvLine(cells) = FlattenSeq(parts)
  BY CsvLineParts
<1> HIDE DEF parts
<1> QED
  BY <1>1, FlattenIs DEF Texts

\* What the cells of a line read back as.
LineBack(cells) == [i \in 1..Len(cells) |-> ReadBack(cells[i])]

LEMMA LineBackTyped ==
    ASSUME NEW cells \in Seq(Texts)
    PROVE  /\ LineBack(cells) \in Seq(CleanCells) /\ Len(LineBack(cells)) = Len(cells)
           /\ \A i \in 1..Len(cells) : LineBack(cells)[i] = ReadBack(cells[i])
<1>1. Len(cells) \in Nat /\ \A i \in 1..Len(cells) : cells[i] \in Texts
  OBVIOUS
<1>2. ASSUME NEW i \in 1..Len(cells) PROVE ReadBack(cells[i]) \in CleanCells
  <2>1. GuardFormula(cells[i]) \in Texts
    BY <1>1, GuardIs
  <2> QED
    BY <2>1, CellIsClean DEF ReadBack
<1> QED
  BY <1>1, <1>2, IsASeq DEF LineBack

LEMMA LineRead ==
    ASSUME NEW w \in Texts, NEW o, NEW cells \in Seq(Texts), Len(cells) # 0,
           Stands(w, o, CsvLine(cells)), ~ NoData(LineBack(cells)),
           NEW rows, Before(Readings(w)[o], rows, <<>>)
    PROVE  Before(Readings(w)[o + Len(CsvLine(cells))], Append(rows, LineBack(cells)), <<>>)
<1> DEFINE N == Len(cells)
           line == CsvLine(cells)
           all == LineBack(cells)
           parts == [i \in 1..Len(cells) |-> Append(CsvCell(cells[i]), EndOf(cells, i))]
<1>1. /\ N \in Nat /\ N # 0 /\ o \in Nat /\ line \in Texts
      /\ \A i \in 1..N : cells[i] \in Texts
  BY CsvLineTyped DEF Stands
<1>2. /\ parts \in Seq(Texts) /\ Len(parts) = N /\ line = FlattenSeq(parts)
      /\ \A i \in 1..N : parts[i] = Append(CsvCell(cells[i]), EndOf(cells, i))
  BY CsvLineParts
<1>3. all \in Seq(CleanCells) /\ Len(all) = N /\ \A i \in 1..N : all[i] = ReadBack(cells[i])
  BY LineBackTyped
<1>4. Stands(w, o, line) /\ ~ NoData(all)
  OBVIOUS
<1>5. \A i \in 1..N : EndOf(cells, i) = IF i < N THEN Separator ELSE NewLine
  BY DEF EndOf
<1> HIDE DEF N, parts, line, all
<1>6. PICK off \in [0..N -> Nat] :
         /\ off[0] = 0 /\ off[N] = Len(line)
         /\ \A i \in 1..N :
               /\ off[i] = off[i - 1] + Len(parts[i])
               /\ Stands(line, off[i - 1], parts[i])
  BY <1>2, FlattenIs DEF Texts
<1>7. ASSUME NEW i \in 1..N, Before(Readings(w)[o + off[i - 1]], rows, SubSeq(all, 1, i - 1))
      PROVE  /\ i < N => Before(Readings(w)[o + off[i]], rows, SubSeq(all, 1, i))
             /\ i = N => Before(Readings(w)[o + off[i]], Append(rows, all), <<>>)
  <2> DEFINE c == cells[i]
             end == EndOf(cells, i)
             part == Append(CsvCell(c), end)
             before == SubSeq(all, 1, i - 1)
             upto == SubSeq(all, 1, i)
             p == o + off[i - 1]
             after == o + off[i]
  <2>1. c \in Texts /\ end \in {Separator, NewLine}
    BY <1>1, <1>5
  <2>2. parts[i] = part /\ part \in Texts
    <3>1. parts[i] \in Texts
      BY <1>2
    <3>2. parts[i] = part
      BY <1>2, Zenon
    <3> HIDE DEF part
    <3> QED
      BY <3>1, <3>2
  <2>3. off[i] = off[i - 1] + Len(part) /\ Stands(line, off[i - 1], part) /\ off[i - 1] \in Nat /\ Len(part) \in Nat
    <3>1. off[i] = off[i - 1] + Len(parts[i]) /\ Stands(line, off[i - 1], parts[i])
      BY <1>6
    <3>2. Len(part) \in Nat
      BY <2>2 DEF Texts
    <3>3. off[i - 1] \in Nat
      BY <1>1
    <3> HIDE DEF part
    <3> QED
      BY <2>2, <3>1, <3>2, <3>3
  <2>4. upto = Append(before, ReadBack(c))
    <3>1. Append(SubSeq(all, 1, i - 1), all[i]) = SubSeq(all, 1, i)
      BY <1>3, OneMore
    <3> QED
      BY <1>3, <3>1
  <2>5. Stands(w, p, part)
    <3> HIDE DEF part
    <3> QED
      BY <1>1, <1>4, <2>2, <2>3, StandsIn DEF Texts
  <2>6. after = p + Len(part)
    <3> HIDE DEF part
    <3> QED
      BY <1>1, <2>3
  <2>7. Before(Readings(w)[p], rows, before)
    BY <1>7
  <2>8. /\ i < N => end = Separator
        /\ i = N => end = NewLine /\ upto = all
    <3>1. SubSeq(all, 1, N) = all
      BY <1>3, SubSeqFull
    <3> QED
      BY <1>1, <1>5, <3>1
  <2> HIDE DEF c, end, before, upto, p, after
  <2>9. /\ end = Separator => Before(Readings(w)[after], rows, upto)
        /\ end = NewLine =>
               Before(Readings(w)[after], IF NoData(upto) THEN rows ELSE Append(rows, upto), <<>>)
    BY <2>1, <2>4, <2>5, <2>6, <2>7, CellRead, Zenon
  <2>10. i < N => Before(Readings(w)[after], rows, upto)
    BY <2>8, <2>9, Zenon
  <2>11. i = N => Before(Readings(w)[after], Append(rows, all), <<>>)
    BY <1>4, <2>8, <2>9, Zenon
  <2> QED
    BY <2>10, <2>11 DEF after, upto
<1> DEFINE Done(i) == Before(Readings(w)[o + off[i]], rows, SubSeq(all, 1, i))
           Good == {i \in Nat : i < N => Done(i)}
<1>8. 0 \in Good
  <2>1. SubSeq(all, 1, 0) = <<>> /\ o + off[0] = o
    BY <1>1, <1>6, SubSeqEmpty
  <2>2. Done(0)
    BY <2>1, Zenon
  <2> HIDE DEF Done
  <2> QED
    BY <2>2
<1>9. ASSUME NEW n \in Nat, n \in Good PROVE n + 1 \in Good
  <2> SUFFICES ASSUME n + 1 < N PROVE Done(n + 1)
    <3> HIDE DEF Done
    <3> QED
      OBVIOUS
  <2> DEFINE i == n + 1
  <2>1. i \in 1..N /\ i - 1 = n /\ i < N /\ n < N
    BY <1>1
  <2>2. Done(n)
    <3> HIDE DEF Done
    <3> QED
      BY <1>9, <2>1
  <2> HIDE DEF i
  <2>3. Before(Readings(w)[o + off[i - 1]], rows, SubSeq(all, 1, i - 1))
    BY <2>1, <2>2, Zenon
  <2>4. Done(i)
    BY <1>7, <2>1, <2>3, Zenon
  <2> QED
    BY <2>4 DEF i
<1>10. \A i \in Nat : i \in Good
  <2> HIDE DEF Good
  <2> QED
    BY <1>8, <1>9, EachNumber
<1>11. N \in 1..N /\ N - 1 \in Nat /\ N - 1 < N
  BY <1>1
<1>12. Done(N - 1)
  <2> HIDE DEF Done
  <2> QED
    BY <1>10, <1>11
<1>13. Before(Readings(w)[o + off[N]], Append(rows, all), <<>>)
  BY <1>7, <1>11, <1>12, Zenon
<1> QED
  BY <1>6, <1>13 DEF line, all

\* The lines that an import stores.
DataCells == {cells \in Seq(CleanCells) : HasSaleData(cells)}

Rows == [raw : DataCells, message : Messages]

LEMMA DataLinesTyped ==
    ASSUME NEW lines \in Lines
    PROVE  DataLines(lines) \in Seq(DataCells)
<1> DEFINE parts == [i \in 1..Len(lines) |-> IF HasSaleData(lines[i]) THEN <<lines[i]>> ELSE <<>>]
<1>1. Len(lines) \in Nat /\ \A i \in 1..Len(lines) : lines[i] \in Seq(CleanCells)
  BY DEF Lines
<1>2. ASSUME NEW i \in 1..Len(lines)
      PROVE  (IF HasSaleData(lines[i]) THEN <<lines[i]>> ELSE <<>>) \in Seq(DataCells)
  <2>1. CASE HasSaleData(lines[i])
    <3>1. lines[i] \in DataCells
      BY <1>1, <2>1 DEF DataCells
    <3> QED
      BY <2>1, <3>1
  <2>2. CASE ~ HasSaleData(lines[i])
    BY <2>2, EmptySeq
  <2> QED
    BY <2>1, <2>2
<1>3. parts \in Seq(Seq(DataCells))
  BY <1>1, <1>2, IsASeq
<1>4. DataLines(lines) = FlattenSeq(parts)
  BY DEF DataLines
<1> HIDE DEF parts
<1> QED
  BY <1>3, <1>4, FlattenIs

LEMMA PaddedIs ==
    ASSUME NEW raw \in Seq(CleanCells)
    PROVE  /\ Padded(raw) \in Seq(CleanCells) /\ Len(Padded(raw)) = Columns
           /\ \A i \in 1..Columns : Padded(raw)[i] = IF i <= Len(raw) THEN raw[i] ELSE <<>>
<1>1. Columns \in Nat
  BY CsvAssumption
<1>2. <<>> \in CleanCells
  BY EmptySeq DEF CleanCells, Trimmed, Texts
<1>3. \A i \in 1..Columns : (IF i <= Len(raw) THEN raw[i] ELSE <<>>) \in CleanCells
  BY <1>1, <1>2
<1> QED
  BY <1>1, <1>3, IsASeq DEF Padded

\* The cells of a written line and what they read back as.
Written(row) == Append(Padded(row.raw), row.message)

RowBack(row) == LineBack(Written(row))

LEMMA RowBackIs ==
    ASSUME NEW row \in Rows
    PROVE  /\ Written(row) \in Seq(Texts) /\ Len(Written(row)) # 0
           /\ RowBack(row) \in Seq(CleanCells) /\ ~ NoData(RowBack(row))
           /\ SubSeq(RowBack(row), 1, Columns) = Padded(row.raw)
<1> DEFINE raw == row.raw
           pad == Padded(raw)
           message == row.message
           full == Append(pad, message)
           all == RowBack(row)
<1>1. raw \in Seq(CleanCells) /\ HasSaleData(raw) /\ message \in Texts
  BY CsvAssumption DEF Rows, DataCells, Texts
<1>2. Columns \in Nat /\ SaleColumns \subseteq 1..Columns
  BY CsvAssumption
<1> HIDE DEF raw, message
<1>3. /\ pad \in Seq(CleanCells) /\ Len(pad) = Columns
      /\ \A i \in 1..Columns : pad[i] = IF i <= Len(raw) THEN raw[i] ELSE <<>>
  BY <1>1, PaddedIs
<1> HIDE DEF pad
<1>4. pad \in Seq(Texts)
  <2>1. CleanCells \subseteq Texts
    BY DEF CleanCells
  <2> QED
    BY <1>3, <2>1
<1>5. /\ full \in Seq(Texts) /\ Len(full) = Columns + 1
      /\ \A i \in 1..Columns : full[i] = pad[i]
  BY <1>1, <1>3, <1>4, AppendProperties
<1>6. Written(row) = full
  BY DEF Written, raw, message, pad
<1> HIDE DEF full
<1>7. /\ all \in Seq(CleanCells) /\ Len(all) = Columns + 1
      /\ \A i \in 1..(Columns + 1) : all[i] = ReadBack(full[i])
  BY <1>5, <1>6, LineBackTyped DEF RowBack
<1> HIDE DEF all
<1>8. \A i \in 1..Columns : all[i] = pad[i]
  <2> TAKE i \in 1..Columns
  <2>1. pad[i] \in CleanCells /\ i \in 1..(Columns + 1)
    BY <1>2, <1>3
  <2>2. ReadBack(pad[i]) = pad[i]
    BY <2>1, GuardInverse
  <2>3. all[i] = ReadBack(full[i]) /\ full[i] = pad[i]
    BY <1>5, <1>7, <2>1
  <2> QED
    BY <2>2, <2>3
<1>9. ~ NoData(all)
  <2>1. PICK i \in SaleColumns : i <= Len(raw) /\ raw[i] \notin {<<>>, <<Minus>>}
    BY <1>1 DEF HasSaleData
  <2>2. i \in 1..Columns /\ i \in DOMAIN all
    BY <1>2, <1>7
  <2>3. all[i] # <<>>
    BY <1>3, <1>8, <2>1, <2>2
  <2> QED
    BY <2>2, <2>3 DEF NoData
<1>10. SubSeq(all, 1, Columns) = pad
  <2> DEFINE front == SubSeq(all, 1, Columns)
  <2>1. \A i \in 1..Columns : all[i] \in CleanCells
    BY <1>3, <1>8
  <2>2. /\ front \in Seq(CleanCells) /\ Len(front) = Columns
        /\ \A i \in 1..Columns : front[i] = all[i]
    BY <1>2, <2>1, SubSeqProperties
  <2> HIDE DEF front
  <2>3. front = pad
    BY <1>3, <1>8, <2>2, SeqEqual
  <2> QED
    BY <2>3 DEF front
<1> QED
  BY <1>2, <1>5, <1>6, <1>7, <1>9, <1>10 DEF pad, raw, all

\* What the rows of a written file read back as.
FileBack(rows) == [i \in 1..Len(rows) |-> RowBack(rows[i])]

LEMMA FileBackTyped ==
    ASSUME NEW rows \in Seq(Rows)
    PROVE  /\ FileBack(rows) \in Lines /\ Len(FileBack(rows)) = Len(rows)
           /\ \A i \in 1..Len(rows) : FileBack(rows)[i] = RowBack(rows[i])
<1>1. Len(rows) \in Nat /\ \A i \in 1..Len(rows) : rows[i] \in Rows
  OBVIOUS
<1>2. \A i \in 1..Len(rows) : RowBack(rows[i]) \in Seq(CleanCells)
  BY <1>1, RowBackIs
<1> QED
  BY <1>1, <1>2, IsASeq DEF FileBack, Lines

LEMMA PendingLineIs ==
    ASSUME NEW row \in Rows
    PROVE  PendingLine(row) = CsvLine(Written(row)) /\ PendingLine(row) \in Texts
<1>1. PendingLine(row) = CsvLine(Written(row))
  BY DEF PendingLine, Written
<1>2. CsvLine(Written(row)) \in Texts
  BY RowBackIs, CsvLineTyped
<1> QED
  BY <1>1, <1>2

LEMMA FileRead ==
    ASSUME NEW rows \in Seq(Rows), NEW w, w = WritePending(rows)
    PROVE  w \in Texts /\ Before(Readings(w)[Len(w)], FileBack(rows), <<>>)
<1> DEFINE N == Len(rows)
           parts == [i \in 1..Len(rows) |-> PendingLine(rows[i])]
           all == FileBack(rows)
<1>1. N \in Nat /\ \A i \in 1..N : rows[i] \in Rows
  OBVIOUS
<1>2. \A i \in 1..N : PendingLine(rows[i]) \in Texts
  BY <1>1, PendingLineIs
<1>3. /\ parts \in Seq(Texts) /\ Len(parts) = N
      /\ \A i \in 1..N : parts[i] = PendingLine(rows[i])
  BY <1>1, <1>2, IsASeq
<1>4. w = FlattenSeq(parts)
  BY DEF WritePending
<1>5. all \in Seq(Seq(CleanCells)) /\ Len(all) = N /\ \A i \in 1..N : all[i] = RowBack(rows[i])
  BY FileBackTyped DEF Lines
<1> HIDE DEF N, parts, all
<1>6. /\ w \in Texts
      /\ \E off \in [0..N -> Nat] :
            /\ off[0] = 0 /\ off[N] = Len(w)
            /\ \A i \in 1..N : /\ off[i] = off[i - 1] + Len(parts[i])
                               /\ Stands(w, off[i - 1], parts[i])
  BY <1>3, <1>4, FlattenIs DEF Texts
<1>7. PICK off \in [0..N -> Nat] :
            /\ off[0] = 0 /\ off[N] = Len(w)
            /\ \A i \in 1..N : /\ off[i] = off[i - 1] + Len(parts[i])
                               /\ Stands(w, off[i - 1], parts[i])
  BY <1>6
<1> DEFINE Done(i) == Before(Readings(w)[off[i]], SubSeq(all, 1, i), <<>>)
           Good == {i \in Nat : i <= N => Done(i)}
<1>8. 0 \in Good
  <2>1. SubSeq(all, 1, 0) = <<>>
    BY SubSeqEmpty
  <2>2. Readings(w)[off[0]] = Reader
    BY <1>6, <1>7, ReadingsAre
  <2>3. Done(0)
    BY <2>1, <2>2, ReaderAt, Zenon
  <2> HIDE DEF Done
  <2> QED
    BY <2>3
<1>9. ASSUME NEW n \in Nat, n \in Good PROVE n + 1 \in Good
  <2> SUFFICES ASSUME n + 1 <= N PROVE Done(n + 1)
    <3> HIDE DEF Done
    <3> QED
      OBVIOUS
  <2> DEFINE i == n + 1
             row == rows[i]
             cells == Written(row)
             o == off[n]
             before == SubSeq(all, 1, n)
  <2>1. i \in 1..N /\ i - 1 = n /\ n <= N
    BY <1>1
  <2>2. Done(n)
    <3> HIDE DEF Done
    <3> QED
      BY <1>9, <2>1
  <2>3. row \in Rows
    BY <1>1, <2>1
  <2>4. cells \in Seq(Texts) /\ Len(cells) # 0 /\ ~ NoData(LineBack(cells))
    <3> HIDE DEF row
    <3> QED
      BY <2>3, RowBackIs DEF RowBack
  <2>5. parts[i] = CsvLine(cells)
    <3>1. parts[i] = PendingLine(row)
      BY <1>3, <2>1
    <3> HIDE DEF row
    <3> QED
      BY <2>3, <3>1, PendingLineIs
  <2>6. all[i] = LineBack(cells)
    <3> HIDE DEF i
    <3> QED
      BY <1>5, <2>1 DEF RowBack
  <2>7. off[i] = off[i - 1] + Len(parts[i]) /\ Stands(w, off[i - 1], parts[i])
    BY <1>7, <2>1
  <2>8. Append(SubSeq(all, 1, i - 1), all[i]) = SubSeq(all, 1, i)
    <3> HIDE DEF i
    <3> QED
      BY <1>5, <2>1, OneMore
  <2>9. Before(Readings(w)[o], before, <<>>)
    BY <2>2
  <2> HIDE DEF cells, row, i
  <2>10. off[i] = o + Len(CsvLine(cells)) /\ Stands(w, o, CsvLine(cells))
    BY <2>1, <2>5, <2>7, Zenon
  <2>11. Append(before, LineBack(cells)) = SubSeq(all, 1, i)
    BY <2>1, <2>6, <2>8, Zenon
  <2> HIDE DEF o, before
  <2>12. Before(Readings(w)[o + Len(CsvLine(cells))], Append(before, LineBack(cells)), <<>>)
    BY <1>6, <2>4, <2>9, <2>10, LineRead, Zenon
  <2>13. Done(i)
    BY <2>10, <2>11, <2>12, Zenon
  <2> QED
    BY <2>13 DEF i
<1>10. \A i \in Nat : i \in Good
  <2> HIDE DEF Good
  <2> QED
    BY <1>8, <1>9, EachNumber
<1>11. Done(N)
  <2> HIDE DEF Done
  <2> QED
    BY <1>1, <1>10
<1>12. SubSeq(all, 1, N) = all
  BY <1>5, SubSeqFull
<1> QED
  BY <1>6, <1>7, <1>11, <1>12, Zenon DEF all

\* The written file is read, with every line and nothing more.
LEMMA PendingFileRead ==
    ASSUME NEW rows \in Seq(Rows)
    PROVE  ~ Malformed(WritePending(rows)) /\ ParseCsv(WritePending(rows)) = FileBack(rows)
<1> DEFINE w == WritePending(rows)
           s == Readings(w)[Len(w)]
           file == FileBack(rows)
           last == Append(<<>>, UnguardFormula(CleanCell(<<>>)))
<1>1. Before(s, file, <<>>)
  BY FileRead
<1>2. NoData(last)
  <2>1. UnguardFormula(CleanCell(<<>>)) = <<>>
    BY CleanEmpty DEF UnguardFormula
  <2>2. last = << <<>> >>
    BY <2>1
  <2> HIDE DEF last
  <2> QED
    BY <2>2 DEF NoData
<1> HIDE DEF s, file
<1>3. At(EndLine(s), IF NoData(last) THEN file ELSE Append(file, last), <<>>, <<>>, FALSE, FALSE, FALSE)
  BY <1>1, EndLineAt, Zenon DEF Before
<1> HIDE DEF last
<1>4. EndLine(s).rows = file
  BY <1>2, <1>3 DEF At
<1>5. ~ s.inQuotes
  BY <1>1 DEF Before, At
<1> QED
  BY <1>4, <1>5 DEF Malformed, ParseCsv, ReadAll, s, file

-----------------------------------------------------------------------------
(* PendingCsv: the invariant. *)

\* What is stored are clean cells, and what came back is what they read back as.
CsvInv ==
    /\ text \in Texts
    /\ stored \in Seq(Rows)
    /\ stage \in {"back", "unreadable"} => stage = "back" /\ back = FileBack(stored)

LEMMA CsvInitInv == CsvInit => CsvInv
<1> SUFFICES ASSUME CsvInit PROVE CsvInv
  OBVIOUS
<1>1. text \in Seq(Characters)
  BY DEF CsvInit, SeqOf
<1> QED
  BY <1>1, EmptySeq DEF CsvInit, CsvInv, Texts

LEMMA ImportInv == CsvInv /\ Import => CsvInv'
<1> SUFFICES ASSUME CsvInv, Import PROVE CsvInv'
  OBVIOUS
<1>1. CASE Malformed(text)
  BY <1>1 DEF Import, CsvInv
<1>2. CASE ~ Malformed(text)
  <2> DEFINE lines == DataLines(ParseCsv(text))
  <2>1. PICK message \in Messages :
            stored' = [i \in 1..Len(lines) |-> [raw |-> lines[i], message |-> message]]
    BY <1>2 DEF Import
  <2>2. stage' = "stored" /\ text' = text
    BY <1>2 DEF Import
  <2>3. lines \in Seq(DataCells)
    BY ParseTyped, DataLinesTyped DEF CsvInv
  <2> HIDE DEF lines
  <2>4. Len(lines) \in Nat /\ \A i \in 1..Len(lines) : [raw |-> lines[i], message |-> message] \in Rows
    BY <2>3 DEF Rows
  <2>5. stored' \in Seq(Rows)
    BY <2>1, <2>4, IsASeq
  <2> QED
    BY <2>2, <2>5 DEF CsvInv
<1> QED
  BY <1>1, <1>2

LEMMA ImportPendingInv == CsvInv /\ ImportPending => CsvInv'
<1> SUFFICES ASSUME CsvInv, ImportPending PROVE CsvInv'
  OBVIOUS
<1>1. ~ Malformed(WritePending(stored)) /\ ParseCsv(WritePending(stored)) = FileBack(stored)
  BY PendingFileRead DEF CsvInv
<1>2. stage' = "back" /\ back' = FileBack(stored) /\ stored' = stored /\ text' = text
  BY <1>1 DEF ImportPending
<1> QED
  BY <1>2 DEF CsvInv

LEMMA CsvNextInv == CsvInv /\ [CsvNext]_csvVars => CsvInv'
<1>1. CsvInv /\ UNCHANGED csvVars => CsvInv'
  BY DEF CsvInv, csvVars
<1> QED
  BY <1>1, ImportInv, ImportPendingInv DEF CsvNext

\* What came back has the cells that were stored.
LEMMA CsvInvComesBack == CsvInv => ComesBack
<1> SUFFICES ASSUME CsvInv, stage \in {"back", "unreadable"}
             PROVE  /\ stage = "back"
                    /\ Len(back) = Len(stored)
                    /\ \A i \in DOMAIN stored :
                           SubSeq(back[i], 1, Columns) = Padded(stored[i].raw)
  BY DEF ComesBack
<1>1. stored \in Seq(Rows) /\ stage = "back" /\ back = FileBack(stored)
  BY DEF CsvInv
<1>2. Len(back) = Len(stored) /\ \A i \in 1..Len(stored) : back[i] = RowBack(stored[i])
  BY <1>1, FileBackTyped
<1>3. ASSUME NEW i \in DOMAIN stored PROVE SubSeq(back[i], 1, Columns) = Padded(stored[i].raw)
  <2>1. i \in 1..Len(stored) /\ stored[i] \in Rows
    BY <1>1
  <2>2. SubSeq(RowBack(stored[i]), 1, Columns) = Padded(stored[i].raw)
    BY <2>1, RowBackIs
  <2> QED
    BY <1>2, <2>1, <2>2
<1> QED
  BY <1>1, <1>2, <1>3

\* pendingCsv and parseCsv: whatever text was uploaded, whatever the message, the
\* correction file that an import writes is read again, and brings back every line
\* with every cell as it was stored.
THEOREM ComesBackHolds == CsvSpec => []ComesBack
<1>1. CsvInit => CsvInv
  BY CsvInitInv
<1>2. CsvInv /\ [CsvNext]_csvVars => CsvInv'
  BY CsvNextInv
<1>3. CsvInv => ComesBack
  BY CsvInvComesBack
<1> QED
  BY <1>1, <1>2, <1>3, PTL DEF CsvSpec

-----------------------------------------------------------------------------
(* DemoData. *)

\* What a record of a sale says at hour t: it was made and changed before t, in
\* this order, and is canceled, installed or planned.
SaleTrue(s, t) ==
    /\ s.daysAgo \in Nat /\ s.date = - 24 * s.daysAgo
    /\ s.createdAt \in Int /\ s.createdAt <= t /\ s.createdAt < s.date + 24
    /\ s.changedAt # Never =>
         s.changedAt \in Int /\ s.createdAt < s.changedAt /\ s.changedAt < 0
    /\ s.row.installedAt # Never =>
         s.row.installedAt \in Int /\ s.date < s.row.installedAt /\ s.row.installedAt < 0
    /\ s.row.scheduleDate # Never => s.row.scheduleDate \in Int /\ t < s.row.scheduleDate + 3
    /\ s.row.canceledAt # Never <=> s.status = "CANCELADA"
    /\ \E f \in {"canceledAt", "installedAt", "scheduleDate"} :
          /\ s.row[f] # Never
          /\ \A g \in {"canceledAt", "installedAt", "scheduleDate"} \ {f} : s.row[g] = Never
    /\ s.changedAt = Never => s.status = "GROSS"

\* Its logs: the creation, and the change if there was one.
LogsTrue(s, logs) ==
    /\ \E l \in logs : l.sale = s.nr /\ l.to = s.status
                           /\ l.at = IF s.changedAt = Never THEN s.createdAt ELSE s.changedAt
    /\ \A l \in logs : l.sale = s.nr => l.at = s.createdAt \/ (l.at = s.changedAt /\ s.changedAt # Never)

SalesAgree ==
    \A i \in DOMAIN demoSales :
        /\ demoSales[i].nr = i /\ demoSales[i].customer \in DemoCustomers
        /\ SaleTrue(demoSales[i], now) /\ LogsTrue(demoSales[i], demoLogs)
        /\ firstSaleAt[demoSales[i].customer] \in Int
        /\ firstSaleAt[demoSales[i].customer] < demoSales[i].date + 24

CustomersAgree ==
    \A c \in DemoCustomers : firstSaleAt[c] # Never =>
        /\ firstSaleAt[c] \in Int
        /\ \E i \in DOMAIN demoSales : firstSaleAt[c] < demoSales[i].date + 24

DemoInv ==
    /\ now \in 3..26
    /\ demoSales = [i \in 1..Len(demoSales) |-> demoSales[i]] /\ Len(demoSales) \in Nat
    /\ SalesAgree /\ CustomersAgree
    /\ \A l \in demoLogs : l.sale \in DOMAIN demoSales
    /\ firstSaleAt = [c \in DemoCustomers |-> firstSaleAt[c]]
    /\ \A n \in notified : n.at <= now
    /\ \A x \in imported : x \in DOMAIN demoSales /\ demoSales[x].createdAt < now

\* The proofs use no more of the generator than that it stays in the interval.
LEMMA InInterval == \A lo, hi \in Int : lo <= hi => RandomInt(lo, hi) \subseteq lo..hi
BY DEF RandomInt

LEMMA LesserIsLess == \A a, b \in Int : Lesser(a, b) \in {a, b} /\ Lesser(a, b) <= a /\ Lesser(a, b) <= b
BY DEF Lesser

\* The change of a sale comes after its day and before today.
LEMMA ChangesPast ==
    ASSUME NEW d \in Nat, d >= 2, NEW most \in Nat, most >= 1, NEW hour \in 0..23,
           NEW c \in Changes(d, most, hour)
    PROVE  c \in Int /\ - 24 * d + 24 + hour <= c /\ c < 0
<1>1. PICK n \in RandomInt(1, Lesser(most, d - 1)) : c = AddDays(DateOf(d), n) + hour
  BY DEF Changes
<1>2. Lesser(most, d - 1) \in Int /\ 1 <= Lesser(most, d - 1) /\ Lesser(most, d - 1) <= d - 1
  BY LesserIsLess
<1>3. n \in Int /\ 1 <= n /\ n <= d - 1
  BY <1>2, InInterval
<1> QED
  BY <1>1, <1>3 DEF AddDays, DateOf

LEMMA StatusChangesAre ==
    ASSUME NEW d \in Nat, NEW u \in StatusChanges(d)
    PROVE  \/ u.status = "GROSS" /\ u.changedAt = Never
           \/ u.status = "AG_INSTALACAO" /\ d >= 2 /\ u.changedAt \in Changes(d, 5, 17)
<1>1. CASE d < 2
  <2>1. u \in {[status |-> "GROSS", changedAt |-> Never]}
    BY <1>1 DEF StatusChanges
  <2> QED
    BY <2>1
<1>2. CASE ~ (d < 2)
  <2>1. StatusChanges(d) = {[status |-> "GROSS", changedAt |-> Never]}
                           \cup {[status |-> "AG_INSTALACAO", changedAt |-> c] : c \in Changes(d, 5, 17)}
    BY <1>2 DEF StatusChanges
  <2> QED
    BY <1>2, <2>1
<1> QED
  BY <1>1, <1>2

LEMMA OutcomeTrue ==
    ASSUME NEW d \in Nat, NEW t \in 3..26, NEW o \in SaleOutcome(d), NEW s,
           s.daysAgo = d, s.date = DateOf(d), s.createdAt \in Int, s.createdAt <= t,
           s.createdAt <= s.date + 21, s.changedAt = o.changedAt, s.status = o.status,
           s.row = OutcomeFields(o)
    PROVE  SaleTrue(s, t)
<1>1. s.date = - 24 * d /\ s.date \in Int /\ s.createdAt < s.date + 24
  BY DEF DateOf
<1>2. /\ s.row.canceledAt = IF o.status = "CANCELADA" THEN o.changedAt ELSE Never
      /\ s.row.installedAt = o.installedAt /\ s.row.scheduleDate = o.scheduleDate
  BY DEF OutcomeFields
<1>3. CASE o \in Canceled(d)
  <2>1. PICK c \in Changes(d, 10, 18) : d > 2 /\ o = [status |-> "CANCELADA", changedAt |-> c,
                                                      installedAt |-> Never, scheduleDate |-> Never]
    BY <1>3 DEF Canceled
  <2>2. c \in Int /\ - 24 * d + 24 + 18 <= c /\ c < 0
    BY <2>1, ChangesPast
  <2>3. s.createdAt < c /\ c # Never
    BY <1>1, <2>2, DemoAssumption
  <2>4. /\ s.changedAt = c /\ s.status = "CANCELADA" /\ s.row.canceledAt = c
        /\ s.row.installedAt = Never /\ s.row.scheduleDate = Never
    BY <1>2, <2>1
  <2> QED
    BY <1>1, <2>2, <2>3, <2>4 DEF SaleTrue
<1>4. CASE o \in Kept(d)
  <2>1. PICK u \in StatusChanges(d), i \in Installations(d), n \in RandomInt(1, 7) :
          o = [status |-> u.status, changedAt |-> u.changedAt, installedAt |-> i,
               scheduleDate |-> IF i = Never THEN AddDays(0, n) ELSE Never]
    BY <1>4 DEF Kept
  <2>2. \/ u.status = "GROSS" /\ u.changedAt = Never
        \/ u.status = "AG_INSTALACAO" /\ d >= 2 /\ u.changedAt \in Changes(d, 5, 17)
    BY <2>1, StatusChangesAre
  <2>3. /\ s.row.canceledAt = Never /\ s.status # "CANCELADA"
        /\ \/ s.changedAt = Never /\ s.status = "GROSS"
           \/ s.changedAt \in Int /\ s.createdAt < s.changedAt /\ s.changedAt < 0
    <3>0. s.status = u.status /\ s.changedAt = u.changedAt
          /\ (u.status # "CANCELADA" => s.row.canceledAt = Never)
      BY <1>2, <2>1
    <3>1. CASE u.status = "GROSS" /\ u.changedAt = Never
      BY <3>0, <3>1
    <3>2. CASE u.status = "AG_INSTALACAO" /\ d >= 2 /\ u.changedAt \in Changes(d, 5, 17)
      <4>2. u.changedAt \in Int /\ - 24 * d + 24 + 17 <= u.changedAt /\ u.changedAt < 0
        BY <3>2, ChangesPast
      <4> QED
        BY <1>1, <3>0, <3>2, <4>2
    <3> QED
      BY <2>2, <3>1, <3>2
  <2>4. i = Never \/ (i \in Int /\ s.date < i /\ i < 0)
    <3> SUFFICES ASSUME i # Never PROVE i \in Int /\ s.date < i /\ i < 0
      OBVIOUS
    <3>1. PICK m \in RandomInt(2, Lesser(10, d - 1)) : d >= 7 /\ i = AddDays(DateOf(d), m)
      BY <2>1 DEF Installations
    <3>2. Lesser(10, d - 1) \in Int /\ 2 <= Lesser(10, d - 1) /\ Lesser(10, d - 1) <= d - 1
      BY <3>1, LesserIsLess
    <3>3. m \in Int /\ 2 <= m /\ m <= d - 1
      BY <3>2, InInterval
    <3> QED
      BY <1>1, <3>1, <3>3 DEF AddDays, DateOf
  <2>5. n \in Int /\ 1 <= n /\ n <= 7
    BY <2>1, InInterval
  <2>6. AddDays(0, n) = 24 * n /\ AddDays(0, n) \in Int /\ t < AddDays(0, n) + 3 /\ AddDays(0, n) # Never
    BY <2>5, DemoAssumption DEF AddDays
  <2>7. s.row.installedAt = i /\ s.row.scheduleDate = IF i = Never THEN AddDays(0, n) ELSE Never
    BY <1>2, <2>1
  <2> HIDE DEF AddDays
  <2> QED
    BY <1>1, <2>3, <2>4, <2>6, <2>7, DemoAssumption DEF SaleTrue
<1> QED
  BY <1>3, <1>4 DEF SaleOutcome

LEMMA DrawKeeps ==
    ASSUME DemoInv, NEW d \in DaysAgo, NEW hour \in RandomInt(11, 21), NEW customer \in DemoCustomers,
           NEW seller, NEW o \in SaleOutcome(d), Draw(d, hour, customer, seller, o)
    PROVE  DemoInv'
<1> DEFINE made == Lesser(DateOf(d) + hour, now)
           sale == [nr |-> Len(demoSales) + 1, daysAgo |-> d, date |-> DateOf(d),
                    createdAt |-> made, customer |-> customer, seller |-> seller,
                    status |-> o.status, changedAt |-> o.changedAt, row |-> OutcomeFields(o)]
           size == Len(demoSales)
<1>1. now \in 3..26 /\ now \in Int /\ d \in Nat /\ size \in Nat
  <2>1. now \in 3..26 /\ size \in Nat
    BY DEF DemoInv
  <2> QED
    BY <2>1, DemoAssumption
<1>2. hour \in Int /\ 11 <= hour /\ hour <= 21
  BY InInterval
<1>3. DateOf(d) \in Int /\ DateOf(d) = - 24 * d
  BY <1>1 DEF DateOf
<1>4. made \in Int /\ made <= now /\ made <= DateOf(d) + 21
  BY <1>1, <1>2, <1>3, LesserIsLess
<1>5. SaleTrue(sale, now)
  <2> HIDE DEF made
  <2>1. /\ sale.daysAgo = d /\ sale.date = DateOf(d) /\ sale.createdAt = made
        /\ sale.changedAt = o.changedAt /\ sale.status = o.status /\ sale.row = OutcomeFields(o)
    OBVIOUS
  <2> HIDE DEF sale
  <2> QED
    BY <1>1, <1>4, <2>1, OutcomeTrue
<1>6. /\ demoSales' = Append(demoSales, sale)
      /\ firstSaleAt' = IF firstSaleAt[customer] = Never
                        THEN [firstSaleAt EXCEPT ![customer] = made] ELSE firstSaleAt
      /\ demoLogs' = demoLogs
            \cup {[sale |-> sale.nr, from |-> "none", to |-> "GROSS", at |-> made]}
            \cup (IF o.changedAt = Never THEN {}
                  ELSE {[sale |-> sale.nr, from |-> "GROSS", to |-> o.status, at |-> o.changedAt]})
      /\ UNCHANGED <<now, notified, imported, built>>
      /\ \A i \in DOMAIN demoSales : demoSales[i].daysAgo >= d
  BY DEF Draw, Sorted
<1>7. /\ sale.nr = size + 1 /\ sale.customer = customer /\ sale.createdAt = made /\ sale.date = DateOf(d)
      /\ sale.status = o.status /\ sale.changedAt = o.changedAt
  OBVIOUS
<1> HIDE DEF made, sale
<1>8. /\ DOMAIN demoSales = 1..size /\ DOMAIN demoSales' = 1..(size + 1)
      /\ Len(demoSales') = size + 1 /\ demoSales'[size + 1] = sale
      /\ demoSales' = [i \in 1..(size + 1) |-> demoSales'[i]]
      /\ \A i \in 1..size : demoSales'[i] = demoSales[i]
  <2>1. demoSales = [i \in 1..size |-> demoSales[i]]
    BY DEF DemoInv
  <2> DEFINE all == {demoSales[i] : i \in 1..size} \cup {sale}
  <2>2. demoSales \in Seq(all)
    <3>1. \A i \in 1..size : demoSales[i] \in all
      OBVIOUS
    <3> HIDE DEF all
    <3> QED
      BY <1>1, <2>1, <3>1, SeqDef
  <2>3. sale \in all
    OBVIOUS
  <2> HIDE DEF all
  <2>4. /\ Len(demoSales') = size + 1 /\ demoSales' \in Seq(all) /\ demoSales'[size + 1] = sale
        /\ \A i \in 1..size : demoSales'[i] = demoSales[i]
    BY <1>6, <2>2, <2>3, AppendProperties
  <2> QED
    BY <1>1, <2>1, <2>4
<1>9. firstSaleAt'[customer] \in Int /\ firstSaleAt'[customer] < DateOf(d) + 24
  <2>1. CASE firstSaleAt[customer] = Never
    BY <1>3, <1>4, <1>6, <2>1 DEF DemoInv, SalesAgree, CustomersAgree
  <2>2. CASE firstSaleAt[customer] # Never
    <3>1. PICK i \in DOMAIN demoSales : firstSaleAt[customer] < demoSales[i].date + 24
      BY <2>2 DEF DemoInv, SalesAgree, CustomersAgree
    <3>2. demoSales[i].daysAgo \in Nat /\ demoSales[i].date = - 24 * demoSales[i].daysAgo
          /\ demoSales[i].daysAgo >= d /\ firstSaleAt[customer] \in Int
      BY <1>6, <2>2, <3>1 DEF DemoInv, SalesAgree, CustomersAgree, SaleTrue
    <3>3. demoSales[i].date \in Int /\ demoSales[i].date <= DateOf(d)
      BY <1>1, <1>3, <3>2
    <3>4. firstSaleAt'[customer] = firstSaleAt[customer]
      BY <1>6, <2>2
    <3> QED
      BY <1>3, <3>1, <3>2, <3>3, <3>4
  <2> QED
    BY <2>1, <2>2
<1>10. \A c \in DemoCustomers \ {customer} : firstSaleAt'[c] = firstSaleAt[c]
  BY <1>6 DEF DemoInv
<1>11. \A i \in 1..size : firstSaleAt'[demoSales[i].customer] = firstSaleAt[demoSales[i].customer]
  BY <1>6, <1>8, DemoAssumption DEF DemoInv, SalesAgree
<1>12. \A i \in 1..size : \A l \in demoLogs' : l.sale = i => l \in demoLogs
  BY <1>1, <1>6, <1>7
<1>13. \A i \in 1..size : LogsTrue(demoSales[i], demoLogs')
  BY <1>6, <1>8, <1>12 DEF DemoInv, SalesAgree, LogsTrue
<1>14. LogsTrue(sale, demoLogs')
  <2>1. \A l \in demoLogs : l.sale # size + 1
    BY <1>1, <1>8 DEF DemoInv
  <2>2. o.changedAt = Never => o.status = "GROSS"
    BY <1>5, <1>7 DEF SaleTrue
  <2>3. o.changedAt = Never \/ o.changedAt \in Int
    BY <1>5, <1>7 DEF SaleTrue
  <2> DEFINE born == [sale |-> sale.nr, from |-> "none", to |-> "GROSS", at |-> made]
             turned == [sale |-> sale.nr, from |-> "GROSS", to |-> o.status, at |-> o.changedAt]
  <2>4. /\ born.sale = sale.nr /\ born.to = "GROSS" /\ born.at = made
        /\ turned.sale = sale.nr /\ turned.to = o.status /\ turned.at = o.changedAt
    OBVIOUS
  <2>5. demoLogs' = demoLogs \cup {born} \cup (IF o.changedAt = Never THEN {} ELSE {turned})
    BY <1>6
  <2> HIDE DEF born, turned
  <2>6. CASE o.changedAt = Never
    <3>1. \A l \in demoLogs' : l.sale = sale.nr => l = born
      BY <1>7, <2>1, <2>5, <2>6
    <3>2. born \in demoLogs'
      BY <2>5
    <3> QED
      BY <1>7, <2>2, <2>4, <2>6, <3>1, <3>2 DEF LogsTrue
  <2>7. CASE o.changedAt # Never
    <3>1. \A l \in demoLogs' : l.sale = sale.nr => l = born \/ l = turned
      BY <1>7, <2>1, <2>5, <2>7
    <3>2. turned \in demoLogs'
      BY <2>5, <2>7
    <3> QED
      BY <1>7, <2>4, <2>7, <3>1, <3>2 DEF LogsTrue
  <2> QED
    BY <2>6, <2>7
<1>15. \A i \in 1..(size + 1) :
         /\ demoSales'[i].nr = i /\ demoSales'[i].customer \in DemoCustomers
         /\ SaleTrue(demoSales'[i], now') /\ LogsTrue(demoSales'[i], demoLogs')
         /\ firstSaleAt'[demoSales'[i].customer] \in Int
         /\ firstSaleAt'[demoSales'[i].customer] < demoSales'[i].date + 24
  <2>1. ASSUME NEW i \in 1..size
        PROVE  /\ demoSales'[i].nr = i /\ demoSales'[i].customer \in DemoCustomers
               /\ SaleTrue(demoSales'[i], now') /\ LogsTrue(demoSales'[i], demoLogs')
               /\ firstSaleAt'[demoSales'[i].customer] \in Int
               /\ firstSaleAt'[demoSales'[i].customer] < demoSales'[i].date + 24
    <3>1. demoSales'[i] = demoSales[i] /\ now' = now /\ i \in DOMAIN demoSales
      BY <1>6, <1>8
    <3>2. /\ demoSales[i].nr = i /\ demoSales[i].customer \in DemoCustomers
          /\ SaleTrue(demoSales[i], now) /\ firstSaleAt[demoSales[i].customer] \in Int
          /\ firstSaleAt[demoSales[i].customer] < demoSales[i].date + 24
      BY <3>1 DEF DemoInv, SalesAgree
    <3>3. LogsTrue(demoSales[i], demoLogs')
      BY <1>13
    <3>4. firstSaleAt'[demoSales[i].customer] = firstSaleAt[demoSales[i].customer]
      BY <1>11
    <3> QED
      BY <3>1, <3>2, <3>3, <3>4
  <2>2. /\ demoSales'[size + 1].nr = size + 1 /\ demoSales'[size + 1].customer \in DemoCustomers
        /\ SaleTrue(demoSales'[size + 1], now') /\ LogsTrue(demoSales'[size + 1], demoLogs')
        /\ firstSaleAt'[demoSales'[size + 1].customer] \in Int
        /\ firstSaleAt'[demoSales'[size + 1].customer] < demoSales'[size + 1].date + 24
    BY <1>5, <1>6, <1>7, <1>8, <1>9, <1>14
  <2>3. \A i \in 1..(size + 1) : i \in 1..size \/ i = size + 1
    BY <1>1
  <2> QED
    BY <2>1, <2>2, <2>3
<1>16. \A l \in demoLogs' : l.sale \in 1..(size + 1)
  BY <1>1, <1>6, <1>7, <1>8 DEF DemoInv
<1>17. \A c \in DemoCustomers : firstSaleAt'[c] # Never =>
         /\ firstSaleAt'[c] \in Int
         /\ \E i \in 1..(size + 1) : firstSaleAt'[c] < demoSales'[i].date + 24
  <2>1. \E i \in 1..(size + 1) : firstSaleAt'[customer] < demoSales'[i].date + 24
    BY <1>1, <1>7, <1>8, <1>9
  <2>2. \A c \in DemoCustomers \ {customer} : firstSaleAt'[c] # Never =>
          firstSaleAt'[c] \in Int /\ \E i \in 1..size : firstSaleAt'[c] < demoSales[i].date + 24
    BY <1>8, <1>10 DEF DemoInv, CustomersAgree
  <2> QED
    BY <1>1, <1>8, <1>9, <2>1, <2>2
<1>18. \A x \in imported' : x \in 1..(size + 1) /\ demoSales'[x].createdAt < now'
  BY <1>1, <1>6, <1>8 DEF DemoInv
<1>19. firstSaleAt' = [c \in DemoCustomers |-> firstSaleAt'[c]]
  BY <1>6 DEF DemoInv
<1>20. now' \in 3..26 /\ \A n \in notified' : n.at <= now'
  BY <1>6 DEF DemoInv
<1>21. demoSales' = [i \in 1..Len(demoSales') |-> demoSales'[i]] /\ Len(demoSales') \in Nat
  BY <1>1, <1>8
<1>22. \A i \in DOMAIN demoSales' :
         /\ demoSales'[i].nr = i /\ demoSales'[i].customer \in DemoCustomers
         /\ SaleTrue(demoSales'[i], now') /\ LogsTrue(demoSales'[i], demoLogs')
         /\ firstSaleAt'[demoSales'[i].customer] \in Int
         /\ firstSaleAt'[demoSales'[i].customer] < demoSales'[i].date + 24
  BY <1>8, <1>15
<1>23. \A l \in demoLogs' : l.sale \in DOMAIN demoSales'
  BY <1>8, <1>16
<1>24. \A c \in DemoCustomers : firstSaleAt'[c] # Never =>
         /\ firstSaleAt'[c] \in Int
         /\ \E i \in DOMAIN demoSales' : firstSaleAt'[c] < demoSales'[i].date + 24
  BY <1>8, <1>17
<1>25. \A x \in imported' : x \in DOMAIN demoSales' /\ demoSales'[x].createdAt < now'
  BY <1>8, <1>18
<1>26. SalesAgree'
  BY <1>22 DEF SalesAgree
<1>27. CustomersAgree'
  BY <1>24 DEF CustomersAgree
<1> QED
  BY <1>19, <1>20, <1>21, <1>23, <1>25, <1>26, <1>27 DEF DemoInv

LEMMA FinishKeeps == ASSUME DemoInv, NEW seller, Finish(seller) PROVE DemoInv'
<1>0. now \in Int /\ 3 <= now
  <2>1. now \in 3..26
    BY DEF DemoInv
  <2> QED
    BY <2>1
<1>1. UNCHANGED <<now, demoSales, demoLogs, firstSaleAt>>
  BY DEF Finish
<1>2. \A s \in AllSales : s.createdAt \in Int /\ s.createdAt <= now /\ (s.changedAt # Never => s.changedAt \in Int /\ s.changedAt < 0)
      /\ s.nr \in DOMAIN demoSales /\ demoSales[s.nr] = s
  BY DEF AllSales, DemoInv, SalesAgree, CustomersAgree, SaleTrue
<1>3. \A n \in notified' : n.at <= now
  <2>1. \A n \in SaleNotices(seller) : n.at <= now
    BY <1>0, <1>2 DEF SaleNotices
  <2>2. DueNotice.at <= now
    BY <1>0, LesserIsLess DEF DueNotice
  <2> QED
    BY <2>1, <2>2 DEF Finish
<1>4. \A x \in imported' : x \in DOMAIN demoSales /\ demoSales[x].createdAt < now
  <2>1. ImportedAt = - 707
    BY DEF ImportedAt, AddDays
  <2>2. \A x \in Imported : \E s \in AllSales : x = s.nr /\ s.createdAt < - 707
    BY <2>1 DEF Imported
  <2> QED
    BY <1>0, <1>2, <2>2 DEF Finish
<1> QED
  BY <1>1, <1>3, <1>4 DEF DemoInv, SalesAgree, CustomersAgree, LogsTrue

\* Whatever the generator draws within its intervals, whenever the set is built:
\* nothing that is told of as past lies ahead, and the records agree.
THEOREM DemoHistoryHolds == DemoSpec => []DemoHistory
<1>1. DemoInit => DemoInv
  <2> SUFFICES ASSUME DemoInit PROVE DemoInv
    OBVIOUS
  <2>1. now \in 3..26
    BY DemoAssumption DEF DemoInit
  <2>2. demoSales = <<>> /\ Len(demoSales) = 0 /\ demoSales = [i \in 1..Len(demoSales) |-> demoSales[i]]
        /\ DOMAIN demoSales = {}
    BY DEF DemoInit
  <2> QED
    BY <2>1, <2>2 DEF DemoInit, DemoInv, SalesAgree, CustomersAgree
<1>2. DemoInv /\ [DemoNext]_demoVars => DemoInv'
  <2> SUFFICES ASSUME DemoInv, [DemoNext]_demoVars PROVE DemoInv'
    OBVIOUS
  <2>1. CASE DrawSale
    <3>1. PICK d \in DaysAgo, hour \in RandomInt(11, 21), seller \in DemoSellers :
            \E customer \in LET fresh == {c \in DemoCustomers : firstSaleAt[c] = Never}
                            IN  IF fresh = {} THEN DemoCustomers ELSE {CHOOSE c \in fresh : TRUE} :
                \E o \in SaleOutcome(d) : Draw(d, hour, customer, seller, o)
      BY <2>1 DEF DrawSale
    <3>2. PICK customer \in DemoCustomers, o \in SaleOutcome(d) : Draw(d, hour, customer, seller, o)
      BY <3>1
    <3> QED
      BY <3>2, DrawKeeps
  <2>2. CASE \E seller \in DemoSellers : Finish(seller)
    BY <2>2, FinishKeeps
  <2>3. CASE UNCHANGED demoVars
    BY <2>3 DEF demoVars, DemoInv, SalesAgree, CustomersAgree, LogsTrue
  <2> QED
    BY <2>1, <2>2, <2>3 DEF DemoNext
<1>3. DemoInv => DemoHistory
  <2> SUFFICES ASSUME DemoInv PROVE DemoHistory
    OBVIOUS
  <2>1. \A s \in AllSales : SaleTrue(s, now) /\ LogsTrue(s, demoLogs) /\ firstSaleAt[s.customer] < s.date + 24
    BY DEF AllSales, DemoInv, SalesAgree, CustomersAgree
  <2>2. NothingAhead
    BY <2>1 DEF NothingAhead, DemoInv, SalesAgree, CustomersAgree, SaleTrue
  <2>3. ASSUME NEW s \in AllSales
        PROVE  /\ Cardinality({f \in {"canceledAt", "installedAt", "scheduleDate"} : s.row[f] # Never}) = 1
               /\ s.row.canceledAt # Never <=> s.status = "CANCELADA"
               /\ firstSaleAt[s.customer] < AddDays(s.date, 1)
    <3>1. PICK f \in {"canceledAt", "installedAt", "scheduleDate"} :
            {g \in {"canceledAt", "installedAt", "scheduleDate"} : s.row[g] # Never} = {f}
      BY <2>1, <2>3 DEF SaleTrue
    <3>2. Cardinality({f}) = 1
      BY FS_Singleton
    <3>3. Cardinality({g \in {"canceledAt", "installedAt", "scheduleDate"} : s.row[g] # Never}) = 1
      BY <3>1, <3>2
    <3>4. (s.row.canceledAt # Never <=> s.status = "CANCELADA") /\ firstSaleAt[s.customer] < AddDays(s.date, 1)
      BY <2>1 DEF SaleTrue, AddDays
    <3> QED
      BY <3>3, <3>4
  <2>4. ASSUME NEW s \in AllSales
        PROVE  \E l \in demoLogs : l.sale = s.nr /\ l.to = s.status
                                   /\ \A k \in demoLogs : k.sale = s.nr => k.at <= l.at
    BY <2>1, <2>4 DEF LogsTrue, SaleTrue
  <2> QED
    BY <2>2, <2>3, <2>4 DEF DemoHistory, RecordsAgree
<1> QED
  BY <1>1, <1>2, <1>3, PTL DEF DemoSpec

=============================================================================
