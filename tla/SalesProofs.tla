---------------------------- MODULE SalesProofs ----------------------------
(* Theorems about Sales, for any number of users, sales, plans and requests. *)
EXTENDS Sales, TLAPS

\* What the checks a request has passed say about the rows it read.
Passed(r) == pc[r] \in {"checked", "stored"}

\* A request past its first read holds a row, and the sale is still there: no
\* handler deletes sales.  Until a create writes there is no such sale.
RowsHeld ==
    \A r \in Requests :
        /\ call[r].op # "create" /\ pc[r] \notin {"new", "refused"} =>
               before[r] \in Sale /\ Row(r) \in Sale
        /\ call[r].op # "create" /\ pc[r] \in {"stored"} => base[r] \in Sale
        /\ call[r].op = "create" /\ pc[r] \in {"new", "read", "checked"} => Row(r) = NULL
        /\ pc[r] \in {"written", "audited", "done"} => after[r] \in Sale

\* The plan and the price a request that passed its checks was checked with: the
\* price fits the range of now, unless that range was edited since.
PriceChecked ==
    \A r \in Requests : Passed(r) =>
        /\ call[r].op = "create" => call[r].plan \in Plans
        /\ call[r].op = "update" => PlanChecked(r) # NULL
        /\ Prices(call[r]) /\ r \notin outdated =>
               InRange(PlanChecked(r), Given(call[r].amount, before[r].amount))

IInv == TypeOK /\ FreshIds(call) /\ RowsHeld /\ PriceChecked

-----------------------------------------------------------------------------
\* Every handler that writes leaves a well-formed row.
LEMMA ResultIsSale ==
    ASSUME IInv, NEW r \in Requests, ReadyToWrite(r)
    PROVE  Result(r, Row(r), before[r]) \in Sale
<1> DEFINE c == call[r]
<1>1. c \in Input /\ c \in Dto /\ Complete(c)
  BY SalesAssumption DEF IInv, TypeOK, Input
<1>2. Passed(r)
  BY DEF ReadyToWrite, Passed
<1>3. CASE c.op = "create"
  <2>1. c.plan \in Plans /\ NewSeller(c) \in Users
    BY <1>1, <1>2, <1>3 DEF IInv, PriceChecked, NewSeller, Given, Dto
  <2>2. c.status \in Statuses /\ c.amount \in Amounts
    BY <1>1, <1>3 DEF Dto, Complete
  <2>3. Given(c.brscan, FALSE) \in BOOLEAN /\ Given(c.auditNote, FALSE) \in BOOLEAN
    BY <1>1 DEF Dto, Given
  <2> QED
    BY <1>3, <2>1, <2>2, <2>3 DEF Result, Sale
<1>4. CASE c.op # "create"
  <2>1. Row(r) \in Sale /\ before[r] \in Sale
    BY <1>2, <1>4 DEF IInv, RowsHeld, Passed
  <2>2. CASE c.op = "update"
    <3>1. Given(c.plan, Row(r).plan) \in Plans
      BY <1>1, <1>2, <2>1, <2>2, SalesAssumption DEF IInv, PriceChecked, PlanChecked, Given, Dto, Sale
    <3>2. Given(c.amount, Row(r).amount) \in Amounts
      BY <1>1, <2>1 DEF Given, Dto, Sale
    <3>3. NextBrscan(c, before[r], Row(r).brscan) \in BOOLEAN
      BY <1>1, <2>1 DEF NextBrscan, BrscanChanged, Dto, Sale
    <3>4. Given(c.auditNote, Row(r).auditNote) \in BOOLEAN
      BY <1>1, <2>1 DEF Given, Dto, Sale
    <3> QED
      BY <2>1, <2>2, <3>1, <3>2, <3>3, <3>4 DEF Result, Sale
  <2>3. CASE c.op = "status"
    BY <1>1, <2>1, <2>3 DEF Result, Sale, Dto, Complete
  <2>4. CASE c.op = "seller"
    BY <1>1, <2>1, <2>4 DEF Result, Sale, Dto, Complete
  <2>5. CASE c.op = "cancel"
    BY <1>1, <2>1, <2>5, SalesAssumption DEF Result, Sale, Dto, Complete
  <2>6. CASE c.op = "brscan"
    BY <1>1, <2>1, <2>6 DEF Result, Sale, Dto, Complete
  <2>7. CASE c.op = "audit"
    BY <1>1, <2>1, <2>7 DEF Result, Sale, Dto, Complete
  <2> QED
    BY <1>1, <1>4, <2>2, <2>3, <2>4, <2>5, <2>6, <2>7 DEF Dto, Ops
<1> QED
  BY <1>3, <1>4

\* Notifications go to users.
LEMMA RecipientsAreUsers ==
    ASSUME IInv, NEW r \in Requests, pc[r] = "audited"
    PROVE  Recipients(r) \subseteq Users
<1>1. call[r] \in Dto /\ Complete(call[r])
  BY SalesAssumption DEF IInv, TypeOK, Input
<1>2. call[r].op # "create" => before[r].seller \in Users
  BY DEF IInv, RowsHeld, Sale
<1>3. NewSeller(call[r]) \in Users /\ Watchers \subseteq Users
  BY <1>1, SalesAssumption DEF NewSeller, Given, Dto
<1>4. call[r].op = "seller" => call[r].seller \in Users
  BY <1>1 DEF Dto, Complete
<1>5. CASE call[r].op = "create"
  BY <1>3, <1>5 DEF Recipients
<1>6. CASE call[r].op = "seller"
  BY <1>2, <1>3, <1>4, <1>6 DEF Recipients
<1>7. CASE call[r].op \in {"update", "status", "cancel"}
  BY <1>2, <1>3, <1>7 DEF Recipients
<1>8. CASE call[r].op \in {"brscan", "audit"}
  BY <1>8 DEF Recipients
<1> QED
  BY <1>1, <1>5, <1>6, <1>7, <1>8 DEF Dto, Ops

LEMMA InitIInv == Init => IInv
<1> SUFFICES ASSUME Init PROVE IInv
  OBVIOUS
<1>0. /\ store \in [SaleIds -> Sale \cup {NULL}]
      /\ call \in [Requests -> Inputs]
      /\ \A s \in SaleIds : store[s] # NULL => store[s] \in Sale
      /\ \A r \in Requests : call[r].sale \in SaleIds
  BY SalesAssumption DEF Init, Input, Dto
<1>1. TypeOK
  <2>1. told \in [SaleIds -> SUBSET Users]
    BY <1>0 DEF Init, Sale
  <2> QED
    BY <1>0, <2>1, SalesAssumption DEF Init, TypeOK, Phases
<1>2. RowsHeld
  <2> SUFFICES ASSUME NEW r \in Requests, call[r].op = "create"
               PROVE  Row(r) = NULL
    BY DEF Init, RowsHeld
  <2> QED
    BY <1>0 DEF Init, Row
<1>3. PriceChecked
  BY DEF Init, PriceChecked, Passed
<1> QED
  BY <1>1, <1>2, <1>3 DEF Init, IInv

\* A write replaces the row of one sale by a row; the other sales stay.
LEMMA WriteStore ==
    ASSUME IInv, NEW r \in Requests, Write(r)
    PROVE  /\ after'[r] \in Sale
           /\ store'[call[r].sale] = after'[r]
           /\ after'[r] = Result(r, Row(r), before[r])
           /\ \A s \in SaleIds : s # call[r].sale => store'[s] = store[s]
           /\ \A q \in Requests : q # r => after'[q] = after[q]
           /\ \A q \in Requests : q # r => pc'[q] = pc[q]
           /\ pc'[r] = "written"
           /\ call[r].sale \in SaleIds
<1>1. Result(r, Row(r), before[r]) \in Sale
  BY ResultIsSale DEF Write
<1>2. call[r].sale \in SaleIds
  BY SalesAssumption DEF IInv, TypeOK, Input, Dto
<1> QED
  BY <1>1, <1>2 DEF Write, IInv, TypeOK

LEMMA TypeStep == IInv /\ [Next]_vars => TypeOK'
<1> SUFFICES ASSUME IInv, [Next]_vars PROVE TypeOK'
  OBVIOUS
<1>0. TypeOK /\ \A r \in Requests : call[r].sale \in SaleIds
  BY SalesAssumption DEF IInv, TypeOK, Input, Dto
<1>1. ASSUME NEW r \in Requests, Read(r) PROVE TypeOK'
  BY <1>0, <1>1 DEF TypeOK, Read, tables, checks, ranges, ghosts, priced, Row, Phases
<1>2. ASSUME NEW r \in Requests, Check(r) PROVE TypeOK'
  BY <1>0, <1>2 DEF TypeOK, Check, tables, checks, ranges, ghosts, priced, Phases
<1>3. ASSUME NEW r \in Requests, Reread(r) PROVE TypeOK'
  BY <1>0, <1>3 DEF TypeOK, Reread, tables, checks, ranges, ghosts, priced, Row, Phases
<1>4. ASSUME NEW r \in Requests, Write(r) PROVE TypeOK'
  <2>1. Result(r, Row(r), before[r]) \in Sale
    BY <1>4, ResultIsSale DEF Write
  <2>2. store' \in [SaleIds -> Sale \cup {NULL}] /\ after' \in [Requests -> Sale \cup {NULL}]
    BY <1>0, <1>4, <2>1 DEF TypeOK, Write
  <2>3. replaced' \in [Requests -> Sale \cup {NULL, Keep}]
    BY <1>0, <1>4 DEF TypeOK, Write, Row
  <2> QED
    BY <1>0, <1>4, <2>2, <2>3 DEF TypeOK, Write, checks, ranges, Phases
<1>5. ASSUME NEW r \in Requests, Audit(r) PROVE TypeOK'
  <2>1. \A e \in log' : e.req \in Requests /\ e.sale = call'[e.req].sale
    BY <1>0, <1>5 DEF TypeOK, Audit, checks, EntryOf, Entry
  <2>2. faults' \in 0..MaxFaults
    BY <1>0, <1>5, SalesAssumption DEF TypeOK, Audit
  <2> QED
    BY <1>0, <1>5, <2>1, <2>2 DEF TypeOK, Audit, checks, ranges, reads, priced, Phases
<1>6. ASSUME NEW r \in Requests, Notify(r) PROVE TypeOK'
  <2>2. Recipients(r) \subseteq Users
    BY <1>6, RecipientsAreUsers DEF Notify
  <2>3. told' \in [SaleIds -> SUBSET Users]
    BY <1>0, <1>6, <2>2 DEF TypeOK, Notify
  <2>4. faults' \in 0..MaxFaults
    BY <1>0, <1>6, SalesAssumption DEF TypeOK, Notify
  <2> QED
    BY <1>0, <1>6, <2>3, <2>4 DEF TypeOK, Notify, checks, ranges, reads, priced, Phases
<1>7. CASE Restart
  BY <1>0, <1>7, SalesAssumption DEF TypeOK, Restart, tables, reads, ghosts, priced, Phases
<1>8. CASE ToggleActive
  BY <1>0, <1>8, SalesAssumption DEF TypeOK, ToggleActive, ranges, tables, reads, ghosts, priced
<1>9. CASE ToggleEligible
  BY <1>0, <1>9, SalesAssumption DEF TypeOK, ToggleEligible, ranges, tables, reads, ghosts, priced
<1>10. ASSUME NEW d \in PlanEdits, ReadPlan(d) PROVE TypeOK'
  BY <1>0, <1>10, SalesAssumption DEF TypeOK, ReadPlan, tables, reads, ghosts, priced
<1>11. ASSUME NEW d \in PlanEdits, WritePlan(d) PROVE TypeOK'
  <2>1. d.plan \in Plans /\ d.minPrice \in Nat \cup {Keep} /\ d.basePrice \in Nat \cup {Keep}
    BY SalesAssumption DEF PlanEdit
  <2>2. minPrice' \in [Plans -> Nat] /\ basePrice' \in [Plans -> Nat]
    BY <1>0, <1>11, <2>1 DEF TypeOK, WritePlan, Given
  <2>3. doubtful' \subseteq SaleIds /\ outdated' \subseteq Requests /\ editing' \subseteq PlanEdits
    BY <1>0, <1>11 DEF TypeOK, WritePlan
  <2> QED
    BY <1>0, <1>11, <2>2, <2>3 DEF TypeOK, WritePlan, tables, reads
<1>12. CASE UNCHANGED vars
  BY <1>0, <1>12 DEF TypeOK, vars
<1> QED
  BY <1>1, <1>2, <1>3, <1>4, <1>5, <1>6, <1>7, <1>8, <1>9, <1>10, <1>11, <1>12 DEF Next, Handle

\* Only a Write touches the rows of the sales; the others leave store alone.
LEMMA RowsStep == IInv /\ [Next]_vars => RowsHeld'
<1> SUFFICES ASSUME IInv, [Next]_vars PROVE RowsHeld'
  OBVIOUS
<1>0. /\ TypeOK /\ RowsHeld /\ FreshIds(call)
      /\ \A r \in Requests : call[r].sale \in SaleIds /\ call[r].op \in Ops
  BY SalesAssumption DEF IInv, TypeOK, Input, Dto
<1>1. ASSUME NEW r \in Requests, Read(r) PROVE RowsHeld'
  <2>1. Row(r) # NULL => Row(r) \in Sale
    BY <1>0 DEF TypeOK, Row
  <2> QED
    BY <1>0, <1>1, <2>1 DEF TypeOK, RowsHeld, Read, tables, checks, Row
<1>2. ASSUME NEW r \in Requests, Check(r) PROVE RowsHeld'
  BY <1>0, <1>2 DEF TypeOK, RowsHeld, Check, tables, Row
<1>3. ASSUME NEW r \in Requests, Reread(r) PROVE RowsHeld'
  BY <1>0, <1>3 DEF TypeOK, RowsHeld, Reread, tables, Row
<1>4. ASSUME NEW r \in Requests, Write(r) PROVE RowsHeld'
  <2> SUFFICES ASSUME NEW q \in Requests
               PROVE  /\ call[q].op # "create" /\ pc'[q] \notin {"new", "refused"} =>
                             before'[q] \in Sale /\ Row(q)' \in Sale
                      /\ call[q].op # "create" /\ pc'[q] = "stored" => base'[q] \in Sale
                      /\ call[q].op = "create" /\ pc'[q] \in {"new", "read", "checked"} =>
                             Row(q)' = NULL
                      /\ pc'[q] \in {"written", "audited", "done"} => after'[q] \in Sale
    BY <1>4 DEF RowsHeld, Write, checks, Row
  <2>0. /\ call' = call
        /\ store'[call[r].sale] = after'[r]
        /\ \A s \in SaleIds : s # call[r].sale => store'[s] = store[s]
    <3>1. call' = call
      BY <1>4 DEF Write
    <3> QED
      BY <3>1, <1>4, WriteStore
  <2>1. Row(q)' = Row(q) \/ Row(q)' = after'[r]
    BY <1>0, <2>0 DEF Row
  <2>2. call[q].op = "create" /\ pc'[q] \in {"new", "read", "checked"} => Row(q)' = NULL
    <3> SUFFICES ASSUME call[q].op = "create", pc'[q] \in {"new", "read", "checked"}
                 PROVE  Row(q)' = NULL
      OBVIOUS
    <3>1. q # r /\ pc[q] = pc'[q] /\ Row(q) = NULL
      BY <1>0, <1>4, WriteStore DEF RowsHeld
    <3>2. call[r].sale # call[q].sale
      <4>1. CASE call[r].op = "create"
        BY <1>0, <3>1, <4>1 DEF FreshIds
      <4>2. CASE call[r].op # "create"
        <5>1. Row(r) \in Sale
          BY <1>0, <1>4, <4>2 DEF Write, ReadyToWrite, RowsHeld
        <5> QED
          BY <3>1, <5>1, SalesAssumption DEF Row
      <4> QED
        BY <4>1, <4>2
    <3> QED
      BY <1>0, <2>0, <3>1, <3>2 DEF Row
  <2>3. pc'[q] = IF q = r THEN "written" ELSE pc[q]
    BY <1>4, WriteStore
  <2>4. after'[r] \in Sale /\ (q # r => after'[q] = after[q])
    BY <1>4, WriteStore
  <2>5. before'[q] = before[q] /\ base'[q] = base[q]
    BY <1>4 DEF Write
  <2>6. pc[r] \in {"checked", "stored"}
    BY <1>4 DEF Write, ReadyToWrite
  <2> QED
    BY <1>0, <2>1, <2>2, <2>3, <2>4, <2>5, <2>6 DEF RowsHeld
<1>5. ASSUME NEW r \in Requests, Audit(r) PROVE RowsHeld'
  BY <1>0, <1>5 DEF TypeOK, RowsHeld, Audit, checks, reads, Row
<1>6. ASSUME NEW r \in Requests, Notify(r) PROVE RowsHeld'
  BY <1>0, <1>6 DEF TypeOK, RowsHeld, Notify, checks, reads, Row
<1>7. CASE Restart
  BY <1>0, <1>7 DEF TypeOK, RowsHeld, Restart, tables, reads, Row, InFlight
<1>8. CASE ToggleActive \/ ToggleEligible \/ \E d \in PlanEdits : ReadPlan(d) \/ WritePlan(d)
  BY <1>0, <1>8 DEF RowsHeld, ToggleActive, ToggleEligible, ReadPlan, WritePlan, tables, reads, Row
<1>9. CASE UNCHANGED vars
  BY <1>0, <1>9 DEF RowsHeld, vars, Row
<1> QED
  BY <1>1, <1>2, <1>3, <1>4, <1>5, <1>6, <1>7, <1>8, <1>9 DEF Next, Handle

\* What a request was checked with are rows it keeps and a range; where the range
\* is edited the request is outdated.
LEMMA PriceStep == IInv /\ [Next]_vars => PriceChecked'
<1> SUFFICES ASSUME IInv, [Next]_vars PROVE PriceChecked'
  OBVIOUS
<1>0. TypeOK /\ RowsHeld /\ PriceChecked
  BY DEF IInv
<1>1. ASSUME NEW r \in Requests, Read(r) \/ Reread(r) \/ Write(r) \/ Audit(r) \/ Notify(r)
      PROVE  PriceChecked'
  <2>1. UNCHANGED <<call, minPrice, basePrice, outdated>>
    BY <1>1 DEF Read, Reread, Write, Audit, Notify, checks, ranges, ghosts, priced
  <2>2. \A q \in Requests : Passed(q)' => Passed(q) /\ before'[q] = before[q]
    BY <1>0, <1>1 DEF TypeOK, Passed, Read, Reread, Write, Audit, Notify, reads
  <2> QED
    BY <1>0, <2>1, <2>2 DEF PriceChecked, PlanChecked, InRange
<1>2. ASSUME NEW r \in Requests, Check(r) PROVE PriceChecked'
  <2>1. Accepted(call[r], before[r]) /\ call[r].op = "create" =>
            call[r].plan \in Plans /\ InRange(call[r].plan, call[r].amount)
    <3>1. call[r] \in Dto /\ active \subseteq Plans \cup Statuses
      BY <1>0, SalesAssumption DEF TypeOK, Input
    <3>2. Accepted(call[r], before[r]) /\ call[r].op = "create" =>
              PriceAccepted(call[r].plan, call[r].amount)
      BY DEF Accepted
    <3> QED
      BY <3>1, <3>2, SalesAssumption DEF PriceAccepted, Dto
  <2>2. Accepted(call[r], before[r]) /\ call[r].op = "create" =>
            /\ PlanChecked(r) = call[r].plan
            /\ Given(call[r].amount, before[r].amount) = call[r].amount
    BY <1>0, <2>1, SalesAssumption DEF TypeOK, Input, Complete, PlanChecked, Given
  <2>3. Accepted(call[r], before[r]) /\ call[r].op = "update" =>
            /\ PlanChecked(r) # NULL
            /\ Prices(call[r]) =>
                   InRange(PlanChecked(r), Given(call[r].amount, before[r].amount))
    BY DEF Accepted, PriceAccepted, PlanChecked
  <2>4. Prices(call[r]) => call[r].op \in {"create", "update"}
    BY DEF Prices
  <2>5. UNCHANGED <<call, before, minPrice, basePrice, outdated>>
    BY <1>2 DEF Check, checks, ranges, ghosts, priced
  <2>6. \A q \in Requests :
            Passed(q)' => Passed(q) \/ (q = r /\ Accepted(call[r], before[r]))
    BY <1>0, <1>2 DEF TypeOK, Passed, Check
  <2> QED
    BY <1>0, <2>1, <2>2, <2>3, <2>4, <2>5, <2>6 DEF PriceChecked, PlanChecked, InRange
<1>3. CASE Restart
  BY <1>0, <1>3 DEF TypeOK, PriceChecked, PlanChecked, InRange, Passed, Restart, reads, ghosts,
                    priced, InFlight
<1>4. CASE ToggleActive \/ ToggleEligible \/ \E d \in PlanEdits : ReadPlan(d)
  BY <1>0, <1>4 DEF PriceChecked, PlanChecked, InRange, Passed, ToggleActive, ToggleEligible,
                    ReadPlan, ranges, reads, ghosts, priced
<1>5. ASSUME NEW d \in PlanEdits, WritePlan(d) PROVE PriceChecked'
  <2>1. UNCHANGED <<call, pc, before>> /\ outdated \subseteq outdated'
    BY <1>5 DEF WritePlan, reads
  <2>2. \A p : p # d.plan => minPrice'[p] = minPrice[p] /\ basePrice'[p] = basePrice[p]
    BY <1>0, <1>5 DEF TypeOK, WritePlan
  <2>3. \A q \in Requests : Passed(q) /\ Prices(call[q]) /\ q \notin outdated' =>
            PlanChecked(q) # d.plan
    BY <1>5 DEF WritePlan, Passed
  <2> QED
    BY <1>0, <2>1, <2>2, <2>3 DEF PriceChecked, PlanChecked, InRange, Passed
<1>6. CASE UNCHANGED vars
  BY <1>0, <1>6 DEF PriceChecked, PlanChecked, InRange, Passed, vars
<1> QED
  BY <1>1, <1>2, <1>3, <1>4, <1>5, <1>6 DEF Next, Handle

\* IInv is inductive.
THEOREM Invariance == Spec => []IInv
<1>1. IInv /\ [Next]_vars => FreshIds(call)'
  <2> SUFFICES ASSUME IInv, [Next]_vars PROVE call' = call
    BY DEF IInv, FreshIds
  <2> QED
    BY DEF Next, Handle, vars, Read, Check, Reread, Write, Audit, Notify,
           Restart, ToggleActive, ToggleEligible, ReadPlan, WritePlan
<1>2. IInv /\ [Next]_vars => IInv'
  BY <1>1, TypeStep, RowsStep, PriceStep DEF IInv
<1> QED
  BY <1>2, InitIInv, PTL DEF Spec

\* Every variable of the specification keeps its type.
THEOREM TypeCorrect == Spec => []TypeOK
<1>1. IInv => TypeOK
  BY DEF IInv
<1> QED
  BY <1>1, Invariance, PTL

-----------------------------------------------------------------------------
\* A request that sets a price leaves one it checked, if neither the range nor
\* the half of the price it leaves alone changed since.
LEMMA ResultInRange ==
    ASSUME IInv, NEW r \in Requests, ReadyToWrite(r), Prices(call[r]),
           r \notin outdated, ~StalePrice(r)
    PROVE  LET new == Result(r, Row(r), before[r]) IN InRange(new.plan, new.amount)
<1> DEFINE new == Result(r, Row(r), before[r])
<1>0. Passed(r) /\ PriceChecked /\ call[r] \in Dto /\ Complete(call[r])
  BY SalesAssumption DEF IInv, TypeOK, Input, ReadyToWrite, Passed
<1>1. InRange(PlanChecked(r), Given(call[r].amount, before[r].amount))
  BY <1>0 DEF PriceChecked
<1>2. CASE call[r].op = "create"
  <2>1. new.plan = call[r].plan /\ new.amount = call[r].amount
    BY <1>2 DEF Result
  <2>2. call[r].plan # Keep /\ call[r].amount # Keep
    BY <1>0, <1>2, SalesAssumption DEF PriceChecked, Complete
  <2> QED
    BY <1>1, <2>1, <2>2 DEF PlanChecked, Given
<1>3. CASE call[r].op = "update"
  <2>0. Row(r) \in Sale
    BY <1>0, <1>3 DEF IInv, RowsHeld, Passed
  <2>1. /\ new.plan = Given(call[r].plan, Row(r).plan)
        /\ new.amount = Given(call[r].amount, Row(r).amount)
    BY <1>3, <2>0 DEF Result, Sale
  <2>2. new.plan = PlanChecked(r) /\ new.amount = Given(call[r].amount, before[r].amount)
    BY <1>3, <2>1 DEF StalePrice, PlanChecked, Given
  <2> QED
    BY <1>1, <2>2
<1> QED
  BY <1>2, <1>3 DEF Prices

\* A request that sets no price leaves the plan and the amount it finds.
LEMMA PriceKept ==
    ASSUME IInv, NEW r \in Requests, ReadyToWrite(r), ~Prices(call[r])
    PROVE  /\ Row(r) # NULL
           /\ Result(r, Row(r), before[r]).plan = Row(r).plan
           /\ Result(r, Row(r), before[r]).amount = Row(r).amount
<1>1. call[r].op \in Ops \ {"create"} /\ Row(r) \in Sale
  BY SalesAssumption DEF IInv, TypeOK, Input, Dto, Prices, RowsHeld, ReadyToWrite
<1> QED
  BY <1>1, SalesAssumption DEF Result, Sale, Ops, Prices, Given

\* PriceInRange: the price of every sale fits the range its plan has now, or
\* nobody checked it against that range.
THEOREM PriceSafety == Spec => []PriceInRange
<1>1. Init => PriceInRange
  BY DEF Init, PriceInRange
<1>2. IInv /\ PriceInRange /\ [Next]_vars => PriceInRange'
  <2> SUFFICES ASSUME IInv, PriceInRange, [Next]_vars PROVE PriceInRange'
    OBVIOUS
  <2>0. TypeOK
    BY DEF IInv
  <2>1. ASSUME NEW r \in Requests, Write(r) PROVE PriceInRange'
    <3> SUFFICES ASSUME NEW s \in SaleIds, store'[s] # NULL, s \notin doubtful'
                 PROVE  InRange(store[s].plan, store[s].amount)'
      BY DEF PriceInRange
    <3>1. ReadyToWrite(r) /\ UNCHANGED <<minPrice, basePrice>>
      BY <2>1 DEF Write, checks, ranges
    <3>2. CASE s # call[r].sale
      <4>1. store'[s] = store[s] /\ s \notin doubtful
        <5>1. store'[s] = store[s]
          BY <2>1, <3>2, WriteStore
        <5> QED
          BY <2>1, <3>2, <5>1 DEF Write
      <4> QED
        BY <3>1, <4>1 DEF PriceInRange, InRange
    <3>3. CASE s = call[r].sale
      <4> DEFINE new == Result(r, Row(r), before[r])
      <4>1. store'[s] = new
        BY <2>1, <3>3, WriteStore
      <4>2. InRange(new.plan, new.amount)
        <5>1. CASE Prices(call[r])
          <6>1. r \notin outdated /\ ~StalePrice(r)
            BY <2>1, <3>3, <5>1 DEF Write
          <6> QED
            BY <3>1, <5>1, <6>1, ResultInRange
        <5>2. CASE ~Prices(call[r])
          <6>1. s \notin doubtful
            BY <2>1, <5>2 DEF Write
          <6>2. store[s] = Row(r) /\ Row(r) # NULL
            BY <3>1, <3>3, <5>2, PriceKept DEF Row
          <6>3. InRange(Row(r).plan, Row(r).amount)
            BY <6>1, <6>2 DEF PriceInRange
          <6> QED
            BY <3>1, <5>2, <6>3, PriceKept
        <5> QED
          BY <5>1, <5>2
      <4> HIDE DEF new
      <4> QED
        BY <3>1, <4>1, <4>2 DEF InRange
    <3> QED
      BY <3>2, <3>3
  <2>2. ASSUME NEW d \in PlanEdits, WritePlan(d) PROVE PriceInRange'
    <3> SUFFICES ASSUME NEW s \in SaleIds, store'[s] # NULL, s \notin doubtful'
                 PROVE  InRange(store[s].plan, store[s].amount)'
      BY DEF PriceInRange
    <3>1. store' = store /\ s \notin doubtful /\ store[s].plan # d.plan
      BY <2>2 DEF WritePlan, tables
    <3>2. \A p : p # d.plan => minPrice'[p] = minPrice[p] /\ basePrice'[p] = basePrice[p]
      BY <2>0, <2>2 DEF TypeOK, WritePlan
    <3> QED
      BY <3>1, <3>2 DEF PriceInRange, InRange
  <2>3. CASE UNCHANGED <<store, doubtful, minPrice, basePrice>>
    BY <2>3 DEF PriceInRange, InRange
  <2>4. ASSUME ~ \E r \in Requests : Write(r), ~ \E d \in PlanEdits : WritePlan(d)
        PROVE  UNCHANGED <<store, doubtful, minPrice, basePrice>>
    BY <2>4 DEF Next, Handle, vars, Read, Check, Reread, Audit, Notify, Restart, ToggleActive,
           ToggleEligible, ReadPlan, tables, checks, ranges, ghosts, priced
  <2> QED
    BY <2>1, <2>2, <2>3, <2>4
<1> QED
  BY <1>1, <1>2, Invariance, PTL DEF Spec

-----------------------------------------------------------------------------
\* Cancellations.  A cancel that wrote leaves a sale that stays canceled, and
\* one about to write has read a sale that was not.
CancelInv ==
    /\ \A r \in Requests : Wrote(r) => pc[r] \in {"written", "audited", "done", "lost"}
    /\ \A r \in Requests : call[r].op = "cancel" =>
        /\ Wrote(r) => Row(r).canceledBy # NULL
        /\ pc[r] \in {"read", "checked"} => before[r].canceledBy = NULL
    /\ CanceledOnce

\* No write takes the mark of a cancellation away.
LEMMA ResultKeepsCanceled ==
    ASSUME IInv, NEW r \in Requests, ReadyToWrite(r), Row(r) # NULL,
           Row(r).canceledBy # NULL \/ call[r].op = "cancel"
    PROVE  Result(r, Row(r), before[r]).canceledBy # NULL
<1>0. call[r].op \in Ops /\ r # NULL
  BY SalesAssumption DEF IInv, TypeOK, Input, Dto
<1>1. call[r].op # "create" /\ Row(r) \in Sale
  BY DEF IInv, RowsHeld, ReadyToWrite
<1> QED
  BY <1>0, <1>1 DEF Result, Sale, Ops

\* CanceledOnce: a second cancel of a sale had read it before the first wrote.
THEOREM CancelSafety == Spec => []CanceledOnce
<1>1. Init => CancelInv
  BY SalesAssumption DEF Init, CancelInv, Wrote, CanceledOnce
<1>2. IInv /\ CancelInv /\ [Next]_vars => CancelInv'
  <2> SUFFICES ASSUME IInv, CancelInv, [Next]_vars PROVE CancelInv'
    OBVIOUS
  <2>0. /\ TypeOK /\ RowsHeld
        /\ \A r \in Requests : call[r].sale \in SaleIds /\ call[r].op \in Ops
    BY SalesAssumption DEF IInv, TypeOK, Input, Dto
  <2>1. ASSUME NEW r \in Requests, Read(r) PROVE CancelInv'
    BY <2>0, <2>1 DEF TypeOK, CancelInv, CanceledOnce, Wrote, Read, MayChange,
                      tables, checks, ghosts, Row
  <2>2. ASSUME NEW r \in Requests, Check(r) PROVE CancelInv'
    BY <2>0, <2>2 DEF TypeOK, CancelInv, CanceledOnce, Wrote, Check, tables, checks, ghosts, Row
  <2>3. ASSUME NEW r \in Requests, Reread(r) PROVE CancelInv'
    BY <2>0, <2>3 DEF TypeOK, CancelInv, CanceledOnce, Wrote, Reread, tables, checks, ghosts, Row
  <2>4. ASSUME NEW r \in Requests, Write(r) PROVE CancelInv'
    <3>0. /\ ReadyToWrite(r) /\ call' = call /\ before' = before /\ raced \subseteq raced'
          /\ \A q \in Requests : q # r => replaced'[q] = replaced[q]
      BY <2>0, <2>4 DEF Write, TypeOK
    <3>1. /\ store'[call[r].sale] = Result(r, Row(r), before[r])
          /\ \A s \in SaleIds : s # call[r].sale => store'[s] = store[s]
          /\ \A q \in Requests : pc'[q] = IF q = r THEN "written" ELSE pc[q]
      BY <2>4, WriteStore
    <3>2. \A q \in Requests : Wrote(q)' => pc'[q] \in {"written", "audited", "done", "lost"}
      BY <3>0, <3>1 DEF CancelInv, Wrote
    <3>3. ASSUME NEW q \in Requests, call[q].op = "cancel", q = r \/ Wrote(q)
          PROVE  (Row(q).canceledBy # NULL)'
      <4>1. Row(q) \in Sale /\ Row(q) # NULL
        BY <2>0, <3>0, <3>3, SalesAssumption DEF CancelInv, RowsHeld, ReadyToWrite
      <4>2. CASE call[q].sale = call[r].sale
        <5>1. Row(r).canceledBy # NULL \/ call[r].op = "cancel"
          BY <3>3, <4>2 DEF CancelInv, Row
        <5>2. Row(r) # NULL
          BY <4>1, <4>2 DEF Row
        <5> QED
          BY <3>0, <3>1, <4>2, <5>1, <5>2, ResultKeepsCanceled DEF Row
      <4>3. CASE call[q].sale # call[r].sale
        BY <2>0, <3>0, <3>1, <3>3, <4>3 DEF CancelInv, Row
      <4> QED
        BY <4>2, <4>3
    <3>4. \A q \in Requests : call'[q].op = "cancel" =>
              /\ Wrote(q)' => (Row(q).canceledBy # NULL)'
              /\ pc'[q] \in {"read", "checked"} => before'[q].canceledBy = NULL
      BY <3>0, <3>1, <3>3 DEF CancelInv, Wrote
    <3>5. ASSUME NEW q \in Requests, q # r, Wrote(q), call[q].op = "cancel",
                 call[r].op = "cancel", call[q].sale = call[r].sale
          PROVE  r \in raced'
      <4>1. before[r].canceledBy = NULL /\ Row(r).canceledBy # NULL
        BY <3>0, <3>5 DEF CancelInv, ReadyToWrite, Row
      <4> QED
        BY <2>4, <4>1 DEF Write
    <3>6. CanceledOnce'
      BY <3>0, <3>5 DEF CancelInv, CanceledOnce, Wrote
    <3> QED
      BY <3>2, <3>4, <3>6 DEF CancelInv
  <2>5. ASSUME NEW r \in Requests, Audit(r) PROVE CancelInv'
    BY <2>0, <2>5 DEF TypeOK, CancelInv, CanceledOnce, Wrote, Audit, checks, reads, Row
  <2>6. ASSUME NEW r \in Requests, Notify(r) PROVE CancelInv'
    BY <2>0, <2>6 DEF TypeOK, CancelInv, CanceledOnce, Wrote, Notify, checks, reads, Row
  <2>7. CASE Restart
    BY <2>0, <2>7 DEF TypeOK, CancelInv, CanceledOnce, Wrote, Restart, tables, reads, ghosts,
                      Row, InFlight
  <2>8. CASE ToggleActive \/ ToggleEligible \/ \E d \in PlanEdits : ReadPlan(d) \/ WritePlan(d)
    BY <2>8 DEF CancelInv, CanceledOnce, Wrote, ToggleActive, ToggleEligible, ReadPlan,
                WritePlan, tables, reads, ghosts, Row
  <2>9. CASE UNCHANGED vars
    BY <2>9 DEF CancelInv, CanceledOnce, Wrote, vars, Row
  <2> QED
    BY <2>1, <2>2, <2>3, <2>4, <2>5, <2>6, <2>7, <2>8, <2>9 DEF Next, Handle
<1>3. CancelInv => CanceledOnce
  BY DEF CancelInv
<1> QED
  BY <1>1, <1>2, <1>3, Invariance, PTL DEF Spec

-----------------------------------------------------------------------------
\* The permission a request needs to touch brscan, settled by its first read.
BrscanInv ==
    \A r \in Requests : pc[r] \in {"read", "checked", "stored"} =>
        /\ call[r].op = "brscan" => "sales.audit" \in Perms[call[r].actor]
        /\ call[r].op = "update" /\ BrscanChanged(call[r], before[r]) =>
               "sales.audit" \in Perms[call[r].actor]

\* BrscanByAuditors: whatever else runs, only an auditor's write changes brscan.
THEOREM BrscanSafety == Spec => BrscanByAuditors
<1>1. Init => BrscanInv
  BY DEF Init, BrscanInv
<1>2. IInv /\ BrscanInv /\ [Next]_vars => BrscanInv'
  <2> SUFFICES ASSUME IInv, BrscanInv, [Next]_vars PROVE BrscanInv'
    OBVIOUS
  <2>0. TypeOK
    BY DEF IInv
  <2>1. ASSUME NEW r \in Requests, Read(r) PROVE BrscanInv'
    BY <2>0, <2>1 DEF TypeOK, BrscanInv, Read, MayChange, Needed, checks
  <2>2. ASSUME NEW r \in Requests, Check(r) \/ Reread(r) \/ Write(r) PROVE BrscanInv'
    BY <2>0, <2>2 DEF TypeOK, BrscanInv, Check, Reread, Write, checks
  <2>3. ASSUME NEW r \in Requests, Audit(r) \/ Notify(r) PROVE BrscanInv'
    BY <2>0, <2>3 DEF TypeOK, BrscanInv, Audit, Notify, checks, reads
  <2>4. CASE Restart
    BY <2>0, <2>4 DEF TypeOK, BrscanInv, Restart, reads, InFlight
  <2>5. CASE \/ ToggleActive \/ ToggleEligible \/ UNCHANGED vars
             \/ \E d \in PlanEdits : ReadPlan(d) \/ WritePlan(d)
    BY <2>5 DEF BrscanInv, ToggleActive, ToggleEligible, ReadPlan, WritePlan, reads, vars
  <2> QED
    BY <2>1, <2>2, <2>3, <2>4, <2>5 DEF Next, Handle
<1>3. IInv /\ BrscanInv /\ [Next]_vars => [BrscanStep]_vars
  <2> SUFFICES ASSUME IInv, BrscanInv, Next PROVE BrscanStep
    OBVIOUS
  <2>1. ASSUME NEW r \in Requests, Write(r) PROVE BrscanStep
    <3> SUFFICES ASSUME NEW s \in SaleIds, store[s] # NULL, store'[s].brscan # store[s].brscan
                 PROVE  /\ pc[r] # "written" /\ pc'[r] = "written"
                        /\ call[r].sale = s
                        /\ "sales.audit" \in Perms[call[r].actor]
      BY DEF BrscanStep
    <3>1. s = call[r].sale /\ pc'[r] = "written"
      BY <2>1, WriteStore
    <3>2. store'[s] = Result(r, Row(r), before[r])
      BY <2>1, <3>1, WriteStore
    <3>3. ReadyToWrite(r) /\ call[r].op \in Ops
      BY <2>1, SalesAssumption DEF Write, IInv, TypeOK, Input, Dto
    <3>4. call[r].op # "create" /\ Row(r) \in Sale
      BY <3>1, <3>3 DEF IInv, RowsHeld, ReadyToWrite, Row
    <3>5. \/ call[r].op = "brscan"
          \/ call[r].op = "update" /\ BrscanChanged(call[r], before[r])
      BY <3>1, <3>2, <3>3, <3>4 DEF Result, NextBrscan, Sale, Ops, Row
    <3> QED
      BY <3>1, <3>3, <3>5 DEF BrscanInv, ReadyToWrite
  <2>2. ASSUME ~ \E r \in Requests : Write(r) PROVE UNCHANGED store
    BY <2>2 DEF Next, Handle, Read, Check, Reread, Audit, Notify,
                Restart, ToggleActive, ToggleEligible, ReadPlan, WritePlan, tables
  <2>3. CASE UNCHANGED store
    BY <2>3 DEF BrscanStep
  <2> QED
    BY <2>1, <2>2, <2>3
<1> QED
  BY <1>1, <1>2, <1>3, Invariance, PTL DEF Spec, BrscanByAuditors

-----------------------------------------------------------------------------
\* A handler changes no field its audit entry leaves out.
LEMMA UnauditedFieldsKept ==
    ASSUME IInv, NEW r \in Requests, ReadyToWrite(r), call[r].op # "create",
           ~MarksByEdit(r), NEW f \in Fields \ Audited(call[r].op)
    PROVE  Result(r, Row(r), before[r])[f] = Row(r)[f]
<1>0. call[r].op \in Ops /\ Row(r) \in Sale
  BY SalesAssumption DEF IInv, TypeOK, Input, Dto, RowsHeld, ReadyToWrite
<1>1. CASE call[r].op = "update"
  BY <1>0, <1>1 DEF Result, Audited, Fields, Sale, MarksByEdit, Given
<1>2. CASE call[r].op = "status"
  BY <1>0, <1>2 DEF Result, Audited, Fields, Sale
<1>3. CASE call[r].op = "seller"
  BY <1>0, <1>3 DEF Result, Audited, Fields, Sale
<1>4. CASE call[r].op = "cancel"
  BY <1>0, <1>4 DEF Result, Audited, Fields, Sale
<1>5. CASE call[r].op = "brscan"
  BY <1>0, <1>5 DEF Result, Audited, Fields, Sale
<1>6. CASE call[r].op = "audit"
  BY <1>0, <1>6 DEF Result, Audited, Fields, Sale
<1> QED
  BY <1>0, <1>1, <1>2, <1>3, <1>4, <1>5, <1>6 DEF Ops

\* The entry of a request that was not overtaken is about to be, or is, exact.
HistoryInv ==
    /\ \A r \in Requests \ raced :
        pc[r] = "written" /\ call[r].op # "create" /\ ~MarksByEdit(r) =>
            EntryOf(r) = Entry(r, Diff(replaced[r], after[r], Fields))
    /\ HistoryExact

\* HistoryExact: the trail of a request that was not overtaken is the truth.
THEOREM HistorySafety == Spec => []HistoryExact
<1>1. Init => HistoryInv
  BY DEF Init, HistoryInv, HistoryExact
<1>2. IInv /\ HistoryInv /\ [Next]_vars => HistoryInv'
  <2> SUFFICES ASSUME IInv, HistoryInv, [Next]_vars PROVE HistoryInv'
    OBVIOUS
  <2>0. TypeOK
    BY DEF IInv
  <2>1. ASSUME NEW r \in Requests, Read(r) \/ Check(r) \/ Reread(r) PROVE HistoryInv'
    <3>1. /\ call' = call /\ after' = after /\ replaced' = replaced /\ log' = log
          /\ raced' = raced /\ unaudited' = unaudited
      BY <2>1 DEF Read, Check, Reread, ghosts, checks, tables
    <3>2. \A q \in Requests : pc'[q] \in {"written", "audited", "done"} =>
              pc'[q] = pc[q] /\ base'[q] = base[q]
      BY <2>0, <2>1 DEF TypeOK, Read, Check, Reread
    <3> QED
      BY <3>1, <3>2 DEF HistoryInv, HistoryExact, MarksByEdit, EntryOf, Entry
  <2>2. ASSUME NEW r \in Requests, Write(r) PROVE HistoryInv'
    <3>1. /\ call' = call /\ base' = base /\ log' = log /\ unaudited' = unaudited
          /\ raced \subseteq raced'
          /\ replaced' = [replaced EXCEPT ![r] = Row(r)]
          /\ ReadyToWrite(r)
      BY <2>2 DEF Write
    <3>2. /\ pc'[r] = "written"
          /\ after'[r] = Result(r, Row(r), before[r])
          /\ \A q \in Requests : q # r => after'[q] = after[q] /\ pc'[q] = pc[q]
      BY <2>2, WriteStore
    <3>3. replaced'[r] = Row(r) /\ \A q \in Requests : q # r => replaced'[q] = replaced[q]
      BY <2>0, <3>1 DEF TypeOK
    <3>4. ASSUME r \notin raced', call[r].op # "create", ~MarksByEdit(r)
          PROVE  EntryOf(r)' = Entry(r, Diff(replaced[r], after[r], Fields))'
      <4>1. base[r] = Row(r)
        BY <2>2, <3>4 DEF Write
      <4>2. {g \in Audited(call[r].op) : Row(r)[g] # after'[r][g]}
              = {g \in Fields : Row(r)[g] # after'[r][g]}
        <5>1. Audited(call[r].op) \subseteq Fields
          BY DEF Audited, Fields
        <5> QED
          BY <3>1, <3>2, <3>4, <5>1, UnauditedFieldsKept
      <4>3. Diff(Row(r), after'[r], Audited(call[r].op)) = Diff(Row(r), after'[r], Fields)
        BY <4>2 DEF Diff
      <4> QED
        BY <3>1, <3>3, <3>4, <4>1, <4>3 DEF EntryOf, Entry, Diff
    <3>5. ASSUME NEW q \in Requests \ raced', pc'[q] = "written", call[q].op # "create",
                 ~MarksByEdit(q)
          PROVE  EntryOf(q)' = Entry(q, Diff(replaced[q], after[q], Fields))'
      <4>1. CASE q = r
        BY <3>4, <3>5, <4>1
      <4>2. CASE q # r
        <5>1. EntryOf(q) = Entry(q, Diff(replaced[q], after[q], Fields))
          BY <3>1, <3>2, <3>5, <4>2 DEF HistoryInv
        <5>2. EntryOf(q) = Entry(q, Diff(base[q], after[q], Audited(call[q].op)))
          BY <3>5 DEF EntryOf
        <5>3. EntryOf(q)' = Entry(q, Diff(base[q], after[q], Audited(call[q].op)))'
          BY <3>1, <3>5 DEF EntryOf
        <5>4. base'[q] = base[q] /\ after'[q] = after[q] /\ replaced'[q] = replaced[q]
          BY <3>1, <3>2, <3>3, <4>2
        <5>5. /\ Diff(base[q], after[q], Audited(call[q].op))'
                    = Diff(base[q], after[q], Audited(call[q].op))
              /\ Diff(replaced[q], after[q], Fields)' = Diff(replaced[q], after[q], Fields)
          BY <3>1, <5>4 DEF Diff
        <5> QED
          BY <3>1, <5>1, <5>2, <5>3, <5>5 DEF Entry
      <4> QED
        BY <4>1, <4>2
    <3>6. HistoryExact'
      <4> SUFFICES ASSUME NEW q \in Requests \ (raced' \cup unaudited'),
                          pc'[q] \in {"audited", "done"}, call'[q].op # "create",
                          ~MarksByEdit(q)'
                   PROVE  Entry(q, Diff(replaced[q], after[q], Fields))' \in log'
        BY DEF HistoryExact
      <4>1. q # r /\ Entry(q, Diff(replaced[q], after[q], Fields)) \in log
        BY <3>1, <3>2 DEF HistoryInv, HistoryExact, MarksByEdit
      <4> QED
        BY <3>1, <3>2, <3>3, <4>1 DEF Entry, Diff
    <3> QED
      BY <3>1, <3>5, <3>6 DEF HistoryInv, MarksByEdit
  <2>3. ASSUME NEW r \in Requests, Audit(r) PROVE HistoryInv'
    <3>1. /\ call' = call /\ base' = base /\ after' = after /\ replaced' = replaced
          /\ raced' = raced /\ pc[r] = "written"
          /\ \A q \in Requests : pc'[q] = IF q = r THEN "audited" ELSE pc[q]
          /\ log \subseteq log' /\ unaudited \subseteq unaudited'
          /\ EntryOf(r) \in log' \/ r \in unaudited'
      BY <2>0, <2>3 DEF TypeOK, Audit, checks, reads
    <3> QED
      BY <3>1 DEF HistoryInv, HistoryExact, MarksByEdit, EntryOf, Entry
  <2>4. ASSUME NEW r \in Requests, Notify(r) PROVE HistoryInv'
    <3>1. /\ call' = call /\ base' = base /\ after' = after /\ replaced' = replaced
          /\ raced' = raced /\ pc[r] = "audited" /\ log' = log /\ unaudited' = unaudited
          /\ \A q \in Requests : pc'[q] = IF q = r THEN "done" ELSE pc[q]
      BY <2>0, <2>4 DEF TypeOK, Notify, checks, reads
    <3> QED
      BY <3>1 DEF HistoryInv, HistoryExact, MarksByEdit, EntryOf, Entry
  <2>5. CASE Restart
    <3>1. /\ call' = call /\ base' = base /\ after' = after /\ replaced' = replaced
          /\ raced' = raced /\ log' = log /\ unaudited' = unaudited
          /\ \A q \in Requests : pc'[q] = pc[q] \/ pc'[q] = "lost"
      BY <2>0, <2>5 DEF TypeOK, Restart, checks, reads, tables, ghosts
    <3> QED
      BY <3>1 DEF HistoryInv, HistoryExact, MarksByEdit, EntryOf, Entry
  <2>6. CASE \/ ToggleActive \/ ToggleEligible \/ UNCHANGED vars
             \/ \E d \in PlanEdits : ReadPlan(d) \/ WritePlan(d)
    <3>1. UNCHANGED <<call, pc, base, after, replaced, raced, log, unaudited>>
      BY <2>6 DEF ToggleActive, ToggleEligible, ReadPlan, WritePlan, vars, reads, tables, ghosts
    <3> QED
      BY <3>1 DEF HistoryInv, HistoryExact, MarksByEdit, EntryOf, Entry, Diff
  <2> QED
    BY <2>1, <2>2, <2>3, <2>4, <2>5, <2>6 DEF Next, Handle
<1>3. HistoryInv => HistoryExact
  BY DEF HistoryInv
<1> QED
  BY <1>1, <1>2, <1>3, Invariance, PTL DEF Spec

-----------------------------------------------------------------------------
\* The requests that give a sale its seller, and whether they still owe the
\* seller a notification.
Appoints(r) == Wrote(r) /\ call[r].op \in {"create", "seller"}
Owes(r) == pc[r] \in {"written", "audited", "lost"} \/ r \in unheard

\* Only appointing requests change the seller; each knows whom it appointed.
SellerInv ==
    /\ \A r \in Requests : Appoints(r) =>
        after[r].seller = IF call[r].op = "create" THEN NewSeller(call[r]) ELSE call[r].seller
    /\ \A s \in SaleIds : store[s] # NULL =>
        \/ store[s].seller \in told[s]
        \/ \E r \in Requests : /\ Appoints(r) /\ Owes(r) /\ call[r].sale = s
                              /\ after[r].seller = store[s].seller

\* SellerHears: nobody becomes the seller of a sale unheard, races included.
THEOREM SellerSafety == Spec => []SellerHears
<1>1. Init => SellerInv
  BY SalesAssumption DEF Init, SellerInv, Appoints, Wrote
<1>2. IInv /\ SellerInv /\ [Next]_vars => SellerInv'
  <2> SUFFICES ASSUME IInv, SellerInv, [Next]_vars PROVE SellerInv'
    OBVIOUS
  <2>0. TypeOK /\ \A r \in Requests : call[r].sale \in SaleIds /\ call[r].op \in Ops
    BY SalesAssumption DEF IInv, TypeOK, Input, Dto
  <2>1. ASSUME NEW r \in Requests, Read(r) \/ Check(r) \/ Reread(r) PROVE SellerInv'
    <3>1. UNCHANGED <<call, after, replaced, store, told, unheard>>
      BY <2>1 DEF Read, Check, Reread, ghosts, checks, tables
    <3>2. \A q \in Requests : pc[q] \in {"written", "audited", "lost"} => pc'[q] = pc[q]
      BY <2>0, <2>1 DEF TypeOK, Read, Check, Reread
    <3> QED
      BY <3>1, <3>2 DEF SellerInv, Appoints, Owes, Wrote
  <2>2. ASSUME NEW r \in Requests, Write(r) PROVE SellerInv'
    <3> DEFINE new == Result(r, Row(r), before[r])
    <3>1. /\ call' = call /\ told' = told /\ unheard' = unheard /\ ReadyToWrite(r)
          /\ replaced'[r] = Row(r)
          /\ \A q \in Requests : q # r => replaced'[q] = replaced[q]
      BY <2>0, <2>2 DEF Write, TypeOK
    <3>2. /\ after'[r] = new /\ store'[call[r].sale] = new /\ new \in Sale
          /\ pc'[r] = "written"
          /\ \A s \in SaleIds : s # call[r].sale => store'[s] = store[s]
          /\ \A q \in Requests : q # r => after'[q] = after[q] /\ pc'[q] = pc[q]
      BY <2>2, WriteStore
    <3>3. Row(r) \in Sale \cup {NULL} /\ replaced'[r] # Keep
      BY <2>0, <3>1, SalesAssumption DEF TypeOK, Row
    <3>4. call[r].op = "create" => new.seller = NewSeller(call[r])
      BY DEF Result
    <3>5. call[r].op # "create" => Row(r) \in Sale
      BY <3>1 DEF IInv, RowsHeld, ReadyToWrite
    <3>6. call[r].op = "seller" => new.seller = call[r].seller
      BY <3>5 DEF Result, Sale
    <3>7. call[r].op \notin {"create", "seller"} => new.seller = Row(r).seller /\ Row(r) # NULL
      BY <2>0, <3>5, SalesAssumption DEF Result, Sale, Ops
    <3>8. ASSUME NEW s \in SaleIds, store'[s] # NULL
          PROVE  \/ store'[s].seller \in told'[s]
                 \/ \E q \in Requests : /\ Appoints(q)' /\ Owes(q)' /\ call'[q].sale = s
                                       /\ after'[q].seller = store'[s].seller
      <4>1. CASE s = call[r].sale /\ call[r].op \in {"create", "seller"}
        BY <3>1, <3>2, <3>3, <4>1 DEF Appoints, Owes, Wrote
      <4>2. CASE s # call[r].sale \/ call[r].op \notin {"create", "seller"}
        <5>1. store[s] # NULL /\ store'[s].seller = store[s].seller
          BY <3>2, <3>7, <3>8, <4>2 DEF Row
        <5>2. CASE store[s].seller \in told[s]
          BY <3>1, <5>1, <5>2
        <5>3. CASE store[s].seller \notin told[s]
          <6>1. PICK q \in Requests : /\ Appoints(q) /\ Owes(q) /\ call[q].sale = s
                                      /\ after[q].seller = store[s].seller
            BY <5>1, <5>3 DEF SellerInv
          <6>2. q # r
            BY <4>2, <6>1 DEF Appoints
          <6> QED
            BY <3>1, <3>2, <5>1, <6>1, <6>2 DEF Appoints, Owes, Wrote
        <5> QED
          BY <5>2, <5>3
      <4> QED
        BY <4>1, <4>2
    <3>9. ASSUME NEW q \in Requests, Appoints(q)'
          PROVE  after'[q].seller = IF call'[q].op = "create" THEN NewSeller(call'[q])
                                    ELSE call'[q].seller
      <4>1. CASE q = r
        BY <3>1, <3>2, <3>4, <3>6, <3>9, <4>1 DEF Appoints
      <4>2. CASE q # r
        BY <3>1, <3>2, <3>9, <4>2 DEF SellerInv, Appoints, Wrote
      <4> QED
        BY <4>1, <4>2
    <3> QED
      BY <3>8, <3>9 DEF SellerInv
  <2>3. ASSUME NEW r \in Requests, Audit(r) PROVE SellerInv'
    <3>1. UNCHANGED <<call, after, replaced, store, told, unheard>>
      BY <2>3 DEF Audit, checks, reads
    <3>2. pc[r] = "written" /\ \A q \in Requests : pc'[q] = IF q = r THEN "audited" ELSE pc[q]
      BY <2>0, <2>3 DEF TypeOK, Audit
    <3> QED
      BY <3>1, <3>2 DEF SellerInv, Appoints, Owes, Wrote
  <2>4. ASSUME NEW r \in Requests, Notify(r) PROVE SellerInv'
    <3>1. UNCHANGED <<call, before, after, replaced, store>>
      BY <2>4 DEF Notify, checks, reads
    <3>2. /\ \A q \in Requests : pc'[q] = IF q = r THEN "done" ELSE pc[q]
          /\ \A s \in SaleIds : told[s] \subseteq told'[s]
          /\ unheard \subseteq unheard'
          /\ Recipients(r) \subseteq told'[call[r].sale] \/ r \in unheard'
      BY <2>0, <2>4 DEF TypeOK, Notify
    <3>3. Appoints(r) => after[r].seller \in Recipients(r)
      <4>1. CASE call[r].op = "create"
        BY <4>1 DEF SellerInv, Appoints, Recipients
      <4>2. CASE call[r].op = "seller"
        BY <4>2 DEF SellerInv, Appoints, Recipients
      <4> QED
        BY <4>1, <4>2 DEF Appoints
    <3>4. ASSUME NEW s \in SaleIds, store[s] # NULL
          PROVE  \/ store[s].seller \in told'[s]
                 \/ \E q \in Requests : /\ Appoints(q) /\ Owes(q)' /\ call[q].sale = s
                                       /\ after[q].seller = store[s].seller
      <4>1. CASE store[s].seller \in told[s]
        BY <3>2, <4>1
      <4>2. CASE store[s].seller \notin told[s]
        <5>1. PICK q \in Requests : /\ Appoints(q) /\ Owes(q) /\ call[q].sale = s
                                    /\ after[q].seller = store[s].seller
          BY <3>4, <4>2 DEF SellerInv
        <5>2. CASE q = r
          BY <3>2, <3>3, <5>1, <5>2 DEF Owes
        <5>3. CASE q # r
          BY <3>2, <5>1, <5>3 DEF Owes
        <5> QED
          BY <5>2, <5>3
      <4> QED
        BY <4>1, <4>2
    <3> QED
      BY <3>1, <3>4 DEF SellerInv, Appoints, Wrote
  <2>5. CASE Restart
    <3>1. UNCHANGED <<call, after, replaced, store, told, unheard>>
      BY <2>5 DEF Restart, reads, tables, ghosts
    <3>2. \A q \in Requests : pc'[q] = pc[q] \/ pc'[q] = "lost"
      BY <2>0, <2>5 DEF TypeOK, Restart
    <3> QED
      BY <3>1, <3>2 DEF SellerInv, Appoints, Owes, Wrote
  <2>6. CASE \/ ToggleActive \/ ToggleEligible \/ UNCHANGED vars
             \/ \E d \in PlanEdits : ReadPlan(d) \/ WritePlan(d)
    <3>1. UNCHANGED <<call, after, replaced, store, told, unheard, pc>>
      BY <2>6 DEF ToggleActive, ToggleEligible, ReadPlan, WritePlan, vars, reads, tables, ghosts
    <3> QED
      BY <3>1 DEF SellerInv, Appoints, Owes, Wrote
  <2> QED
    BY <2>1, <2>2, <2>3, <2>4, <2>5, <2>6 DEF Next, Handle
<1>3. SellerInv => SellerHears
  BY DEF SellerInv, SellerHears, Appoints, Owes
<1> QED
  BY <1>1, <1>2, <1>3, Invariance, PTL DEF Spec
=============================================================================
