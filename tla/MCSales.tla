------------------------------ MODULE MCSales ------------------------------
(* Instances of Sales for TLC. *)
EXTENDS Sales, TLC

CONSTANTS u1, u2, u3, s1, s2, open, shut, p1, p2, r1, r2, r3

\* u1 and u2 sell; u3 sees everything, audits, and may do the rest as well.
MCPerms == (u1 :> {"sales.edit", "sales.change_status"})
        @@ (u2 :> {"sales.view_all", "sales.edit", "sales.change_status", "sales.change_seller"})
        @@ (u3 :> {"sales.view_all", "sales.edit", "sales.change_status",
                   "sales.change_seller", "sales.audit"})

\* Two plans whose price ranges overlap in 2.
MCPlanMin == (p1 :> 1) @@ (p2 :> 2)
MCPlanMax == (p1 :> 2) @@ (p2 :> 3)

\* Ranges that shrink and grow; the first two, each fine alone, leave p1 with
\* a minPrice above its basePrice when they overlap.
MCPlanEdits ==
    {[plan |-> p1, minPrice |-> 2, basePrice |-> Keep],
     [plan |-> p1, minPrice |-> Keep, basePrice |-> 1],
     [plan |-> p2, minPrice |-> 1, basePrice |-> 2]}

\* Rows the requests find: u1's, in the range of p1 and in that of p2.
MCEarlierRows ==
    {[status |-> open, seller |-> u1, plan |-> p, amount |-> 2, brscan |-> b,
      auditNote |-> FALSE, canceledBy |-> NULL] : p \in {p1}, b \in BOOLEAN}

\* Among older ones some lie outside the range their plan has today.
MCPricedRows ==
    {[status |-> open, seller |-> u1, plan |-> p1, amount |-> a, brscan |-> FALSE,
      auditNote |-> FALSE, canceledBy |-> NULL] : a \in {2, 3}}

Blank(op, u, s) ==
    [op |-> op, actor |-> u, sale |-> s, status |-> Keep, seller |-> Keep,
     plan |-> Keep, amount |-> Keep, brscan |-> Keep, auditNote |-> Keep]

Creates == {[Blank("create", u, s2) EXCEPT !.seller = v, !.plan = p1, !.amount = a,
                                           !.status = open] :
                u \in {u1, u2}, v \in {Keep, u3}, a \in {2, 3}}
Updates(s) ==
    {[Blank("update", u1, s) EXCEPT !.plan = p, !.amount = a] :
        p \in {p2, Keep, NULL}, a \in {1, 3, Keep}}
Marks(s) ==
    {[Blank("update", u, s) EXCEPT !.brscan = b] : u \in {u2, u3}, b \in BOOLEAN}
    \cup {[Blank("brscan", u, s) EXCEPT !.brscan = b] : u \in {u2, u3}, b \in BOOLEAN}
    \cup {[Blank("audit", u3, s) EXCEPT !.auditNote = TRUE]}
Moves(s) ==
    {[Blank("status", u1, s) EXCEPT !.status = v] : v \in {open, shut}}
    \cup {Blank("cancel", u, s) : u \in {u1, u3}}
    \cup {[Blank("seller", u2, s) EXCEPT !.seller = v] : v \in {u1, u2, u3}}

\* The calls that race for one sale: prices, marks, and its life.  Left out
\* are calls that change nothing or are refused at once.
RaceInputs ==
    {c \in Updates(s1) : IF c.plan = Keep THEN c.amount # Keep
                         ELSE c.plan = NULL => c.amount = Keep}
    \cup {c \in Marks(s1) : IF c.actor = u3 THEN TRUE ELSE c.op = "update" /\ c.brscan}
    \cup {c \in Moves(s1) : c.seller # u3}

\* New sales, new prices of another, and what else may happen to that one.
PriceInputs ==
    Creates \cup {c \in Updates(s1) : c.plan # NULL}
    \cup {c \in Moves(s1) : c.op = "cancel" \/ (c.op = "seller" /\ c.seller = u3)}

Interchangeable == Permutations(Requests)
=============================================================================
