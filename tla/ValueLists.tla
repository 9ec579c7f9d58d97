------------------------------ MODULE ValueLists ------------------------------
(***************************************************************************)
(* A list of the settings page (statuses, payment methods, ...): its order   *)
(* in the database (DomainValuesService.create and reorder) and in the tabs   *)
(* that show it, which put a dragged value in its place before the server     *)
(* has (useReorderDomainValues), and take it back when the server refuses.   *)
(***************************************************************************)
EXTENDS Naturals, Sequences, SequencesExt

CONSTANTS
    Values,     \* numbers, which stand for the names in their order
    Windows,
    MaxDrags    \* bound on the drags

VARIABLES
    order,      \* value -> its "order" column, 0 before it is created
    creating,   \* value -> the order that the request to create it has worked out, or 0
    shown,      \* tab -> the list in its cache
    fetch,      \* tab -> its request for the list, with the answer on its way
    heard,      \* tab -> has it yet to hear of a change?
    drags,      \* the reorder mutations under way
    dragged     \* the drags so far

listVars == <<order, creating, shown, fetch, heard, drags, dragged>>

None == [at |-> "none", list |-> <<>>]
Sent == [at |-> "sent", list |-> <<>>]

There == {v \in Values : order[v] # 0}

\* By order, then by name.
Sorted(places) ==
    SetToSortSeq({v \in Values : places[v] # 0},
                 LAMBDA u, v : places[u] < places[v] \/ (places[u] = places[v] /\ u < v))

Listed == Sorted(order)

-----------------------------------------------------------------------------
(* The server. *)

\* The change is announced to every tab.
Announced == heard' = [t \in Windows |-> TRUE]

StartCreateValue(v) ==
    /\ order[v] = 0 /\ creating[v] = 0
    /\ creating' = [creating EXCEPT ![v] = 1 + (IF There = {} THEN 0 ELSE Max({order[u] : u \in There}))]
    /\ UNCHANGED <<order, shown, fetch, heard, drags, dragged>>

CreateValue(v) ==
    /\ creating[v] # 0
    /\ order' = [order EXCEPT ![v] = creating[v]]
    /\ creating' = [creating EXCEPT ![v] = 0]
    /\ Announced
    /\ UNCHANGED <<shown, fetch, drags, dragged>>

Becomes(m, n) == drags' = (drags \ {m}) \cup {n}

\* The list must be of the values there are.
CheckOrder(m) ==
    /\ m.at = "sent"
    /\ Becomes(m, [m EXCEPT !.at = IF ToSet(m.ids) = There THEN "checked" ELSE "failed"])
    /\ UNCHANGED <<order, creating, shown, fetch, heard, dragged>>

\* One transaction; two at once wait for each other or one of them fails.
Reorder(m) ==
    /\ m.at = "checked"
    /\ order' = [v \in Values |-> IF v \in ToSet(m.ids)
                                  THEN CHOOSE i \in DOMAIN m.ids : m.ids[i] = v ELSE order[v]]
    /\ Becomes(m, [m EXCEPT !.at = "done"])
    /\ Announced
    /\ UNCHANGED <<creating, shown, fetch, dragged>>

\* A statement fails, or the answer is lost on its way.
Fails(m) ==
    /\ m.at # "failed"
    /\ Becomes(m, [m EXCEPT !.at = "failed"])
    /\ UNCHANGED <<order, creating, shown, fetch, heard, dragged>>

-----------------------------------------------------------------------------
(* A tab. *)

\* moveItem
Moved(items, from, to) ==
    LET rest == RemoveAt(items, from) IN InsertAt(rest, to, items[from])

\* mutate: what is on its way is given up, and the cache takes the new order.
Drag(t, from, to) ==
    /\ from \in DOMAIN shown[t] /\ to \in DOMAIN shown[t] /\ from # to
    /\ dragged < MaxDrags /\ dragged' = dragged + 1
    /\ LET ids == Moved(shown[t], from, to) IN
       /\ drags' = drags \cup {[nr |-> dragged, tab |-> t, ids |-> ids, previous |-> shown[t],
                                at |-> "sent"]}
       /\ shown' = [shown EXCEPT ![t] = ids]
    /\ fetch' = [fetch EXCEPT ![t] = None]
    /\ UNCHANGED <<order, creating, heard>>

\* A tab that asks again only after a success.
RefetchAfterSuccess(m) == IF m.at = "done" THEN Sent ELSE fetch[m.tab]

RefetchAfter(m) == Sent

\* onError and onSettled
Settle(m) ==
    /\ m.at \in {"done", "failed"}
    /\ drags' = drags \ {m}
    /\ shown' = [shown EXCEPT ![m.tab] = IF m.at = "failed" THEN m.previous ELSE @]
    /\ fetch' = [fetch EXCEPT ![m.tab] = RefetchAfter(m)]
    /\ UNCHANGED <<order, creating, heard, dragged>>

\* The event of a change, or the success of a creation, asks for the list anew.
Hear(t) ==
    /\ heard[t]
    /\ heard' = [heard EXCEPT ![t] = FALSE]
    /\ fetch' = [fetch EXCEPT ![t] = Sent]
    /\ UNCHANGED <<order, creating, shown, drags, dragged>>

ReadList(t) ==
    /\ fetch[t] = Sent
    /\ fetch' = [fetch EXCEPT ![t] = [at |-> "answered", list |-> Listed]]
    /\ UNCHANGED <<order, creating, shown, heard, drags, dragged>>

ReceiveList(t) ==
    /\ fetch[t].at = "answered"
    /\ shown' = [shown EXCEPT ![t] = fetch[t].list]
    /\ fetch' = [fetch EXCEPT ![t] = None]
    /\ UNCHANGED <<order, creating, heard, drags, dragged>>

ListsInit ==
    /\ \E first \in SUBSET Values :
           order = [v \in Values |-> IF v \in first THEN Cardinality({u \in first : u <= v}) ELSE 0]
    /\ creating = [v \in Values |-> 0]
    /\ shown = [t \in Windows |-> Listed]
    /\ fetch = [t \in Windows |-> None] /\ heard = [t \in Windows |-> FALSE]
    /\ drags = {} /\ dragged = 0

ListsNext ==
    \/ \E v \in Values : StartCreateValue(v) \/ CreateValue(v)
    \/ \E m \in drags : CheckOrder(m) \/ Reorder(m) \/ Fails(m) \/ Settle(m)
    \/ \E t \in Windows :
           \/ Hear(t) \/ ReadList(t) \/ ReceiveList(t)
           \/ \E from, to \in DOMAIN shown[t] : Drag(t, from, to)

ListsSpec == ListsInit /\ [][ListsNext]_listVars

-----------------------------------------------------------------------------
(* Properties. *)

\* Whatever is dragged at once, refused, lost or created meanwhile: a tab with
\* nothing under way shows the order of the database.
ListSettles ==
    \A t \in Windows :
        (fetch[t] = None /\ ~ heard[t] /\ \A m \in drags : m.tab # t) => shown[t] = Listed
=============================================================================
