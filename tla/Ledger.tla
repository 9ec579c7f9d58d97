------------------------------- MODULE Ledger -------------------------------
(***************************************************************************)
(* What importing and reprocessing promise whoever keeps the spreadsheets:  *)
(* a line waits until it is settled, and is settled once and for good; a    *)
(* key gets its sale once and for good; and a sale is only ever written     *)
(* again from a line of its own key.  Imports implements it.                *)
(***************************************************************************)
EXTENDS Naturals, Sequences

CONSTANTS
    Lines,   \* contents of a line
    KeyOf    \* KeyOf[l]: the key of the sale line l is about

VARIABLES
    waiting,  \* the lines that were read and are not settled; e.line is what e says
    settled,  \* the lines whose result stands
    sold,     \* sold[k]: the sale the settled lines of key k name, if any
    sales     \* sales[s]: the line sale s was last written from

Init ==
    /\ waiting = {} /\ settled = {}
    /\ \A k \in DOMAIN sold : sold[k] = {}
    /\ sales = <<>>

\* A sale is written from line l: a new one, unless the key has its sale, or
\* one of the same key.
Write(l) ==
    /\ \/ sold[KeyOf[l]] = {} /\ sales' = Append(sales, l)
       \/ \E s \in DOMAIN sales :
            /\ KeyOf[sales[s]] = KeyOf[l]
            /\ sales' = [sales EXCEPT ![s] = l]
    /\ UNCHANGED <<waiting, settled, sold>>

\* Line e of a spreadsheet has to wait, or goes on waiting.
Wait(e) ==
    /\ e \notin settled
    /\ waiting' = waiting \cup {e}
    /\ UNCHANGED <<settled, sold, sales>>

\* The result of e stands.
Settle(e) ==
    /\ e \notin settled
    /\ settled' = settled \cup {e}
    /\ waiting' = waiting \ {e}
    /\ UNCHANGED sales

\* Line e was seen before and needs no sale.
Pass(e) ==
    /\ Settle(e)
    /\ UNCHANGED sold

\* Line e has its sale, which is that of its key.
Sell(e, s) ==
    /\ Settle(e)
    /\ s \in DOMAIN sales /\ KeyOf[sales[s]] = KeyOf[e.line]
    /\ sold[KeyOf[e.line]] \subseteq {s}
    /\ sold' = [sold EXCEPT ![KeyOf[e.line]] = {s}]

Next ==
    \/ \E l \in Lines : Write(l)
    \/ \E e \in waiting' \cup settled' :
          Wait(e) \/ Pass(e) \/ \E s \in DOMAIN sales : Sell(e, s)

Spec == Init /\ [][Next]_<<waiting, settled, sold, sales>>
=============================================================================
