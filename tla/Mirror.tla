------------------------------- MODULE Mirror -------------------------------
(***************************************************************************)
(* What the pages of the web client promise: a page shows the tables as    *)
(* they were together at some moment, and never shows an older moment than  *)
(* it has shown before.  The one exception is a list the user puts in order *)
(* by hand: it is shown in that order before the server has it, and if the  *)
(* server refuses the page goes back to what it showed then, however old    *)
(* that is by now.  LivePages implements it.                                *)
(***************************************************************************)
EXTENDS Naturals

CONSTANTS
    Reads,   \* Reads[q]: the tables the answer to query q is made of
    ByHand,  \* the queries whose answers the user may rearrange
    NULL     \* "nothing shown yet"

VARIABLES
    version,  \* version[e]: how often table e has changed
    shown,    \* shown[q]: the version of each of its tables that q shows, or NULL
    kept      \* kept[q]: what q may go back to

Init ==
    /\ \A e \in DOMAIN version : version[e] = 0
    /\ \A q \in DOMAIN shown : shown[q] = NULL
    /\ \A q \in DOMAIN kept : kept[q] = {}

\* Tables change, whatever the pages do.
Change ==
    /\ version' # version
    /\ \A e \in DOMAIN version : version'[e] >= version[e]
    /\ UNCHANGED <<shown, kept>>

Elsewhere(q, f, g) == \A p \in DOMAIN f \ {q} : g[p] = f[p]

\* Page q shows something newer, which the tables have reached.
Show(q) ==
    /\ shown'[q] # NULL
    /\ \A e \in Reads[q] :
         /\ shown'[q][e] <= version[e]
         /\ shown[q] # NULL => shown[q][e] <= shown'[q][e]
    /\ Elsewhere(q, shown, shown')
    /\ UNCHANGED <<version, kept>>

\* The user rearranges what q shows: the rows are still those of that moment.
Arrange(q) ==
    /\ q \in ByHand
    /\ shown[q] # NULL
    /\ kept'[q] = kept[q] \cup {shown[q]}
    /\ Elsewhere(q, kept, kept')
    /\ UNCHANGED <<version, shown>>

\* The server refuses: q shows again what it showed when the user began.
GoBack(q) ==
    /\ shown'[q] \in kept[q]
    /\ Elsewhere(q, shown, shown')
    /\ kept'[q] \subseteq kept[q]
    /\ Elsewhere(q, kept, kept')
    /\ UNCHANGED version

\* The server accepts: there is nothing to go back to.
Forget(q) ==
    /\ kept'[q] \subseteq kept[q]
    /\ Elsewhere(q, kept, kept')
    /\ UNCHANGED <<version, shown>>

Turn(q) == Show(q) \/ Arrange(q) \/ GoBack(q) \/ Forget(q)

Spec == Init /\ [][Change \/ \E q \in DOMAIN shown : Turn(q)]_<<version, shown, kept>>
=============================================================================
