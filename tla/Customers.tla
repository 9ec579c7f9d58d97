------------------------------ MODULE Customers ------------------------------
(***************************************************************************)
(* The customers and their address catalogs under concurrent requests:      *)
(* CustomersService.create and update, the customer part of a sale          *)
(* (upsertCustomer, attachSaleAddress) and of an imported line, which add   *)
(* to the catalog (ensureCatalogAddress).                                   *)
(*                                                                          *)
(* A statement sees what is committed.  A transaction that updates the      *)
(* customer holds its row until it commits; one whose user may not change    *)
(* the customer only reads it.  Refusals that change nothing (no visible     *)
(* sale, an incomplete address) are left out, and so are the other fields.  *)
(***************************************************************************)
EXTENDS Naturals, Sequences, FiniteSets

CONSTANTS
    Ids, Docs,   \* customers and their documents (cpfCnpj)
    Places,      \* addresses, as addressDedupeKey tells them apart
    Requests,    \* requests that may overlap
    MaxRequests, \* bound on the requests
    NoDoc        \* the document of a customer that is not there

VARIABLES
    docOf,       \* customer -> document, or NoDoc
    catalog,     \* customer -> his address rows in the order of their creation
    req,         \* the requests under way
    served,      \* the requests so far
    unguarded    \* customers whose catalog was written under a transaction that held no lock

customersVars == <<docOf, catalog, req, served, unguarded>>

NoReq == [kind |-> "none"]

Customer(doc) == {c \in Ids : docOf[c] = doc}

\* The requests that work on a customer, and those that hold his row or document.
On(c) == {q \in Requests : req[q].kind # "none" /\ req[q].id = c}
Holds(q) == req[q].kind \in {"sale", "import"} /\ req[q].locks
Held(c) == \E q \in On(c) : Holds(q)
DocHeld(doc) == \E q \in Requests : Holds(q) /\ docOf[req[q].id] = NoDoc /\ req[q].doc = doc

Named(input) == {i \in DOMAIN input : input[i].default}

\* withSingleDefault without the rule for input that names no default.
WithNamedDefault(input) ==
    [i \in DOMAIN input |-> [input[i] EXCEPT !.default = @ /\ \A j \in Named(input) : i <= j]]

\* The first row named the default is it, or the first row.
WithSingleDefault(input) ==
    [i \in DOMAIN input |->
        [input[i] EXCEPT !.default = IF Named(input) = {} THEN i = 1
                                     ELSE @ /\ \A j \in Named(input) : i <= j]]

Row(place, default) == [place |-> place, default |-> default]

\* Up to two addresses.
Inputs == UNION {[1 .. n -> [place : Places, default : BOOLEAN]] : n \in 0 .. 2}

\* A write to a catalog that a transaction has read, where one of the two holds no lock.
Marks(q, c, guarded) ==
    IF \E p \in On(c) \ {q} : /\ req[p].kind \in {"sale", "import"} /\ req[p].at = "read"
                              /\ ~ guarded \/ ~ req[p].locks
    THEN unguarded \cup {c} ELSE unguarded

Begin(q, record) ==
    /\ req[q].kind = "none" /\ served < MaxRequests
    /\ served' = served + 1
    /\ req' = [req EXCEPT ![q] = record]
    /\ UNCHANGED <<docOf, catalog, unguarded>>

End(q) == req' = [req EXCEPT ![q] = NoReq]

-----------------------------------------------------------------------------
(* POST and PATCH /customers: the test for the document and the write. *)

StartCreate(q, doc, input) ==
    /\ Customer(doc) = {}
    /\ \E c \in Ids : /\ docOf[c] = NoDoc /\ On(c) = {}
                      /\ Begin(q, [kind |-> "create", id |-> c, doc |-> doc, input |-> input])

StartUpdate(q, c, doc, input) ==
    /\ docOf[c] # NoDoc /\ Customer(doc) \subseteq {c}
    /\ Begin(q, [kind |-> "update", id |-> c, doc |-> doc, input |-> input])

\* One statement; the unique document refuses it when it was taken meanwhile,
\* and a row or document that is held makes it wait.
Save(q) ==
    /\ req[q].kind \in {"create", "update"}
    /\ LET c == req[q].id IN
       /\ ~ Held(c) /\ ~ DocHeld(req[q].doc)
       /\ IF Customer(req[q].doc) \subseteq {c}
          THEN /\ docOf' = [docOf EXCEPT ![c] = req[q].doc]
               /\ catalog' = [catalog EXCEPT ![c] = WithSingleDefault(req[q].input)]
               /\ unguarded' = Marks(q, c, TRUE)
          ELSE UNCHANGED <<docOf, catalog, unguarded>>
    /\ End(q)
    /\ UNCHANGED served

-----------------------------------------------------------------------------
(* The transactions of a sale and of an imported line. *)

\* upsertCustomer: the customer with the document, or a new one.  An import and
\* a user who may change the customer update his row, and so hold it.
StartSale(q, kind, doc, place, mayUpdate) ==
    /\ ~ DocHeld(doc)
    /\ \E c \in Ids :
           /\ IF Customer(doc) = {} THEN docOf[c] = NoDoc /\ On(c) = {} ELSE c \in Customer(doc)
           /\ LET locks == kind = "import" \/ mayUpdate \/ docOf[c] = NoDoc IN
              /\ locks => ~ Held(c)
              /\ Begin(q, [kind |-> kind, id |-> c, doc |-> doc, place |-> place, locks |-> locks,
                           at |-> "upserted", existing |-> <<>>])

ReadCatalog(q) ==
    /\ req[q].kind \in {"sale", "import"} /\ req[q].at = "upserted"
    /\ req' = [req EXCEPT ![q].at = "read", ![q].existing = catalog[req[q].id]]
    /\ UNCHANGED <<docOf, catalog, served, unguarded>>

\* The address goes into the catalog unless it is there, the first one as the default.
EnsureCatalogAddress(rows, existing, place) ==
    IF \E i \in DOMAIN existing : existing[i].place = place THEN rows
    ELSE Append(rows, Row(place, existing = <<>>))

AttachAddress(q) ==
    /\ req[q].kind \in {"sale", "import"} /\ req[q].at = "read"
    /\ LET c == req[q].id IN
       /\ docOf' = [docOf EXCEPT ![c] = IF @ = NoDoc THEN req[q].doc ELSE @]
       /\ catalog' = [catalog EXCEPT ![c] = EnsureCatalogAddress(@, req[q].existing, req[q].place)]
       /\ unguarded' = Marks(q, c, req[q].locks)
    /\ End(q)
    /\ UNCHANGED served

\* The transaction fails and leaves nothing.
Rollback(q) ==
    /\ req[q].kind \in {"sale", "import"}
    /\ End(q)
    /\ UNCHANGED <<docOf, catalog, served, unguarded>>

CustomersInit ==
    /\ docOf = [c \in Ids |-> NoDoc] /\ catalog = [c \in Ids |-> <<>>]
    /\ req = [q \in Requests |-> NoReq] /\ served = 0 /\ unguarded = {}

CustomersNext ==
    \E q \in Requests :
        \/ \E doc \in Docs, input \in Inputs :
               StartCreate(q, doc, input) \/ \E c \in Ids : StartUpdate(q, c, doc, input)
        \/ \E kind \in {"sale", "import"}, doc \in Docs, place \in Places, mayUpdate \in BOOLEAN :
               StartSale(q, kind, doc, place, mayUpdate)
        \/ Save(q) \/ ReadCatalog(q) \/ AttachAddress(q) \/ Rollback(q)

CustomersSpec == CustomersInit /\ [][CustomersNext]_customersVars

-----------------------------------------------------------------------------
(* Properties. *)

\* A customer with addresses has exactly one default address, whatever sales,
\* imports and edits add or replace at the same time, unless the catalog was
\* written between read and write of a sale by a user who may not change the
\* customer: such a sale does not hold the customer's row.
OneDefault ==
    \A c \in Ids \ unguarded :
        catalog[c] # <<>> => Cardinality({i \in DOMAIN catalog[c] : catalog[c][i].default}) = 1
=============================================================================
