------------------------------ MODULE SaleForm ------------------------------
(***************************************************************************)
(* The form of a new sale (use-sale-form.ts), from the choice of a customer *)
(* to the page of the sale, and what POST /sales does with the customer and *)
(* the address it is given (upsertCustomer, attachSaleAddress).             *)
(*                                                                          *)
(* Personal data is abstracted to the person it describes: a field that     *)
(* holds "the data of p".  The rows of a customer's addresses are known by  *)
(* the number of their last replacement, since an edit of the customer      *)
(* deletes and creates them all.                                            *)
(***************************************************************************)
EXTENDS Naturals, FiniteSets

CONSTANTS
    People,       \* persons, customers or not
    MaxEdits,     \* bound on the edits of customers by others
    MaxLost,      \* bound on the answers that are lost
    MaxSold,      \* bound on the sales
    NoData, Nobody \* an empty field; no customer selected

ASSUME SaleFormAssumption ==
    NoData \notin People /\ Nobody \notin People /\ {"typed", "new"} \cap People = {}

Sources == {"existing", "new"}
Kinds == {"AUDIO", "PROOF_OF_ADDRESS"}

VARIABLES
    mayView, mayEdit, \* customers.view and customers.edit of the user
    record,       \* person -> whom the customer with that document describes, or Nobody
    rows,         \* person -> the addresses of that customer: 0 for none
    form,         \* the form
    stage,        \* what the form does: filling, creating, uploading, leaving, left
    request,      \* the request of POST /sales, or Nobody
    uploads,      \* the files still to send
    sold,         \* the sales that the form made, with the number of each
    edits, lostAnswers,
    lateClicks    \* clicks on the button while the next page loads

formVars == <<mayView, mayEdit, record, rows, form, stage, request, uploads, sold, edits, lostAnswers, lateClicks>>

\* A selected customer goes with existingSelected: the hook sets both at once.
Selected == form.selected # Nobody

\* A form that forgets to drop the customer it had.
EmptyFormKept(source) ==
    [source |-> source, selected |-> form.selected, fields |-> NoData,
     addressId |-> "new", catalog |-> 0, address |-> NoData, files |-> form.files]

EmptyForm(source) ==
    [source |-> source, selected |-> Nobody, fields |-> NoData,
     addressId |-> "new", catalog |-> 0, address |-> NoData, files |-> form.files]

\* The fields can be changed while a request is on its way.
Fill(f) ==
    /\ stage # "left"
    /\ form' = f
    /\ UNCHANGED <<mayView, mayEdit, record, rows, stage, request, uploads, sold, edits, lostAnswers, lateClicks>>

-----------------------------------------------------------------------------
(* Filling the form. *)

SwitchCustomerSource(source) ==
    /\ mayView /\ source # form.source
    /\ Fill(EmptyForm(source))

\* "Trocar": back to the search.
SwitchCustomer ==
    /\ form.source = "existing" /\ Selected
    /\ Fill(EmptyForm("existing"))

\* The search shows the customer as he is stored now; his default address, or
\* the first one, is taken.
SelectExistingCustomer(p) ==
    /\ form.source = "existing" /\ ~ Selected
    /\ record[p] # Nobody
    /\ Fill([form EXCEPT !.selected = p, !.fields = record[p], !.catalog = rows[p],
                         !.addressId = IF rows[p] = 0 THEN "new" ELSE "catalog",
                         !.address = IF rows[p] = 0 THEN NoData ELSE p])

SelectCatalogAddress ==
    /\ Selected /\ form.catalog # 0
    /\ Fill([form EXCEPT !.addressId = "catalog", !.address = form.selected])

StartNewAddress ==
    /\ Selected
    /\ Fill([form EXCEPT !.addressId = "new", !.address = NoData])

TypePerson(p) ==
    /\ form.source = "new"
    /\ Fill([form EXCEPT !.fields = p])

\* An address typed for a selected customer is his; one typed for a new
\* customer belongs to whoever the form ends up with.
TypeAddress ==
    /\ form.source = "new" \/ (Selected /\ form.addressId = "new")
    /\ Fill([form EXCEPT !.address = IF Selected THEN form.selected ELSE "typed"])

AttachFile(kind) ==
    Fill([form EXCEPT !.files = IF kind \in @ THEN @ \ {kind} ELSE @ \cup {kind}])

-----------------------------------------------------------------------------
(* Sending it. *)

\* A button that is off while the sale is sent, and on again during the uploads.
ButtonOffForSale == stage # "left" /\ request = Nobody

\* The button is off while a request or an upload is on its way.
ButtonOn == stage \in {"filling", "leaving"}

Complete ==
    /\ (mayView /\ form.source = "existing") => Selected
    /\ Selected \/ form.fields # NoData
    /\ (form.source = "new" \/ form.addressId = "new") => form.address # NoData

Payload ==
    LET catalogued == form.source = "existing" /\ form.addressId # "new"
    IN  [id |-> form.selected,
         document |-> IF Selected THEN Nobody ELSE form.fields,
         fields |-> form.fields,
         catalog |-> IF catalogued THEN form.catalog ELSE 0,
         address |-> IF catalogued THEN NoData ELSE form.address,
         files |-> form.files, shown |-> form.fields, answer |-> "none"]

Submit ==
    /\ ButtonOn /\ Complete
    /\ Cardinality(sold) < MaxSold
    /\ lateClicks' = IF stage = "leaving" THEN lateClicks + 1 ELSE lateClicks
    /\ request' = Payload
    /\ stage' = "creating"
    /\ UNCHANGED <<mayView, mayEdit, record, rows, form, uploads, sold, edits, lostAnswers>>

\* The customer that the request is about, by identity or by document.
Target == IF request.id # Nobody THEN request.id ELSE request.document

MayUpdate(p) == mayEdit \/ \E s \in sold : s.customer = p

\* The record that upsertCustomer leaves: what is given replaces what is stored.
Upserted(p) ==
    IF record[p] = Nobody \/ MayUpdate(p) THEN [record EXCEPT ![p] = request.fields]
                                         ELSE record

\* The address of a customer with another number was replaced meanwhile.
AddressFound == request.catalog # 0 => request.catalog = rows[Target]

\* The transaction of SalesService.create.
Create ==
    /\ request # Nobody /\ request.answer = "none"
    /\ IF AddressFound
       THEN /\ request' = [request EXCEPT !.answer = "created"]
            /\ record' = Upserted(Target)
            /\ sold' = sold \cup {[nr |-> Cardinality(sold), customer |-> Target,
                                   address |-> IF request.catalog # 0 THEN Target
                                               ELSE request.address,
                                   shown |-> request.shown]}
            /\ rows' = [rows EXCEPT ![Target] = IF @ = 0 THEN 1 ELSE @]
       ELSE /\ request' = [request EXCEPT !.answer = "notFound"]
            /\ UNCHANGED <<record, sold, rows>>
    /\ UNCHANGED <<mayView, mayEdit, form, stage, uploads, edits, lostAnswers, lateClicks>>

Refused ==
    /\ request # Nobody /\ request.answer = "notFound"
    /\ stage' = "filling" /\ request' = Nobody
    /\ UNCHANGED <<mayView, mayEdit, record, rows, form, uploads, sold, edits, lostAnswers, lateClicks>>

\* With nothing to upload onDone starts the way to the page of the sale, which
\* has to be loaded before it replaces the form.
Created ==
    /\ request # Nobody /\ request.answer = "created"
    /\ request' = Nobody
    /\ uploads' = request.files
    /\ stage' = IF request.files = {} THEN "leaving" ELSE "uploading"
    /\ UNCHANGED <<mayView, mayEdit, record, rows, form, sold, edits, lostAnswers, lateClicks>>

\* The network loses the answer; the form shows an error and can be sent again.
AnswerLost ==
    /\ request # Nobody /\ request.answer # "none"
    /\ lostAnswers < MaxLost
    /\ lostAnswers' = lostAnswers + 1
    /\ stage' = "filling" /\ request' = Nobody
    /\ UNCHANGED <<mayView, mayEdit, record, rows, form, uploads, sold, edits, lateClicks>>

\* One file after the other, the recording first; a failure is passed over.
Uploaded(kind) ==
    /\ stage = "uploading"
    /\ kind \in uploads /\ (kind = "PROOF_OF_ADDRESS" => "AUDIO" \notin uploads)
    /\ uploads' = uploads \ {kind}
    /\ stage' = IF uploads' = {} THEN "leaving" ELSE stage
    /\ UNCHANGED <<mayView, mayEdit, record, rows, form, request, sold, edits, lostAnswers, lateClicks>>

Leave ==
    /\ stage = "leaving"
    /\ stage' = "left"
    /\ UNCHANGED <<mayView, mayEdit, record, rows, form, request, uploads, sold, edits, lostAnswers, lateClicks>>

\* Another user edits a customer and so replaces the rows of his addresses.
EditCustomer(p) ==
    /\ edits < MaxEdits
    /\ record[p] # Nobody
    /\ edits' = edits + 1
    /\ rows' = [rows EXCEPT ![p] = @ + 1]
    /\ UNCHANGED <<mayView, mayEdit, record, form, stage, request, uploads, sold, lostAnswers, lateClicks>>

FormInit ==
    /\ mayView \in BOOLEAN /\ mayEdit \in BOOLEAN
    /\ \E stored \in SUBSET People :
           record = [p \in People |-> IF p \in stored THEN p ELSE Nobody]
    /\ rows \in {r \in [People -> {0, 1}] : \A p \in People : record[p] = Nobody => r[p] = 0}
    /\ form = [source |-> "new", selected |-> Nobody, fields |-> NoData, addressId |-> "new",
               catalog |-> 0, address |-> NoData, files |-> {}]
    /\ stage = "filling" /\ request = Nobody
    /\ uploads = {} /\ sold = {}
    /\ edits = 0 /\ lostAnswers = 0 /\ lateClicks = 0

FormNext ==
    \/ \E source \in Sources : SwitchCustomerSource(source)
    \/ SwitchCustomer \/ SelectCatalogAddress \/ StartNewAddress \/ TypeAddress
    \/ \E p \in People : SelectExistingCustomer(p) \/ TypePerson(p) \/ EditCustomer(p)
    \/ \E kind \in Kinds : AttachFile(kind) \/ Uploaded(kind)
    \/ Submit \/ Create \/ Created \/ Refused \/ AnswerLost \/ Leave

FormSpec == FormInit /\ [][FormNext]_formVars

-----------------------------------------------------------------------------
(* Properties. *)

\* Whatever the user selects, clears, types and sends, in any order: a sale is
\* of the customer on display and at an address of that customer or typed for
\* him, and no customer's record ever takes the data of another person.
NoMixUp ==
    /\ \A p \in People : record[p] \in {p, Nobody}
    /\ \A s \in sold : s.customer = s.shown /\ s.address \in {s.customer, "typed"}

\* The form makes one sale, and another one only for an answer that was lost or
\* for a click while the page of the sale was loading; never because something
\* was still being sent.
SoldOnce == Cardinality(sold) <= 1 + lostAnswers + lateClicks
=============================================================================
